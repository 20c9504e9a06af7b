------------------------- MODULE TokenManagerProofs -------------------------
(***************************************************************************)
(* Safety of TokenManager for every set of rows, requests and donors.      *)
(*                                                                         *)
(* The order of the proofs: types; the mutex; what the holder of the mutex *)
(* knows of its row (RefreshIsCurrent and NoRedundantRefresh), which needs *)
(* that only the holder and donations write credentials; the health        *)
(* columns, which need neither; the chain of credentials of each row; and  *)
(* the custody of credentials, which needs all of these.                   *)
(***************************************************************************)
EXTENDS TokenManager, TLAPS

\* A request that is not idle works on a row, and donors never wait for a
\* mutex nor send.
PlacesOK ==
    /\ \A p \in Procs : pc[p] # "idle" => tok[p] \in Tokens
    /\ \A d \in Donors : pc[d] \in {"idle", "refresh", "granted", "refused"}

Typed == TypeOK /\ PlacesOK

\* Every statement on a row keeps its type.
LEMMA RowOperatorsType ==
    ASSUME NEW row \in RowType, NEW r \in ReplyType
    PROVE  /\ FailureRecorded(row, Threshold) \in RowType
           /\ HealthRestored(WithReply(row, r)) \in RowType
           /\ Donated(WithReply(row, r)) \in RowType
           /\ Disabled(row) \in RowType
           /\ [row EXCEPT !.fresh = FALSE] \in RowType
<1> DEFINE credited == WithReply(row, r)
<1>1. credited \in RowType
  BY DEF RowType, ReplyType, Credentials, WithReply
<1>2. HealthRestored(credited) \in RowType
  <2> HIDE DEF credited
  <2> QED BY <1>1 DEF RowType, HealthRestored
<1>3. Donated(credited) \in RowType
  <2> HIDE DEF credited
  <2> QED BY <1>2 DEF RowType, Donated
<1>4. FailureRecorded(row, Threshold) \in RowType
  <2>1. (row.healthy /\ row.failures + 1 < Threshold) \in BOOLEAN
    OBVIOUS
  <2>2. row.failures + 1 \in Nat
    BY DEF RowType
  <2> QED BY <2>1, <2>2 DEF RowType, FailureRecorded
<1>5. Disabled(row) \in RowType /\ [row EXCEPT !.fresh = FALSE] \in RowType
  BY DEF RowType, Disabled
<1> QED BY <1>2, <1>3, <1>4, <1>5

\* The initial states are typed.
LEMMA InitTyped == Init => Typed
  BY DEF Init, Typed, TypeOK, PlacesOK, RowType, ReplyType, AbsentRow, NoReply, Credentials,
         NoCredential, Procs, Critical

\* A finished request leaves typed locals behind.
LEMMA ResetTyped ==
    ASSUME Typed, NEW p \in Procs, Reset(p)
    PROVE  /\ pc' \in [Procs -> {"idle", "want", "have"} \cup Critical]
           /\ tok' \in [Procs -> Tokens \cup {NoToken}]
           /\ rejected' \in [Procs -> Credentials]
           /\ held' \in [Procs -> Credentials]
           /\ presented' \in [Procs -> Credentials]
           /\ reply' \in [Procs -> ReplyType]
           /\ PlacesOK'
  BY DEF Typed, TypeOK, PlacesOK, Reset, Credentials, NoCredential, NoReply,
         ReplyType, Procs

\* A grant of the OAuth server is typed.
LEMMA GrantTyped ==
    ASSUME Typed, NEW p \in Procs, OAuthRotates(p) \/ OAuthRenews(p)
    PROVE  Typed'
<1> USE DEF Typed, TypeOK, PlacesOK, Critical
<1>1. presented[p] \in Credentials /\ issued + 1 \in Credentials /\ issued' = issued + 1
  BY DEF OAuthRotates, OAuthRenews, Granted, Credentials
<1>2. PICK refresh \in Credentials : Granted(p, refresh)
  BY <1>1 DEF OAuthRotates, OAuthRenews
<1>3. [access |-> issued', refresh |-> refresh] \in ReplyType
  BY <1>1 DEF ReplyType
<1>4. reply' \in [Procs -> ReplyType]
  BY <1>2, <1>3 DEF Granted
<1>5. valid' \in SUBSET Credentials
  BY <1>1 DEF OAuthRotates, OAuthRenews
<1>6. contested' \in SUBSET Tokens
  BY <1>2 DEF Granted
<1>7. issued' \in Nat
  BY <1>1
<1>8. PlacesOK' /\ pc' \in [Procs -> {"idle", "want", "have"} \cup Critical]
  BY <1>2 DEF Granted
<1> QED
  BY <1>2, <1>4, <1>5, <1>6, <1>7, <1>8 DEF Granted

\* Every step of a worker keeps the types.
LEMMA WorkerTyped ==
    ASSUME Typed, NEW w \in Workers, WorkerStep(w)
    PROVE  Typed'
<1> USE DEF Typed, TypeOK, PlacesOK, NoCredential, Critical
<1>p. w \in Procs /\ w \notin Donors
  BY ProcsAssumption DEF Procs
<1>n. NoReply \in ReplyType /\ NoCredential \in Credentials
  BY DEF NoReply, ReplyType, Credentials
<1>r. \A t \in Tokens : /\ rows[t] \in RowType
                        /\ rows[t].access \in Credentials
                        /\ rows[t].refresh \in Credentials
  BY DEF RowType
<1>1. CASE \E t \in Tokens : SelectToken(w, t)
  <2> PICK t \in Tokens : SelectToken(w, t)
    BY <1>1
  <2>1. held' \in [Procs -> Credentials]
    BY <1>r DEF SelectToken
  <2>2. pc' \in [Procs -> {"idle", "want", "have"} \cup Critical]
    BY DEF SelectToken
  <2>3. PlacesOK'
    <3>1. tok' = [tok EXCEPT ![w] = t]
      BY DEF SelectToken
    <3>2. \A q \in Procs \ {w} : pc'[q] = pc[q]
      BY DEF SelectToken
    <3>3. Donors \subseteq Procs \ {w}
      BY <1>p DEF Procs
    <3> QED
      BY <3>1, <3>2, <3>3
  <2> QED
    BY <2>1, <2>2, <2>3 DEF SelectToken, serverVars, historyVars
<1>2. CASE Acquire(w)
  BY <1>2, <1>p DEF Acquire, serverVars, historyVars
<1>3. CASE GetToken(w)
  <2> DEFINE row == rows[tok[w]]
  <2>0. row.access \in Credentials /\ row.refresh \in Credentials
    BY <1>3, <1>p, <1>r DEF GetToken
  <2>1. CASE Return(w, row.access) /\ Release(w)
    BY <1>3, <2>1, <2>0, <1>p, <1>n DEF GetToken, Return, Release, serverVars
  <2>2. CASE /\ pc' = [pc EXCEPT ![w] = "refresh"]
             /\ presented' = [presented EXCEPT ![w] = row.refresh]
             /\ UNCHANGED <<locks, held, reply, overtaken>>
    BY <1>3, <2>2, <2>0, <1>p DEF GetToken, serverVars
  <2> QED
    BY <1>3, <2>1, <2>2 DEF GetToken
<1>4. CASE GetTokenFails(w)
  BY <1>4, <1>p, ResetTyped DEF GetTokenFails, Release, Finish, serverVars
<1>5. CASE OAuthRotates(w) \/ OAuthRenews(w)
  BY <1>5, <1>p, GrantTyped
<1>7. CASE OAuthRefuses(w)
  BY <1>7, <1>p DEF OAuthRefuses, serverVars, historyVars
<1>8. CASE ReplyLost(w)
  BY <1>8, <1>p, <1>n DEF ReplyLost, DroppedBy, serverVars
<1>9. CASE RecordFailure(w)
  <2>1. FailureRecorded(rows[tok[w]], Threshold) \in RowType
    BY <1>9, <1>p, <1>r, <1>n, RowOperatorsType DEF RecordFailure
  <2>2. rows' \in [Tokens -> RowType]
    BY <1>9, <2>1 DEF RecordFailure
  <2> QED
    BY <1>9, <2>2, <1>p, ResetTyped DEF RecordFailure, Release, Finish, serverVars
<1>10. CASE StoreCredentials(w)
  <2>1. reply[w].access \in Credentials
    BY <1>p DEF ReplyType
  <2>2. HealthRestored(WithReply(rows[tok[w]], reply[w])) \in RowType
    BY <1>10, <1>p, <1>r, RowOperatorsType DEF StoreCredentials
  <2>3. rows' \in [Tokens -> RowType]
    BY <1>10, <2>2 DEF StoreCredentials
  <2> QED
    BY <1>10, <2>1, <2>3, <1>p, <1>n
    DEF StoreCredentials, Return, Release, serverVars
<1>11. CASE StoreFails(w)
  BY <1>11, <1>p, ResetTyped DEF StoreFails, DroppedBy, Release, Finish, serverVars
<1>12. CASE UpstreamAnswers(w)
  BY <1>12, <1>p, ResetTyped DEF UpstreamAnswers, Finish, serverVars
<1>13. CASE UpstreamRejects(w)
  BY <1>13, <1>p, <1>n DEF UpstreamRejects, serverVars, historyVars
<1>14. CASE ReportAuthFailure(w)
  <2>1. FailureRecorded(rows[tok[w]], Threshold) \in RowType
    BY <1>14, <1>p, <1>r, <1>n, RowOperatorsType DEF ReportAuthFailure
  <2>2. rows' \in [Tokens -> RowType]
    BY <1>14, <2>1 DEF ReportAuthFailure
  <2> QED
    BY <1>14, <2>2, <1>p, ResetTyped DEF ReportAuthFailure, Finish, serverVars
<1> QED
  BY <1>1, <1>2, <1>3, <1>4, <1>5, <1>7, <1>8, <1>9, <1>10, <1>11,
     <1>12, <1>13, <1>14
  DEF WorkerStep, OAuthAnswers, Write

\* Every step of a donor keeps the types.
LEMMA DonorTyped ==
    ASSUME Typed, NEW d \in Donors, DonorStep(d)
    PROVE  Typed'
<1> USE DEF Typed, TypeOK, PlacesOK, Critical
<1>p. d \in Procs
  BY DEF Procs
<1>n. NoReply \in ReplyType /\ NoCredential \in Credentials
  BY DEF NoReply, ReplyType, Credentials, NoCredential
<1>1. CASE \E t \in Tokens : DonateNew(d, t)
  <2> PICK t \in Tokens : DonateNew(d, t)
    BY <1>1
  <2>1. issued + 1 \in Credentials /\ issued' \in Nat /\ valid' \in SUBSET Credentials
    BY DEF DonateNew, Credentials
  <2> QED
    BY <2>1, <1>p DEF DonateNew, DonateSubmit, historyVars
<1>2. CASE \E t \in Tokens : DonateAgain(d, t)
  BY <1>2, <1>p DEF DonateAgain, DonateSubmit, serverVars, historyVars
<1>3. CASE OAuthRotates(d) \/ OAuthRenews(d)
  BY <1>3, <1>p, GrantTyped
<1>4. CASE OAuthRefuses(d)
  BY <1>4, <1>p DEF OAuthRefuses, serverVars, historyVars
<1>5. CASE ReplyLost(d)
  BY <1>5, <1>p, <1>n DEF ReplyLost, DroppedBy, serverVars
<1>6. CASE DonateStore(d)
  <2>1. rows[tok[d]] \in RowType /\ reply[d] \in ReplyType
    BY <1>6, <1>p DEF DonateStore
  <2>2. Donated(WithReply(rows[tok[d]], reply[d])) \in RowType
    BY <2>1, RowOperatorsType
  <2>3. rows' \in [Tokens -> RowType]
    BY <1>6, <2>2 DEF DonateStore
  <2> QED
    BY <1>6, <2>3, <1>p, ResetTyped DEF DonateStore, serverVars
<1>7. CASE DonateFails(d)
  BY <1>7, <1>p, ResetTyped DEF DonateFails, DroppedBy, Finish, serverVars
<1> QED
  BY <1>1, <1>2, <1>3, <1>4, <1>5, <1>6, <1>7 DEF DonorStep, OAuthAnswers

\* Every step keeps the types.
LEMMA NextTyped == Typed /\ [Next]_vars => Typed'
<1> SUFFICES ASSUME Typed, [Next]_vars PROVE Typed'
  OBVIOUS
<1>1. CASE \E w \in Workers : WorkerStep(w)
  BY <1>1, WorkerTyped
<1>2. CASE \E d \in Donors : DonorStep(d)
  BY <1>2, DonorTyped
<1>3. CASE \E t \in Tokens : DisableToken(t)
  <2> PICK t \in Tokens : DisableToken(t)
    BY <1>3
  <2>1. rows[t] \in RowType /\ NoReply \in ReplyType
    BY DEF Typed, TypeOK, NoReply, ReplyType, Credentials, NoCredential
  <2>2. Disabled(rows[t]) \in RowType
    BY <2>1, RowOperatorsType
  <2> QED
    BY <2>2 DEF Typed, TypeOK, PlacesOK, DisableToken, serverVars, historyVars
<1>4. CASE \E t \in Tokens : Expire(t)
  <2> PICK t \in Tokens : Expire(t)
    BY <1>4
  <2>1. rows[t] \in RowType /\ NoReply \in ReplyType
    BY DEF Typed, TypeOK, NoReply, ReplyType, Credentials, NoCredential
  <2>2. [rows[t] EXCEPT !.fresh = FALSE] \in RowType
    BY <2>1, RowOperatorsType
  <2>3. rows' = [rows EXCEPT ![t] = [rows[t] EXCEPT !.fresh = FALSE]]
    BY DEF Expire
  <2> QED
    BY <2>2, <2>3 DEF Typed, TypeOK, PlacesOK, Expire, serverVars, historyVars
<1>5. CASE Crash
  BY <1>5 DEF Crash, Typed, TypeOK, PlacesOK, DroppedBy, NoReply, ReplyType,
              Credentials, NoCredential, Critical, serverVars, Procs
<1>6. CASE UNCHANGED vars
  BY <1>6 DEF vars, serverVars, historyVars, Typed, TypeOK, PlacesOK
<1> QED
  BY <1>1, <1>2, <1>3, <1>4, <1>5, <1>6 DEF Next

\* Every variable keeps its type.
THEOREM TypeCorrect == Spec => []TypeOK
<1>1. Spec => []Typed
  BY InitTyped, NextTyped, PTL DEF Spec
<1>2. Typed => TypeOK
  BY DEF Typed
<1> QED
  BY <1>1, <1>2, PTL

-----------------------------------------------------------------------------
(***************************************************************************)
(* The mutex and what its holder knows.                                    *)
(***************************************************************************)

\* A row that can only have become less fresh: its credentials are the same.
SameCredentials(old, new) ==
    /\ new.access = old.access
    /\ new.refresh = old.refresh
    /\ new.fresh => old.fresh

\* What RefreshIsCurrent and NoRedundantRefresh say of one worker.
Knows(w) ==
    w \notin overtaken =>
        /\ pc[w] \in {"refresh", "granted", "refused"}
              => presented[w] = rows[tok[w]].refresh
        /\ pc[w] = "refresh" => \/ NeedsRefresh(rows[tok[w]])
                                \/ rows[tok[w]].access = rejected[w]

Holding == Typed /\ MutexHolder /\ \A w \in Workers : Knows(w)

\* A step that is p's leaves the locals of the others alone.
OnlyMoves(p) ==
    \A q \in Procs \ {p} : /\ pc'[q] = pc[q]
                           /\ tok'[q] = tok[q]
                           /\ rejected'[q] = rejected[q]
                           /\ presented'[q] = presented[q]

\* The workers' statements about failures and health, DisableToken and the
\* passing of time leave credentials alone.
LEMMA RowOperatorsKeepCredentials ==
    ASSUME NEW row \in RowType
    PROVE  /\ SameCredentials(row, FailureRecorded(row, Threshold))
           /\ SameCredentials(row, Disabled(row))
           /\ SameCredentials(row, [row EXCEPT !.fresh = FALSE])
           /\ SameCredentials(row, row)
  BY DEF RowType, SameCredentials, FailureRecorded, Disabled

\* A step of a worker moves no other request.
LEMMA WorkerMovesAlone ==
    ASSUME Typed, NEW w \in Workers, WorkerStep(w)
    PROVE  OnlyMoves(w)
<1> USE DEF OnlyMoves, Typed, TypeOK
<1>1. CASE \E t \in Tokens : SelectToken(w, t)
  BY <1>1 DEF SelectToken
<1>2. CASE Acquire(w) \/ OAuthRefuses(w) \/ ReplyLost(w) \/ UpstreamRejects(w)
  BY <1>2 DEF Acquire, OAuthRefuses, ReplyLost, UpstreamRejects
<1>3. CASE GetToken(w)
  BY <1>3 DEF GetToken, Return
<1>4. CASE OAuthRotates(w) \/ OAuthRenews(w)
  BY <1>4 DEF OAuthRotates, OAuthRenews, Granted
<1>5. CASE StoreCredentials(w)
  BY <1>5 DEF StoreCredentials, Return
<1>6. CASE \/ GetTokenFails(w) \/ RecordFailure(w) \/ StoreFails(w)
           \/ UpstreamAnswers(w) \/ ReportAuthFailure(w)
  BY <1>6 DEF GetTokenFails, RecordFailure, StoreFails, UpstreamAnswers,
              ReportAuthFailure, Finish, Reset
<1> QED
  BY <1>1, <1>2, <1>3, <1>4, <1>5, <1>6 DEF WorkerStep, OAuthAnswers, Write

\* A step of a donor moves no other request.
LEMMA DonorMovesAlone ==
    ASSUME Typed, NEW d \in Donors, DonorStep(d)
    PROVE  OnlyMoves(d)
  BY DEF OnlyMoves, Typed, TypeOK, DonorStep, DonateNew, DonateAgain,
         DonateSubmit, OAuthAnswers, OAuthRotates, OAuthRenews, Granted,
         OAuthRefuses, ReplyLost, DonateStore, DonateFails, Finish, Reset

\* The mutexes stay with their holders in a step that touches no mutex and in
\* which nobody enters or leaves the critical section.
LEMMA MutexKept ==
    ASSUME Typed, MutexHolder, NEW p \in Procs, OnlyMoves(p), UNCHANGED locks,
           p \in Workers =>
               /\ pc'[p] \in Critical <=> pc[p] \in Critical
               /\ pc[p] \in Critical => tok'[p] = tok[p]
    PROVE  MutexHolder'
  BY DEF MutexHolder, OnlyMoves, Procs

\* A worker that leaves the critical section and unlocks frees its mutex and
\* no other.
LEMMA MutexReleased ==
    ASSUME Typed, MutexHolder, NEW w \in Workers, OnlyMoves(w),
           pc[w] \in Critical, Release(w), pc'[w] \notin Critical
    PROVE  MutexHolder'
<1> USE DEF Typed, TypeOK
<1>1. tok[w] \in Tokens /\ locks[tok[w]] = w /\ NoProc \notin Workers
  BY ProcsAssumption DEF PlacesOK, MutexHolder, Procs, Critical
<1>2. \A t \in Tokens : locks'[t] = IF t = tok[w] THEN NoProc ELSE locks[t]
  BY <1>1 DEF Release
<1>3. ASSUME NEW v \in Workers, NEW t \in Tokens
      PROVE  locks'[t] = v <=> pc'[v] \in Critical /\ tok'[v] = t
  <2>1. CASE v = w
    <3>1. locks'[t] # w
      BY <2>1, <1>1, <1>2 DEF MutexHolder
    <3> QED
      BY <2>1, <3>1
  <2>2. CASE v # w
    <3>1. pc'[v] = pc[v] /\ tok'[v] = tok[v]
      BY <2>2 DEF OnlyMoves, Procs
    <3>2. locks[tok[w]] # v
      BY <2>2, <1>1
    <3> QED
      BY <2>2, <3>1, <3>2, <1>1, <1>2 DEF MutexHolder
  <2> QED
    BY <2>1, <2>2
<1> QED
  BY <1>3 DEF MutexHolder

\* The mutexes stay with their holders in every step of a worker.
LEMMA WorkerKeepsMutex ==
    ASSUME Typed, MutexHolder, NEW w \in Workers, WorkerStep(w)
    PROVE  MutexHolder'
<1> USE DEF Critical
<1>p. w \in Procs
  BY DEF Procs
<1>t. TypeOK /\ tok[w] \in Tokens \cup {NoToken}
  BY <1>p DEF Typed, TypeOK
<1>o. OnlyMoves(w)
  BY WorkerMovesAlone
<1>1. CASE \E t \in Tokens : SelectToken(w, t)
  <2> PICK t \in Tokens : SelectToken(w, t)
    BY <1>1
  <2>1. pc[w] \notin Critical /\ pc'[w] \notin Critical /\ UNCHANGED locks
    BY <1>p, <1>t DEF SelectToken, TypeOK
  <2> QED
    BY <2>1, <1>o, <1>p, MutexKept
<1>2. CASE Acquire(w)
  <2>1. tok[w] \in Tokens /\ UNCHANGED tok /\ pc[w] = "want"
    BY <1>2, <1>p DEF Acquire, Typed, PlacesOK
  <2>2. pc'[w] = "locked"
    BY <1>2, <1>p, <1>t DEF Acquire, TypeOK
  <2>3. \A t \in Tokens : locks'[t] = IF t = tok[w] THEN w ELSE locks[t]
    BY <1>2, <1>t DEF Acquire, TypeOK
  <2>4. locks[tok[w]] = NoProc /\ NoProc \notin Workers
    BY <1>2, ProcsAssumption DEF Acquire, Procs
  <2>5. \A v \in Workers \ {w} : pc'[v] = pc[v]
    BY <1>o DEF OnlyMoves, Procs
  <2> QED
    BY <2>1, <2>2, <2>3, <2>4, <2>5 DEF MutexHolder
<1>3. CASE GetToken(w)
  <2>1. pc[w] = "locked" /\ UNCHANGED tok
    BY <1>3 DEF GetToken
  <2>2. CASE Release(w) /\ pc'[w] = "have"
    BY <2>1, <2>2, <1>o, MutexReleased
  <2>3. CASE UNCHANGED locks /\ pc'[w] = "refresh"
    BY <2>1, <2>3, <1>o, <1>p, MutexKept
  <2> QED
    BY <1>3, <2>2, <2>3, <1>p, <1>t DEF GetToken, Return, TypeOK
<1>4. CASE OAuthAnswers(w) \/ ReplyLost(w)
  <2>1. pc[w] \in Critical /\ pc'[w] \in Critical /\ UNCHANGED <<locks, tok>>
    BY <1>4, <1>p, <1>t
    DEF OAuthAnswers, OAuthRotates, OAuthRenews, Granted, OAuthRefuses,
        ReplyLost, TypeOK
  <2> QED
    BY <2>1, <1>o, <1>p, MutexKept
<1>5. CASE GetTokenFails(w) \/ Write(w)
  <2>1. pc[w] \in Critical /\ pc'[w] \notin Critical /\ Release(w)
    BY <1>5, <1>p, <1>t
    DEF GetTokenFails, Write, RecordFailure, StoreCredentials, StoreFails,
        Finish, Reset, Return, TypeOK
  <2> QED
    BY <2>1, <1>o, MutexReleased
<1>6. CASE UpstreamAnswers(w) \/ UpstreamRejects(w) \/ ReportAuthFailure(w)
  <2>1. pc[w] \notin Critical /\ pc'[w] \notin Critical /\ UNCHANGED locks
    BY <1>6, <1>p, <1>t
    DEF UpstreamAnswers, UpstreamRejects, ReportAuthFailure, Finish, Reset,
        TypeOK
  <2> QED
    BY <2>1, <1>o, <1>p, MutexKept
<1> QED
  BY <1>1, <1>2, <1>3, <1>4, <1>5, <1>6 DEF WorkerStep

\* The mutexes stay with their holders in every step.
LEMMA NextKeepsMutex ==
    Typed /\ MutexHolder /\ [Next]_vars => MutexHolder'
<1> SUFFICES ASSUME Typed, MutexHolder, [Next]_vars PROVE MutexHolder'
  OBVIOUS
<1>1. CASE \E w \in Workers : WorkerStep(w)
  BY <1>1, WorkerKeepsMutex
<1>2. CASE \E d \in Donors : DonorStep(d)
  <2> PICK d \in Donors : DonorStep(d)
    BY <1>2
  <2>1. d \in Procs /\ d \notin Workers
    BY ProcsAssumption DEF Procs
  <2>2. UNCHANGED locks
    BY DEF DonorStep, DonateNew, DonateAgain, DonateSubmit, OAuthAnswers,
           OAuthRotates, OAuthRenews, Granted, OAuthRefuses, ReplyLost,
           DonateStore, DonateFails
  <2> QED
    BY <2>1, <2>2, DonorMovesAlone, MutexKept
<1>3. CASE \/ \E t \in Tokens : DisableToken(t) \/ Expire(t)
           \/ UNCHANGED vars
  BY <1>3 DEF DisableToken, Expire, vars, MutexHolder
<1>4. CASE Crash
  BY <1>4, ProcsAssumption DEF Crash, MutexHolder, Critical, Procs
<1> QED
  BY <1>1, <1>2, <1>3, <1>4 DEF Next

\* The mutex of a row is held by exactly the worker in its critical section.
THEOREM MutexSafe == Spec => []MutexHolder
<1>1. Init => MutexHolder
  BY ProcsAssumption DEF Init, MutexHolder, Critical, Procs
<1>2. Spec => [](Typed /\ MutexHolder)
  BY <1>1, InitTyped, NextTyped, NextKeepsMutex, PTL DEF Spec
<1> QED
  BY <1>2, PTL

-----------------------------------------------------------------------------
\* What the others know stays true in a step of p that leaves the credentials
\* of the rows they hold alone, or that counts them as overtaken.
LEMMA OthersStillKnow ==
    ASSUME Holding, NEW p \in Procs, OnlyMoves(p), NEW v \in Workers, v # p,
           v \notin overtaken' => v \notin overtaken,
           v \notin overtaken' /\ pc[v] \in {"refresh", "granted", "refused"}
               => SameCredentials(rows[tok[v]], rows'[tok[v]])
    PROVE  Knows(v)'
<1>1. /\ pc'[v] = pc[v] /\ tok'[v] = tok[v]
      /\ rejected'[v] = rejected[v] /\ presented'[v] = presented[v]
  BY DEF OnlyMoves, Procs
<1>2. pc[v] \in {"refresh", "granted", "refused"} => tok[v] \in Tokens
  BY DEF Holding, Typed, PlacesOK, Procs
<1>3. \A t \in Tokens : rows[t].fresh \in BOOLEAN
  BY DEF Holding, Typed, TypeOK, RowType
<1>4. Knows(v)
  BY DEF Holding
<1> QED
  BY <1>1, <1>2, <1>3, <1>4 DEF Knows, SameCredentials, NeedsRefresh

\* A statement on one row that keeps its credentials keeps those of all rows.
LEMMA OneRowWritten ==
    ASSUME Typed, NEW t \in Tokens, NEW new, SameCredentials(rows[t], new),
           rows' = [rows EXCEPT ![t] = new]
    PROVE  \A u \in Tokens : SameCredentials(rows[u], rows'[u])
  BY DEF Typed, TypeOK, SameCredentials

\* No other worker refreshes the row that w holds.
LEMMA HolderIsAlone ==
    ASSUME Holding, NEW w \in Workers, NEW v \in Workers, v # w,
           pc[w] \in Critical, pc[v] \in Critical
    PROVE  tok[v] # tok[w]
<1>1. tok[w] \in Tokens /\ tok[v] \in Tokens
  BY DEF Holding, Typed, PlacesOK, Critical, Procs
<1> QED
  BY <1>1 DEF Holding, MutexHolder

\* Steps of a worker: what it and the others know of their rows.
LEMMA WorkerKeepsKnowledge ==
    ASSUME Holding, NEW w \in Workers, WorkerStep(w)
    PROVE  \A v \in Workers : Knows(v)'
<1>p. w \in Procs
  BY DEF Procs
<1>t. Typed /\ TypeOK /\ Knows(w)
  BY DEF Holding, Typed
<1>o. OnlyMoves(w)
  BY <1>t, WorkerMovesAlone
<1>s. \A v \in Workers : pc[v] \in {"refresh", "granted", "refused"}
                             => tok[v] \in Tokens /\ pc[v] \in Critical
  BY <1>t DEF Typed, PlacesOK, Procs, Critical
<1>r. \A t \in Tokens : SameCredentials(rows[t], rows[t])
  BY DEF SameCredentials
\* The others, when all rows keep their credentials.
<1>k. ASSUME \A u \in Tokens : SameCredentials(rows[u], rows'[u]),
             overtaken' = overtaken \/ overtaken' = overtaken \ {w}
      PROVE  \A v \in Workers \ {w} : Knows(v)'
  BY <1>k, <1>o, <1>p, <1>s, OthersStillKnow
\* The worker itself, when it is not refreshing after the step.
<1>q. ASSUME pc'[w] \notin {"refresh", "granted", "refused"} PROVE Knows(w)'
  BY <1>q DEF Knows
<1>1. CASE \/ \E t \in Tokens : SelectToken(w, t)
           \/ Acquire(w) \/ UpstreamRejects(w)
           \/ GetTokenFails(w) \/ StoreFails(w) \/ UpstreamAnswers(w)
  <2>1. UNCHANGED rows /\ (overtaken' = overtaken \/ overtaken' = overtaken \ {w})
    BY <1>1 DEF SelectToken, Acquire, UpstreamRejects, GetTokenFails,
                StoreFails, UpstreamAnswers, Finish, historyVars
  <2>2. pc'[w] \notin {"refresh", "granted", "refused"}
    BY <1>1, <1>p, <1>t
    DEF TypeOK, SelectToken, Acquire, UpstreamRejects, GetTokenFails,
        StoreFails, UpstreamAnswers, Finish, Reset
  <2> QED
    BY <2>1, <2>2, <1>k, <1>q, <1>r
<1>2. CASE GetToken(w)
  <2>1. UNCHANGED <<rows, tok, rejected>>
    BY <1>2 DEF GetToken
  <2>2. overtaken' = overtaken \/ overtaken' = overtaken \ {w}
    BY <1>2 DEF GetToken, Return
  <2>3. Knows(w)'
    <3>1. CASE pc'[w] = "have"
      BY <3>1, <1>q
    <3>2. CASE pc'[w] = "refresh"
      <4>1. /\ presented'[w] = rows[tok[w]].refresh
            /\ ~Reusable(rows[tok[w]], rejected[w])
        BY <1>2, <3>2, <1>p, <1>t DEF GetToken, Return, TypeOK
      <4> QED
        BY <4>1, <2>1 DEF Knows, Reusable, NeedsRefresh
    <3> QED
      BY <3>1, <3>2, <1>2, <1>p, <1>t DEF GetToken, Return, TypeOK
  <2> QED
    BY <2>1, <2>2, <2>3, <1>k, <1>r
<1>3. CASE OAuthAnswers(w) \/ ReplyLost(w)
  <2>1. UNCHANGED <<rows, tok, presented, overtaken>>
    BY <1>3 DEF OAuthAnswers, OAuthRotates, OAuthRenews, Granted,
                OAuthRefuses, ReplyLost, historyVars
  <2>2. pc[w] \in {"refresh", "granted"} /\ pc'[w] \in {"granted", "refused"}
    BY <1>3, <1>p, <1>t
    DEF OAuthAnswers, OAuthRotates, OAuthRenews, Granted, OAuthRefuses,
        ReplyLost, TypeOK
  <2>3. Knows(w)'
    BY <2>1, <2>2, <1>t DEF Knows
  <2> QED
    BY <2>1, <2>3, <1>k, <1>r
<1>4. CASE RecordFailure(w) \/ ReportAuthFailure(w)
  <2>1. tok[w] \in Tokens /\ rows[tok[w]] \in RowType
    BY <1>4, <1>p, <1>t DEF RecordFailure, ReportAuthFailure, Typed, PlacesOK,
                            TypeOK
  <2>2. \/ rows' = rows
        \/ rows' = [rows EXCEPT ![tok[w]] =
                      FailureRecorded(rows[tok[w]], Threshold)]
    BY <1>4 DEF RecordFailure, ReportAuthFailure
  <2>3. \A u \in Tokens : SameCredentials(rows[u], rows'[u])
    BY <2>1, <2>2, <1>t, <1>r, OneRowWritten, RowOperatorsKeepCredentials
  <2>4. pc'[w] = "idle" /\ overtaken' = overtaken \ {w}
    BY <1>4, <1>p, <1>t DEF RecordFailure, ReportAuthFailure, Finish, Reset,
                            TypeOK
  <2> QED
    BY <2>3, <2>4, <1>k, <1>q
<1>5. CASE StoreCredentials(w)
  <2>1. pc[w] \in Critical /\ pc'[w] = "have" /\ overtaken' = overtaken \ {w}
    BY <1>5, <1>p, <1>t DEF StoreCredentials, Return, Critical, TypeOK
  <2>2. \A u \in Tokens \ {tok[w]} : rows'[u] = rows[u]
    BY <1>5, <1>t DEF StoreCredentials, TypeOK
  <2>3. ASSUME NEW v \in Workers \ {w} PROVE Knows(v)'
    <3>1. pc[v] \in {"refresh", "granted", "refused"}
             => SameCredentials(rows[tok[v]], rows'[tok[v]])
      BY <2>1, <2>2, <1>s, <1>r, HolderIsAlone
    <3> QED
      BY <3>1, <2>1, <1>o, <1>p, OthersStillKnow
  <2> QED
    BY <2>1, <2>3, <1>q
<1> QED
  BY <1>1, <1>2, <1>3, <1>4, <1>5 DEF WorkerStep, Write

\* Steps of a donor: a donation overtakes the workers that refresh its row.
LEMMA DonorKeepsKnowledge ==
    ASSUME Holding, NEW d \in Donors, DonorStep(d)
    PROVE  \A v \in Workers : Knows(v)'
<1> SUFFICES ASSUME NEW v \in Workers PROVE Knows(v)'
  OBVIOUS
<1>p. d \in Procs /\ v # d
  BY ProcsAssumption DEF Procs
<1>t. Typed /\ TypeOK
  BY DEF Holding, Typed
<1>o. OnlyMoves(d)
  BY <1>t, DonorMovesAlone
<1>r. SameCredentials(rows[tok[v]], rows[tok[v]])
  BY DEF SameCredentials
<1>1. CASE DonateStore(d)
  <2>1. v \notin overtaken' => v \notin overtaken
    BY <1>1 DEF DonateStore
  <2>2. v \notin overtaken' /\ pc[v] \in {"refresh", "granted", "refused"}
           => tok[v] # tok[d]
    BY <1>1 DEF DonateStore
  <2>3. tok[v] # tok[d] /\ tok[v] \in Tokens => rows'[tok[v]] = rows[tok[v]]
    BY <1>1, <1>t DEF DonateStore, TypeOK
  <2>4. pc[v] \in {"refresh", "granted", "refused"} => tok[v] \in Tokens
    BY <1>t DEF Typed, PlacesOK, Procs
  <2> QED
    BY <2>1, <2>2, <2>3, <2>4, <1>p, <1>o, <1>r, OthersStillKnow
<1>2. CASE ~DonateStore(d)
  <2>1. UNCHANGED rows /\ (overtaken' = overtaken \/ overtaken' = overtaken \ {d})
    BY <1>2 DEF DonorStep, DonateNew, DonateAgain, DonateSubmit, OAuthAnswers,
                OAuthRotates, OAuthRenews, Granted, OAuthRefuses, ReplyLost,
                DonateFails, Finish, historyVars
  <2> QED
    BY <2>1, <1>p, <1>o, <1>r, OthersStillKnow
<1> QED
  BY <1>1, <1>2

\* Every step keeps Holding.
LEMMA NextKeepsHolding == Holding /\ [Next]_vars => Holding'
<1> SUFFICES ASSUME Holding, [Next]_vars PROVE Holding'
  OBVIOUS
<1>t. Typed /\ TypeOK
  BY DEF Holding, Typed
<1>1. Typed' /\ MutexHolder'
  BY NextTyped, NextKeepsMutex DEF Holding
<1>2. \A v \in Workers : Knows(v)'
  <2>1. CASE \E w \in Workers : WorkerStep(w)
    BY <2>1, WorkerKeepsKnowledge
  <2>2. CASE \E d \in Donors : DonorStep(d)
    BY <2>2, DonorKeepsKnowledge
  <2>3. CASE \E t \in Tokens : DisableToken(t) \/ Expire(t)
    <3>1. PICK t \in Tokens : DisableToken(t) \/ Expire(t)
      BY <2>3
    <3>2. UNCHANGED <<pc, tok, rejected, presented, overtaken>>
      BY <3>1 DEF DisableToken, Expire, historyVars
    <3>3. \/ rows' = [rows EXCEPT ![t] = Disabled(rows[t])]
          \/ rows' = [rows EXCEPT ![t] = [rows[t] EXCEPT !.fresh = FALSE]]
      BY <3>1 DEF DisableToken, Expire
    <3>4. \A u \in Tokens : SameCredentials(rows[u], rows'[u])
      <4>1. rows[t] \in RowType
        BY <1>t DEF TypeOK
      <4> QED
        BY <3>3, <4>1, <1>t, OneRowWritten, RowOperatorsKeepCredentials
    <3>5. \A u \in Tokens : rows[u].fresh \in BOOLEAN
      BY <1>t DEF TypeOK, RowType
    <3>6. \A v \in Workers : pc[v] \in {"refresh", "granted", "refused"}
                                 => tok[v] \in Tokens
      BY <1>t DEF Typed, PlacesOK, Procs
    <3> QED
      BY <3>2, <3>4, <3>5, <3>6
      DEF Holding, Knows, SameCredentials, NeedsRefresh
  <2>4. CASE Crash
    BY <2>4 DEF Crash, Knows, Procs
  <2>5. CASE UNCHANGED vars
    BY <2>5 DEF vars, historyVars, Holding, Knows
  <2> QED
    BY <2>1, <2>2, <2>3, <2>4, <2>5 DEF Next
<1> QED
  BY <1>1, <1>2 DEF Holding

\* Holding is an invariant.
LEMMA AlwaysHolding == Spec => []Holding
<1>1. Init => Holding
  BY InitTyped, ProcsAssumption
  DEF Init, Holding, MutexHolder, Knows, Critical, Procs
<1> QED
  BY <1>1, NextKeepsHolding, PTL DEF Spec

\* No two workers spend one refresh token: the row keeps the one that the
\* holder of the mutex took to the OAuth server.
THEOREM RefreshSafe == Spec => []RefreshIsCurrent
<1>1. Holding => RefreshIsCurrent
  BY DEF Holding, Knows, RefreshIsCurrent
<1> QED
  BY <1>1, AlwaysHolding, PTL

\* No worker refreshes what another one just refreshed.
THEOREM RefreshNeeded == Spec => []NoRedundantRefresh
<1>1. Holding => NoRedundantRefresh
  BY DEF Holding, Knows, NoRedundantRefresh
<1> QED
  BY <1>1, AlwaysHolding, PTL

-----------------------------------------------------------------------------
(***************************************************************************)
(* The health columns: each statement keeps them in step, so the order of  *)
(* the statements does not matter.                                         *)
(***************************************************************************)
InStep(row) == row.healthy <=> row.failures < Threshold

\* Every statement on a row keeps healthy and failures in step.
LEMMA RowOperatorsInStep ==
    ASSUME NEW row \in RowType, NEW r \in ReplyType, InStep(row)
    PROVE  /\ InStep(FailureRecorded(row, Threshold))
           /\ InStep(HealthRestored(WithReply(row, r)))
           /\ InStep(Donated(WithReply(row, r)))
           /\ InStep(Disabled(row))
           /\ InStep([row EXCEPT !.fresh = FALSE])
<1>0. Threshold \in Nat /\ Threshold >= 1 /\ row.failures \in Nat
  BY ThresholdAssumption DEF RowType
<1>1. InStep(FailureRecorded(row, Threshold))
  <2>1. /\ FailureRecorded(row, Threshold).failures = row.failures + 1
        /\ FailureRecorded(row, Threshold).healthy
              = (row.healthy /\ row.failures + 1 < Threshold)
    BY DEF FailureRecorded, RowType
  <2>2. row.failures + 1 < Threshold => row.failures < Threshold
    BY <1>0
  <2> QED
    BY <2>1, <2>2, Zenon DEF InStep
<1>2. /\ HealthRestored(WithReply(row, r)).failures = 0
      /\ HealthRestored(WithReply(row, r)).healthy = TRUE
  BY DEF HealthRestored, WithReply, RowType
<1>3. /\ Donated(WithReply(row, r)).failures = 0
      /\ Donated(WithReply(row, r)).healthy = TRUE
  BY DEF Donated, HealthRestored, WithReply, RowType
<1>4. InStep(Disabled(row)) /\ InStep([row EXCEPT !.fresh = FALSE])
  BY DEF Disabled, RowType, InStep
<1> QED
  BY <1>0, <1>1, <1>2, <1>3, <1>4 DEF InStep

\* What a step may make of the table: one row through one statement.
LEMMA StatementsOnly ==
    ASSUME Typed, [Next]_vars
    PROVE  \/ UNCHANGED rows
           \/ \E t \in Tokens, r \in ReplyType :
                 \E new \in {FailureRecorded(rows[t], Threshold),
                             HealthRestored(WithReply(rows[t], r)),
                             Donated(WithReply(rows[t], r)),
                             Disabled(rows[t]),
                             [rows[t] EXCEPT !.fresh = FALSE]} :
                    rows' = [rows EXCEPT ![t] = new]
<1>0. /\ \A p \in Procs : reply[p] \in ReplyType
      /\ \A p \in Procs : pc[p] # "idle" => tok[p] \in Tokens
      /\ NoReply \in ReplyType
  BY DEF Typed, TypeOK, PlacesOK, NoReply, NoCredential, Credentials, ReplyType
<1>1. ASSUME NEW w \in Workers, RecordFailure(w) \/ ReportAuthFailure(w)
      PROVE  \/ UNCHANGED rows
             \/ /\ tok[w] \in Tokens
                /\ rows' = [rows EXCEPT ![tok[w]] =
                              FailureRecorded(rows[tok[w]], Threshold)]
  BY <1>0, <1>1 DEF RecordFailure, ReportAuthFailure, Procs
<1>2. ASSUME NEW w \in Workers, StoreCredentials(w)
      PROVE  /\ tok[w] \in Tokens /\ reply[w] \in ReplyType
             /\ rows' = [rows EXCEPT ![tok[w]] =
                           HealthRestored(WithReply(rows[tok[w]], reply[w]))]
  BY <1>0, <1>2 DEF StoreCredentials, Procs
<1>3. ASSUME NEW d \in Donors, DonateStore(d)
      PROVE  /\ tok[d] \in Tokens /\ reply[d] \in ReplyType
             /\ rows' = [rows EXCEPT ![tok[d]] =
                           Donated(WithReply(rows[tok[d]], reply[d]))]
  BY <1>0, <1>3 DEF DonateStore, Procs
<1>4. ASSUME NEW t \in Tokens, DisableToken(t) \/ Expire(t)
      PROVE  \/ rows' = [rows EXCEPT ![t] = Disabled(rows[t])]
             \/ rows' = [rows EXCEPT ![t] = [rows[t] EXCEPT !.fresh = FALSE]]
  BY <1>4 DEF DisableToken, Expire
<1>5. ASSUME NEW w \in Workers, WorkerStep(w), ~RecordFailure(w),
             ~ReportAuthFailure(w), ~StoreCredentials(w)
      PROVE  UNCHANGED rows
  BY <1>5 DEF WorkerStep, SelectToken, Acquire, GetToken, GetTokenFails,
              OAuthAnswers, OAuthRotates, OAuthRenews, Granted, OAuthRefuses,
              ReplyLost, Write, StoreFails, UpstreamAnswers, UpstreamRejects
<1>6. ASSUME NEW d \in Donors, DonorStep(d), ~DonateStore(d)
      PROVE  UNCHANGED rows
  BY <1>6 DEF DonorStep, DonateNew, DonateAgain, DonateSubmit, OAuthAnswers,
              OAuthRotates, OAuthRenews, Granted, OAuthRefuses, ReplyLost,
              DonateFails
<1>7. Crash \/ UNCHANGED vars => UNCHANGED rows
  BY DEF Crash, vars
<1> QED
  BY <1>0, <1>1, <1>2, <1>3, <1>4, <1>5, <1>6, <1>7 DEF Next

\* healthy and consecutive_failures agree in every state, whichever
\* statements of workers, donors and administrators interleave.
THEOREM HealthSafe == Spec => []HealthFollowsFailures
<1>1. Init => HealthFollowsFailures
  BY ThresholdAssumption DEF Init, HealthFollowsFailures, AbsentRow
<1>2. Typed /\ HealthFollowsFailures /\ [Next]_vars => HealthFollowsFailures'
  <2> SUFFICES ASSUME Typed, HealthFollowsFailures, [Next]_vars
               PROVE  HealthFollowsFailures'
    OBVIOUS
  <2>1. CASE UNCHANGED rows
    BY <2>1 DEF HealthFollowsFailures
  <2>2. CASE ~UNCHANGED rows
    <3>1. PICK t \in Tokens, r \in ReplyType :
            \E new \in {FailureRecorded(rows[t], Threshold),
                        HealthRestored(WithReply(rows[t], r)),
                        Donated(WithReply(rows[t], r)),
                        Disabled(rows[t]),
                        [rows[t] EXCEPT !.fresh = FALSE]} :
               rows' = [rows EXCEPT ![t] = new]
      BY <2>2, StatementsOnly
    <3>2. rows \in [Tokens -> RowType] /\ rows[t] \in RowType /\ InStep(rows[t])
      BY DEF Typed, TypeOK, HealthFollowsFailures, InStep
    <3>3. InStep(rows'[t]) /\ \A u \in Tokens \ {t} : rows'[u] = rows[u]
      BY <3>1, <3>2, RowOperatorsInStep
    <3> QED
      BY <3>3 DEF HealthFollowsFailures, InStep
  <2> QED
    BY <2>1, <2>2
<1> QED
  BY <1>1, <1>2, InitTyped, NextTyped, PTL DEF Spec

-----------------------------------------------------------------------------
(* The chain of credentials of each row: a refresh token belongs to one    *)
(* row, a row that is not contested keeps one that the OAuth server        *)
(* accepts, and a retry uses an access token that is newer than the        *)
(* rejected one.                                                           *)

\* The refresh token c is in the row t, or under way to or from it.
Has(t, c) ==
    /\ c # NoCredential
    /\ \/ rows[t].refresh = c
       \/ donated[t] = c
       \/ \E p \in Procs : tok[p] = t /\ (presented[p] = c \/ reply[p].refresh = c)

\* Only a request with a grant has a reply, and an idle one has no locals.
Clean ==
    \A p \in Procs : /\ pc[p] # "granted" => reply[p] = NoReply
                     /\ pc[p] = "idle" => /\ presented[p] = NoCredential
                                          /\ rejected[p] = NoCredential

\* Refresh tokens were issued, and belong to one row each.
Issued == /\ \A c \in valid : c # NoCredential /\ c <= issued
          /\ \A t \in Tokens, c \in Credentials : Has(t, c) => c <= issued
Apart == \A t, u \in Tokens, c \in Credentials : Has(t, c) /\ Has(u, c) => t = u

\* What a request with a grant was given: a refresh token that the server
\* accepts, unless the row is contested, and that nobody else has, unless it
\* is the one the request presented.
GrantLive(p) ==
    pc[p] = "granted" /\ tok[p] \notin contested => reply[p].refresh \in valid
GrantUnshared(p) ==
    pc[p] = "granted" /\ reply[p].refresh # presented[p] =>
        /\ reply[p].refresh # NoCredential
        /\ \A t \in Tokens : /\ rows[t].refresh # reply[p].refresh
                             /\ donated[t] # reply[p].refresh
        /\ \A q \in Procs : presented[q] # reply[p].refresh
        /\ \A q \in Procs \ {p} : reply[q].refresh # reply[p].refresh

Chained ==
    /\ Typed /\ MutexHolder
    /\ Clean /\ Issued /\ Apart
    /\ \A p \in Procs : GrantLive(p) /\ GrantUnshared(p)
    /\ StoredCredentialLive

\* Access tokens are numbered as they are issued, and one that was granted
\* after a rejection is newer than the rejected one.
Newer ==
    /\ \A t \in Tokens : rows[t].access <= issued
    /\ \A p \in Procs : /\ held[p] <= issued
                        /\ rejected[p] <= issued
                        /\ reply[p].access <= issued
    /\ \A p \in Procs : pc[p] = "granted" => rejected[p] < reply[p].access

-----------------------------------------------------------------------------
(***************************************************************************)
(* The shapes of the steps, as far as refresh tokens go.                   *)
(***************************************************************************)

\* A step that is p's leaves all locals of the others alone.
Alone(p) ==
    /\ OnlyMoves(p)
    /\ \A q \in Procs \ {p} : reply'[q] = reply[q] /\ held'[q] = held[q]

SameRefresh ==
    \A t \in Tokens : /\ rows'[t].refresh = rows[t].refresh
                      /\ Present(rows'[t]) <=> Present(rows[t])

\* What p presents after a step: nothing, the same, or what its row has.
Presents(p) ==
    \/ presented'[p] = NoCredential
    \/ tok'[p] = tok[p] /\ presented'[p] = presented[p]
    \/ /\ tok'[p] = tok[p] /\ tok[p] \in Tokens
       /\ presented'[p] = rows[tok[p]].refresh

LeavesClean(p) ==
    /\ Alone(p) /\ pc'[p] # "granted" /\ reply'[p] = NoReply
    /\ pc'[p] = "idle" => /\ presented'[p] = NoCredential
                          /\ rejected'[p] = NoCredential

\* A step without a grant.
Quiet(p) ==
    /\ LeavesClean(p) /\ Presents(p) /\ SameRefresh
    /\ pc[p] # "granted"
    /\ UNCHANGED <<valid, issued, donated, contested>>

\* A donor comes with a refresh token for the row t.
Submits(p, t, c) ==
    /\ LeavesClean(p) /\ pc[p] # "granted" /\ pc'[p] = "refresh"
    /\ tok'[p] = t /\ presented'[p] = c /\ c # NoCredential
    /\ donated' = [donated EXCEPT ![t] = c]
    /\ UNCHANGED <<rows, contested>>
    /\ \/ c = donated[t] /\ UNCHANGED <<valid, issued>>
       \/ c = issued' /\ issued' = issued + 1 /\ valid' = valid \cup {c}

\* A grant is dropped.
Loses(p) ==
    /\ LeavesClean(p) /\ Presents(p)
    /\ pc[p] = "granted"
    /\ contested' = contested \cup DroppedBy(p)
    /\ UNCHANGED <<rows, valid, issued, donated>>

\* A grant is written to its row.
Stores(p) ==
    /\ LeavesClean(p) /\ presented'[p] = NoCredential
    /\ pc[p] = "granted"
    /\ \A t \in Tokens \ {tok[p]} : rows'[t] = rows[t]
    /\ rows'[tok[p]].refresh = reply[p].refresh
    /\ UNCHANGED <<valid, issued, donated>>
    /\ \/ UNCHANGED contested
       \/ /\ contested' = contested \ {tok[p]}
          /\ reply[p].refresh \in valid /\ Refreshing(tok[p]) = {p}

\* A step of the table alone.
TableOnly ==
    /\ SameRefresh
    /\ UNCHANGED <<locks, pc, tok, rejected, held, presented, reply, valid,
                   issued, donated, contested>>

LEMMA ProcFacts ==
    ASSUME Typed, NEW p \in Procs
    PROVE  /\ pc[p] # "idle" => tok[p] \in Tokens
           /\ reply[p] \in ReplyType /\ presented[p] \in Nat
           /\ held[p] \in Nat /\ rejected[p] \in Nat /\ issued \in Nat
           /\ reply[p].access \in Nat /\ reply[p].refresh \in Nat
  BY DEF Typed, TypeOK, PlacesOK, ReplyType, Credentials

\* A request that is over is clean.
LEMMA ResetClean ==
    ASSUME Typed, NEW p \in Procs, Reset(p)
    PROVE  LeavesClean(p) /\ presented'[p] = NoCredential /\ pc'[p] = "idle"
  BY DEF Typed, TypeOK, Reset, LeavesClean, Alone, OnlyMoves

\* A worker that returns with a token is clean.
LEMMA ReturnClean ==
    ASSUME Typed, NEW p \in Procs, NEW access, Return(p, access),
           UNCHANGED <<tok, rejected>>
    PROVE  LeavesClean(p) /\ presented'[p] = NoCredential
  BY DEF Typed, TypeOK, Return, LeavesClean, Alone, OnlyMoves

\* The statements of TokenRows that keep a row's refresh token.
LEMMA RowsKeepRefresh ==
    ASSUME Typed, NEW t \in Tokens, NEW new, rows' = [rows EXCEPT ![t] = new],
           new \in {FailureRecorded(rows[t], Threshold), Disabled(rows[t]),
                    [rows[t] EXCEPT !.fresh = FALSE]}
    PROVE  SameRefresh
<1>1. rows[t] \in RowType
  BY DEF Typed, TypeOK
<1>2. new.refresh = rows[t].refresh /\ new.access = rows[t].access
  BY <1>1, RowOperatorsKeepCredentials DEF SameCredentials
<1>3. \A u \in Tokens : rows'[u] = IF u = t THEN new ELSE rows[u]
  BY DEF Typed, TypeOK
<1> QED
  BY <1>2, <1>3 DEF SameRefresh, Present

LEMMA SameRowsSameRefresh == UNCHANGED rows => SameRefresh
  BY DEF SameRefresh

LEMMA WorkerShapes ==
    ASSUME Typed, Clean, NEW w \in Workers, WorkerStep(w)
    PROVE  \/ Quiet(w) \/ OAuthRotates(w) \/ OAuthRenews(w) \/ Loses(w)
           \/ Stores(w) /\ StoreCredentials(w)
<1>p. w \in Procs
  BY DEF Procs
<1>n. NoReply.access = NoCredential /\ NoReply.refresh = NoCredential
  BY DEF NoReply
<1>c. /\ pc[w] # "granted" => reply[w] = NoReply
      /\ pc[w] = "idle" => /\ presented[w] = NoCredential
                           /\ rejected[w] = NoCredential
  BY <1>p DEF Clean
<1>1. CASE \E t \in Tokens : SelectToken(w, t)
  <2>1. LeavesClean(w) /\ presented'[w] = NoCredential
    BY <1>1, <1>p, <1>c
    DEF SelectToken, LeavesClean, Alone, OnlyMoves, Typed, TypeOK
  <2> QED
    BY <1>1, <2>1, SameRowsSameRefresh
    DEF SelectToken, Quiet, Presents, serverVars, historyVars
<1>2. CASE Acquire(w) \/ OAuthRefuses(w) \/ UpstreamRejects(w)
  <2>1. LeavesClean(w)
    BY <1>2, <1>p, <1>c
    DEF Acquire, OAuthRefuses, UpstreamRejects, LeavesClean, Alone, OnlyMoves,
        Typed, TypeOK
  <2> QED
    BY <1>2, <2>1, SameRowsSameRefresh
    DEF Acquire, OAuthRefuses, UpstreamRejects, Quiet, Presents, serverVars,
        historyVars
<1>3. CASE GetToken(w)
  <2>1. CASE Return(w, rows[tok[w]].access)
    BY <1>3, <2>1, <1>p, ReturnClean, SameRowsSameRefresh
    DEF GetToken, Quiet, Presents, serverVars
  <2>2. CASE /\ pc' = [pc EXCEPT ![w] = "refresh"]
             /\ presented' = [presented EXCEPT ![w] = rows[tok[w]].refresh]
             /\ UNCHANGED <<locks, held, reply, overtaken>>
    <3>1. LeavesClean(w) /\ presented'[w] = rows[tok[w]].refresh
      BY <1>3, <2>2, <1>p, <1>c
      DEF GetToken, LeavesClean, Alone, OnlyMoves, Typed, TypeOK
    <3>2. pc[w] = "locked" /\ tok[w] \in Tokens
      BY <1>3, <1>p, ProcFacts DEF GetToken
    <3> QED
      BY <1>3, <3>1, <3>2, SameRowsSameRefresh
      DEF GetToken, Quiet, Presents, serverVars
  <2> QED
    BY <1>3, <2>1, <2>2 DEF GetToken
<1>4. CASE GetTokenFails(w) \/ UpstreamAnswers(w)
  BY <1>4, <1>p, ResetClean, SameRowsSameRefresh
  DEF GetTokenFails, UpstreamAnswers, Finish, Quiet, Presents, serverVars
<1>5. CASE ReplyLost(w)
  <2>1. LeavesClean(w)
    BY <1>5, <1>p DEF ReplyLost, LeavesClean, Alone, OnlyMoves, Typed, TypeOK
  <2> QED
    BY <1>5, <2>1 DEF ReplyLost, Loses, Presents, serverVars
<1>6. CASE RecordFailure(w) \/ ReportAuthFailure(w)
  <2>1. tok[w] \in Tokens /\ pc[w] # "granted"
    BY <1>6, <1>p, ProcFacts DEF RecordFailure, ReportAuthFailure
  <2>2. \/ rows' = rows
        \/ rows' = [rows EXCEPT ![tok[w]] =
                      FailureRecorded(rows[tok[w]], Threshold)]
    BY <1>6 DEF RecordFailure, ReportAuthFailure
  <2>3. SameRefresh
    BY <2>1, <2>2, RowsKeepRefresh, SameRowsSameRefresh
  <2> QED
    BY <1>6, <2>1, <2>3, <1>p, ResetClean
    DEF RecordFailure, ReportAuthFailure, Finish, Quiet, Presents, serverVars
<1>7. CASE StoreCredentials(w)
  <2>1. tok[w] \in Tokens /\ pc[w] = "granted"
    BY <1>7, <1>p, ProcFacts DEF StoreCredentials
  <2>2. rows[tok[w]] \in RowType /\ rows \in [Tokens -> RowType]
    BY <2>1 DEF Typed, TypeOK
  <2>3. HealthRestored(WithReply(rows[tok[w]], reply[w])).refresh = reply[w].refresh
    BY <2>2 DEF HealthRestored, WithReply, RowType
  <2>4. rows'[tok[w]].refresh = reply[w].refresh
        /\ \A t \in Tokens \ {tok[w]} : rows'[t] = rows[t]
    BY <1>7, <2>1, <2>2, <2>3 DEF StoreCredentials
  <2>5. LeavesClean(w) /\ presented'[w] = NoCredential
    BY <1>7, <1>p, ReturnClean DEF StoreCredentials
  <2> QED
    BY <1>7, <2>1, <2>4, <2>5 DEF StoreCredentials, Stores, serverVars
<1>8. CASE StoreFails(w)
  BY <1>8, <1>p, ResetClean DEF StoreFails, Finish, Loses, Presents, serverVars
<1> QED
  BY <1>1, <1>2, <1>3, <1>4, <1>5, <1>6, <1>7, <1>8
  DEF WorkerStep, OAuthAnswers, Write

LEMMA DonorStores ==
    ASSUME Typed, NEW d \in Donors, DonateStore(d)
    PROVE  Stores(d)
<1>p. d \in Procs
  BY DEF Procs
<1>1. tok[d] \in Tokens /\ pc[d] = "granted"
  BY <1>p, ProcFacts DEF DonateStore
<1>2. rows[tok[d]] \in RowType /\ rows \in [Tokens -> RowType]
  BY <1>1 DEF Typed, TypeOK
<1>3. Donated(WithReply(rows[tok[d]], reply[d])).refresh = reply[d].refresh
  BY <1>2 DEF Donated, HealthRestored, WithReply, RowType
<1>4. rows'[tok[d]].refresh = reply[d].refresh
      /\ \A t \in Tokens \ {tok[d]} : rows'[t] = rows[t]
  BY <1>1, <1>2, <1>3 DEF DonateStore
<1>5. LeavesClean(d) /\ presented'[d] = NoCredential
  BY <1>p, ResetClean DEF DonateStore
<1> QED
  BY <1>1, <1>4, <1>5 DEF DonateStore, Stores, serverVars

LEMMA DonorShapes ==
    ASSUME Typed, Clean, NEW d \in Donors, DonorStep(d)
    PROVE  \/ Quiet(d) \/ OAuthRotates(d) \/ OAuthRenews(d) \/ Loses(d)
           \/ Stores(d) /\ DonateStore(d)
           \/ \E t \in Tokens, c \in Credentials : Submits(d, t, c)
<1>p. d \in Procs
  BY DEF Procs
<1>c. /\ pc[d] # "granted" => reply[d] = NoReply
      /\ pc[d] = "idle" => /\ presented[d] = NoCredential
                           /\ rejected[d] = NoCredential
  BY <1>p DEF Clean
<1>1. ASSUME NEW t \in Tokens, DonateNew(d, t) \/ DonateAgain(d, t)
      PROVE  \E c \in Credentials : Submits(d, t, c)
  <2>1. PICK c \in Credentials :
            /\ DonateSubmit(d, t, c) /\ c # NoCredential
            /\ \/ c = donated[t] /\ UNCHANGED <<valid, issued>>
               \/ c = issued' /\ issued' = issued + 1 /\ valid' = valid \cup {c}
    BY <1>1, <1>p, ProcFacts
    DEF DonateNew, DonateAgain, Credentials, NoCredential, Typed, TypeOK, serverVars
  <2>2. LeavesClean(d) /\ pc[d] # "granted" /\ pc'[d] = "refresh"
        /\ tok'[d] = t /\ presented'[d] = c
    BY <2>1, <1>p, <1>c
    DEF DonateSubmit, LeavesClean, Alone, OnlyMoves, Typed, TypeOK
  <2> QED
    BY <2>1, <2>2 DEF DonateSubmit, Submits, historyVars
<1>2. CASE OAuthRefuses(d)
  <2>1. LeavesClean(d) /\ pc[d] # "granted"
    BY <1>2, <1>p, <1>c DEF OAuthRefuses, LeavesClean, Alone, OnlyMoves,
                            Typed, TypeOK
  <2> QED
    BY <1>2, <2>1, SameRowsSameRefresh
    DEF OAuthRefuses, Quiet, Presents, serverVars, historyVars
<1>3. CASE ReplyLost(d)
  <2>1. LeavesClean(d)
    BY <1>3, <1>p DEF ReplyLost, LeavesClean, Alone, OnlyMoves, Typed, TypeOK
  <2> QED
    BY <1>3, <2>1 DEF ReplyLost, Loses, Presents, serverVars
<1>4. CASE DonateStore(d)
  BY <1>4, DonorStores
<1>5. CASE DonateFails(d)
  <2>1. LeavesClean(d) /\ presented'[d] = NoCredential
    BY <1>5, <1>p, ResetClean DEF DonateFails, Finish
  <2>2. CASE pc[d] = "granted"
    BY <1>5, <2>1, <2>2 DEF DonateFails, Loses, Presents, serverVars
  <2>3. CASE pc[d] # "granted"
    <3>1. DroppedBy(d) = {}
      BY <2>3 DEF DroppedBy
    <3> QED
      BY <1>5, <2>1, <2>3, <3>1, SameRowsSameRefresh
      DEF DonateFails, Quiet, Presents, serverVars
  <2> QED
    BY <2>2, <2>3
<1> QED
  BY <1>1, <1>2, <1>3, <1>4, <1>5 DEF DonorStep, OAuthAnswers

LEMMA Shapes ==
    ASSUME Typed, Clean, [Next]_vars
    PROVE  \/ \E p \in Procs : \/ Quiet(p) \/ OAuthRotates(p) \/ OAuthRenews(p)
                               \/ Loses(p) \/ Stores(p)
           \/ \E d \in Donors, t \in Tokens, c \in Credentials : Submits(d, t, c)
           \/ Crash
           \/ TableOnly
<1>1. ASSUME NEW t \in Tokens, DisableToken(t) \/ Expire(t) PROVE TableOnly
  <2>1. \/ rows' = [rows EXCEPT ![t] = Disabled(rows[t])]
        \/ rows' = [rows EXCEPT ![t] = [rows[t] EXCEPT !.fresh = FALSE]]
    BY <1>1 DEF DisableToken, Expire
  <2>2. SameRefresh
    BY <2>1, RowsKeepRefresh
  <2> QED
    BY <1>1, <2>2 DEF DisableToken, Expire, TableOnly, serverVars, historyVars
<1>2. CASE UNCHANGED vars
  BY <1>2, SameRowsSameRefresh DEF vars, TableOnly, serverVars, historyVars
<1>3. Workers \subseteq Procs /\ Donors \subseteq Procs
  BY DEF Procs
<1>4. ASSUME NEW w \in Workers, WorkerStep(w)
      PROVE  \E p \in Procs : \/ Quiet(p) \/ OAuthRotates(p) \/ OAuthRenews(p)
                              \/ Loses(p) \/ Stores(p)
  BY <1>3, <1>4, WorkerShapes
<1>5. ASSUME NEW d \in Donors, DonorStep(d)
      PROVE  \/ \E p \in Procs : \/ Quiet(p) \/ OAuthRotates(p) \/ OAuthRenews(p)
                                 \/ Loses(p) \/ Stores(p)
             \/ \E t \in Tokens, c \in Credentials : Submits(d, t, c)
  BY <1>3, <1>5, DonorShapes
<1> QED
  BY <1>1, <1>2, <1>4, <1>5 DEF Next

-----------------------------------------------------------------------------
(***************************************************************************)
(* Refresh tokens belong to one row.                                       *)
(***************************************************************************)

\* What a row has after a step it had before, but for the one token that is
\* issued in the step.
OnlyIssuedIsNew ==
    /\ issued' \in {issued, issued + 1}
    /\ \E T : \A t \in Tokens, c \in Credentials :
          Has(t, c)' => \/ Has(t, c)
                        \/ t = T /\ c = issued' /\ issued' = issued + 1

LEMMA NoReplyHasNothing == NoReply.refresh = NoCredential
  BY DEF NoReply

\* A step that leaves p clean: others have what they had.
LEMMA OthersHave ==
    ASSUME NEW p \in Procs, LeavesClean(p), NEW t \in Tokens,
           NEW c \in Credentials, c # NoCredential,
           NEW q \in Procs, tok'[q] = t,
           presented'[q] = c \/ reply'[q].refresh = c
    PROVE  \/ tok[q] = t /\ (presented[q] = c \/ reply[q].refresh = c)
           \/ q = p /\ tok'[p] = t /\ presented'[p] = c
  BY NoReplyHasNothing DEF LeavesClean, Alone, OnlyMoves

LEMMA StepHas ==
    ASSUME Typed, Clean, [Next]_vars
    PROVE  OnlyIssuedIsNew
<1>i. issued \in Nat
  BY DEF Typed, TypeOK
<1>1. ASSUME NEW p \in Procs, Quiet(p) \/ Loses(p) PROVE OnlyIssuedIsNew
  <2>1. LeavesClean(p) /\ Presents(p) /\ SameRefresh /\ UNCHANGED <<issued, donated>>
    BY <1>1, SameRowsSameRefresh DEF Quiet, Loses
  <2>2. ASSUME NEW t \in Tokens, NEW c \in Credentials, Has(t, c)'
        PROVE  Has(t, c)
    <3>1. c # NoCredential
      BY <2>2 DEF Has
    <3>2. CASE \E q \in Procs : tok'[q] = t
                                /\ (presented'[q] = c \/ reply'[q].refresh = c)
      <4> PICK q \in Procs : tok'[q] = t
                             /\ (presented'[q] = c \/ reply'[q].refresh = c)
        BY <3>2
      <4>1. CASE tok[q] = t /\ (presented[q] = c \/ reply[q].refresh = c)
        BY <3>1, <4>1 DEF Has
      <4>2. CASE q = p /\ tok'[p] = t /\ presented'[p] = c
        BY <2>1, <3>1, <4>2 DEF Has, Presents
      <4> QED
        BY <2>1, <3>1, <4>1, <4>2, OthersHave
    <3>3. CASE rows'[t].refresh = c \/ donated'[t] = c
      BY <2>1, <3>1, <3>3 DEF SameRefresh, Has
    <3> QED
      BY <2>2, <3>2, <3>3 DEF Has
  <2> QED
    BY <2>1, <2>2 DEF OnlyIssuedIsNew
<1>2. ASSUME NEW p \in Procs, Stores(p) PROVE OnlyIssuedIsNew
  <2>1. ASSUME NEW t \in Tokens, NEW c \in Credentials, Has(t, c)'
        PROVE  Has(t, c)
    <3>1. c # NoCredential /\ LeavesClean(p)
      BY <1>2, <2>1 DEF Has, Stores
    <3>2. CASE \E q \in Procs : tok'[q] = t
                                /\ (presented'[q] = c \/ reply'[q].refresh = c)
      <4> PICK q \in Procs : tok'[q] = t
                             /\ (presented'[q] = c \/ reply'[q].refresh = c)
        BY <3>2
      <4>1. tok[q] = t /\ (presented[q] = c \/ reply[q].refresh = c)
        BY <1>2, <3>1, OthersHave DEF Stores
      <4> QED
        BY <3>1, <4>1 DEF Has
    <3>3. CASE rows'[t].refresh = c \/ donated'[t] = c
      BY <1>2, <3>1, <3>3 DEF Stores, Has
    <3> QED
      BY <2>1, <3>2, <3>3 DEF Has
  <2> QED
    BY <1>2, <2>1 DEF OnlyIssuedIsNew, Stores
<1>3. ASSUME NEW d \in Donors, NEW T \in Tokens, NEW new \in Credentials,
             Submits(d, T, new)
      PROVE  OnlyIssuedIsNew
  <2>0. d \in Procs
    BY DEF Procs
  <2>1. ASSUME NEW t \in Tokens, NEW c \in Credentials, Has(t, c)'
        PROVE  Has(t, c) \/ (t = T /\ c = new)
    <3>1. c # NoCredential /\ LeavesClean(d)
      BY <1>3, <2>1 DEF Has, Submits
    <3>2. CASE \E q \in Procs : tok'[q] = t
                                /\ (presented'[q] = c \/ reply'[q].refresh = c)
      <4> PICK q \in Procs : tok'[q] = t
                             /\ (presented'[q] = c \/ reply'[q].refresh = c)
        BY <3>2
      <4>1. \/ tok[q] = t /\ (presented[q] = c \/ reply[q].refresh = c)
            \/ q = d /\ tok'[d] = t /\ presented'[d] = c
        BY <2>0, <3>1, OthersHave
      <4> QED
        BY <1>3, <3>1, <4>1 DEF Has, Submits
    <3>3. CASE rows'[t].refresh = c \/ donated'[t] = c
      BY <1>3, <3>1, <3>3 DEF Submits, Has, Typed, TypeOK
    <3> QED
      BY <2>1, <3>2, <3>3 DEF Has
  <2>2. CASE new = donated[T] /\ UNCHANGED <<valid, issued>>
    <3>1. Has(T, new)
      BY <1>3, <2>2 DEF Has, Submits
    <3> QED
      BY <2>1, <2>2, <3>1 DEF OnlyIssuedIsNew
  <2>3. CASE new = issued' /\ issued' = issued + 1
    BY <2>1, <2>3 DEF OnlyIssuedIsNew
  <2> QED
    BY <1>3, <2>2, <2>3 DEF Submits
<1>4. ASSUME NEW p \in Procs, OAuthRotates(p) \/ OAuthRenews(p)
      PROVE  OnlyIssuedIsNew
  <2>1. PICK refresh \in {issued + 1, presented[p]} : Granted(p, refresh)
    BY <1>4 DEF OAuthRotates, OAuthRenews
  <2>2. /\ UNCHANGED <<rows, tok, presented, donated>> /\ issued' = issued + 1
        /\ \A q \in Procs : q = p \/ reply'[q] = reply[q]
        /\ reply'[p].refresh = refresh
    BY <2>1 DEF Granted, Typed, TypeOK
  <2>3. ASSUME NEW t \in Tokens, NEW c \in Credentials, Has(t, c)'
        PROVE  Has(t, c) \/ (t = tok[p] /\ c = issued')
    BY <2>2, <2>3 DEF Has
  <2> QED
    BY <2>2, <2>3 DEF OnlyIssuedIsNew
<1>5. CASE Crash
  <2>1. ASSUME NEW t \in Tokens, NEW c \in Credentials, Has(t, c)'
        PROVE  Has(t, c)
    BY <1>5, <2>1, NoReplyHasNothing DEF Crash, Has
  <2> QED
    BY <1>5, <2>1 DEF OnlyIssuedIsNew, Crash, serverVars
<1>6. CASE TableOnly
  <2>1. ASSUME NEW t \in Tokens, NEW c \in Credentials, Has(t, c)'
        PROVE  Has(t, c)
    BY <1>6, <2>1 DEF TableOnly, SameRefresh, Has
  <2> QED
    BY <1>6, <2>1 DEF OnlyIssuedIsNew, TableOnly
<1> QED
  BY <1>1, <1>2, <1>3, <1>4, <1>5, <1>6, Shapes

LEMMA StepApart ==
    ASSUME Typed, Clean, Issued, Apart, [Next]_vars
    PROVE  /\ \A t \in Tokens, c \in Credentials : Has(t, c)' => c <= issued'
           /\ Apart'
<1>1. OnlyIssuedIsNew
  BY StepHas
<1>2. PICK T : \A t \in Tokens, c \in Credentials :
          Has(t, c)' => \/ Has(t, c)
                        \/ t = T /\ c = issued' /\ issued' = issued + 1
  BY <1>1 DEF OnlyIssuedIsNew
<1>3. issued \in Nat /\ issued' \in {issued, issued + 1}
  BY <1>1 DEF OnlyIssuedIsNew, Typed, TypeOK
<1>4. \A t \in Tokens, c \in Credentials : Has(t, c) => c <= issued
  BY DEF Issued
<1>5. \A t \in Tokens, c \in Credentials : Has(t, c)' => c <= issued'
  <2> SUFFICES ASSUME NEW t \in Tokens, NEW c \in Credentials, Has(t, c)'
               PROVE  c <= issued'
    OBVIOUS
  <2>1. Has(t, c) => c <= issued
    BY <1>4
  <2>2. Has(t, c) \/ c = issued'
    BY <1>2
  <2>3. c \in Nat
    BY DEF Credentials
  <2> QED
    BY <1>3, <2>1, <2>2, <2>3
<1>6. ASSUME NEW t \in Tokens, NEW u \in Tokens, NEW c \in Credentials,
             Has(t, c)', Has(u, c)'
      PROVE  t = u
  <2>1. CASE c = issued + 1
    <3>1. ~Has(t, c) /\ ~Has(u, c)
      BY <1>3, <1>4, <2>1
    <3> QED
      BY <1>2, <1>6, <3>1
  <2>2. CASE c # issued + 1
    BY <1>2, <1>6, <2>2 DEF Apart
  <2> QED
    BY <2>1, <2>2
<1>7. Apart'
  BY <1>6 DEF Apart, Credentials
<1> QED
  BY <1>5, <1>7

\* The server's tokens are issued ones, and locals stay clean.
LEMMA StepClean ==
    ASSUME Typed, Clean, Issued, [Next]_vars
    PROVE  /\ Clean'
           /\ \A c \in valid' : c # NoCredential /\ c <= issued'
<1>i. issued \in Nat /\ valid \subseteq Nat /\ \A c \in valid : c # NoCredential /\ c <= issued
  BY DEF Typed, TypeOK, Issued, Credentials
<1>1. ASSUME NEW p \in Procs, LeavesClean(p) PROVE Clean'
  BY <1>1 DEF Clean, LeavesClean, Alone, OnlyMoves
<1>2. ASSUME NEW p \in Procs, Quiet(p) \/ Loses(p) \/ Stores(p)
      PROVE  Clean' /\ UNCHANGED <<valid, issued>>
  BY <1>1, <1>2 DEF Quiet, Loses, Stores
<1>3. ASSUME NEW d \in Donors, NEW t \in Tokens, NEW c \in Credentials,
             Submits(d, t, c)
      PROVE  Clean' /\ \A e \in valid' : e # NoCredential /\ e <= issued'
  <2>1. d \in Procs /\ LeavesClean(d)
    BY <1>3 DEF Procs, Submits
  <2> QED
    <3>1. Clean' /\ c # NoCredential
      BY <1>1, <1>3, <2>1 DEF Submits
    <3>2. \/ UNCHANGED <<valid, issued>>
          \/ c = issued' /\ issued' = issued + 1 /\ valid' = valid \cup {c}
      BY <1>3 DEF Submits
    <3> QED
      <4>1. CASE UNCHANGED <<valid, issued>>
        BY <1>i, <3>1, <4>1
      <4>2. CASE c = issued' /\ issued' = issued + 1 /\ valid' = valid \cup {c}
        <5> SUFFICES ASSUME NEW e \in valid \cup {c}
                     PROVE  e # NoCredential /\ e <= issued'
          BY <3>1, <4>2
        <5>1. CASE e = c
          BY <1>i, <3>1, <4>2, <5>1
        <5>2. CASE e \in valid
          BY <1>i, <4>2, <5>2
        <5> QED
          BY <5>1, <5>2
      <4> QED
        BY <3>2, <4>1, <4>2
<1>4. ASSUME NEW p \in Procs, OAuthRotates(p) \/ OAuthRenews(p)
      PROVE  Clean' /\ \A e \in valid' : e # NoCredential /\ e <= issued'
  <2>1. \E refresh : Granted(p, refresh)
    BY <1>4 DEF OAuthRotates, OAuthRenews
  <2>2. /\ pc' = [pc EXCEPT ![p] = "granted"] /\ UNCHANGED <<presented, rejected>>
        /\ issued' = issued + 1 /\ \A q \in Procs \ {p} : reply'[q] = reply[q]
    BY <2>1 DEF Granted, Typed, TypeOK
  <2>3. Clean'
    BY <2>2 DEF Clean, Typed, TypeOK
  <2> QED
    <3>1. valid' \subseteq valid \cup {issued + 1}
      BY <1>4 DEF OAuthRotates, OAuthRenews
    <3>2. ASSUME NEW e \in valid' PROVE e # NoCredential /\ e <= issued'
      <4>1. CASE e = issued + 1
        BY <1>i, <2>2, <4>1 DEF NoCredential
      <4>2. CASE e \in valid
        BY <1>i, <2>2, <4>2
      <4> QED
        BY <3>1, <4>1, <4>2
    <3> QED
      BY <2>3, <3>2
<1>5. CASE Crash
  BY <1>5, <1>i DEF Crash, Clean, serverVars
<1>6. CASE TableOnly
  BY <1>6, <1>i DEF TableOnly, Clean
<1> QED
  BY <1>2, <1>3, <1>4, <1>5, <1>6, <1>i, Shapes

-----------------------------------------------------------------------------
(***************************************************************************)
(* What is granted, and what is stored.                                    *)
(***************************************************************************)

\* No refresh token is out of the numbers that were issued.
LEMMA Numbers ==
    ASSUME Typed, Clean, Issued
    PROVE  /\ \A t \in Tokens : rows[t].refresh <= issued /\ donated[t] <= issued
           /\ \A p \in Procs : /\ presented[p] <= issued
                               /\ reply[p].refresh <= issued
<1>1. issued \in Nat /\ \A t \in Tokens, c \in Nat : Has(t, c) => c <= issued
  BY DEF Typed, TypeOK, Issued, Credentials
<1>2. ASSUME NEW t \in Tokens PROVE rows[t].refresh <= issued /\ donated[t] <= issued
  <2>1. rows[t].refresh \in Nat /\ donated[t] \in Nat
    BY DEF Typed, TypeOK, RowType, Credentials
  <2>2. /\ rows[t].refresh = 0 \/ Has(t, rows[t].refresh)
        /\ donated[t] = 0 \/ Has(t, donated[t])
    BY DEF Has, NoCredential
  <2> QED
    BY <1>1, <2>1, <2>2
<1>3. ASSUME NEW p \in Procs PROVE presented[p] <= issued /\ reply[p].refresh <= issued
  <2>1. presented[p] \in Nat /\ reply[p].refresh \in Nat
    BY ProcFacts
  <2>2. CASE pc[p] = "idle"
    <3>1. presented[p] = 0 /\ reply[p].refresh = 0
      BY <2>2, NoReplyHasNothing DEF Clean, NoCredential
    <3> QED
      BY <1>1, <3>1
  <2>3. CASE pc[p] # "idle"
    <3>1. tok[p] \in Tokens
      BY <2>3, ProcFacts
    <3>2. /\ presented[p] = 0 \/ Has(tok[p], presented[p])
          /\ reply[p].refresh = 0 \/ Has(tok[p], reply[p].refresh)
      BY DEF Has, NoCredential
    <3> QED
      BY <1>1, <2>1, <3>1, <3>2
  <2> QED
    BY <2>2, <2>3
<1> QED
  BY <1>2, <1>3

\* A grant that p keeps stays unshared if nobody comes to have its token.
LEMMA GrantKept ==
    ASSUME NEW p \in Procs, GrantUnshared(p),
           pc'[p] = pc[p], presented'[p] = presented[p], reply'[p] = reply[p],
           reply[p].refresh # NoCredential /\ pc[p] = "granted"
               /\ reply[p].refresh # presented[p] =>
             /\ \A t \in Tokens : /\ rows'[t].refresh # reply[p].refresh
                                  /\ donated'[t] # reply[p].refresh
             /\ \A q \in Procs : presented'[q] # reply[p].refresh
             /\ \A q \in Procs \ {p} : reply'[q].refresh # reply[p].refresh
    PROVE  GrantUnshared(p)'
  BY DEF GrantUnshared

LEMMA StepUnshared ==
    ASSUME Typed, Clean, Issued, [Next]_vars, \A p \in Procs : GrantUnshared(p),
           NEW p \in Procs
    PROVE  GrantUnshared(p)'
<1>i. issued \in Nat /\ GrantUnshared(p)
  BY DEF Typed, TypeOK
<1>r. reply[p].refresh <= issued /\ reply[p].refresh \in Nat
  BY Numbers, ProcFacts
<1>1. ASSUME NEW q \in Procs, Quiet(q) \/ Loses(q) \/ Stores(q)
      PROVE  GrantUnshared(p)'
  <2>1. LeavesClean(q) /\ pc'[q] # "granted" /\ UNCHANGED donated
    BY <1>1 DEF Quiet, Loses, Stores, LeavesClean
  <2>2. CASE p = q
    BY <2>1, <2>2 DEF GrantUnshared
  <2>3. CASE p # q
    <3>1. pc'[p] = pc[p] /\ presented'[p] = presented[p] /\ reply'[p] = reply[p]
      BY <2>1, <2>3 DEF LeavesClean, Alone, OnlyMoves
    <3> SUFFICES ASSUME reply[p].refresh # NoCredential, pc[p] = "granted",
                        reply[p].refresh # presented[p]
                 PROVE  /\ \A t \in Tokens : /\ rows'[t].refresh # reply[p].refresh
                                             /\ donated'[t] # reply[p].refresh
                        /\ \A o \in Procs : presented'[o] # reply[p].refresh
                        /\ \A o \in Procs \ {p} : reply'[o].refresh # reply[p].refresh
      BY <1>i, <3>1, GrantKept
    <3>2. /\ \A t \in Tokens : /\ rows[t].refresh # reply[p].refresh
                               /\ donated[t] # reply[p].refresh
          /\ \A o \in Procs : presented[o] # reply[p].refresh
          /\ \A o \in Procs \ {p} : reply[o].refresh # reply[p].refresh
      BY <1>i DEF GrantUnshared
    <3>3. \A t \in Tokens : rows'[t].refresh # reply[p].refresh
      BY <1>1, <2>3, <3>2 DEF Quiet, Loses, Stores, SameRefresh
    <3>4. presented'[q] # reply[p].refresh
      BY <1>1, <2>1, <3>2 DEF Quiet, Loses, Stores, Presents
    <3>5. \A o \in Procs \ {p} : reply'[o].refresh # reply[p].refresh
      BY <2>1, <3>2, NoReplyHasNothing DEF LeavesClean, Alone
    <3> QED
      BY <2>1, <3>2, <3>3, <3>4, <3>5 DEF LeavesClean, Alone, OnlyMoves
  <2> QED
    BY <2>2, <2>3
<1>2. ASSUME NEW d \in Donors, NEW T \in Tokens, NEW c \in Credentials,
             Submits(d, T, c)
      PROVE  GrantUnshared(p)'
  <2>1. LeavesClean(d) /\ pc'[d] # "granted" /\ d \in Procs /\ UNCHANGED rows
    BY <1>2 DEF Submits, LeavesClean, Procs
  <2>2. CASE p = d
    BY <2>1, <2>2 DEF GrantUnshared
  <2>3. CASE p # d
    <3>1. pc'[p] = pc[p] /\ presented'[p] = presented[p] /\ reply'[p] = reply[p]
      BY <2>1, <2>3 DEF LeavesClean, Alone, OnlyMoves
    <3> SUFFICES ASSUME reply[p].refresh # NoCredential, pc[p] = "granted",
                        reply[p].refresh # presented[p]
                 PROVE  /\ \A t \in Tokens : /\ rows'[t].refresh # reply[p].refresh
                                             /\ donated'[t] # reply[p].refresh
                        /\ \A o \in Procs : presented'[o] # reply[p].refresh
                        /\ \A o \in Procs \ {p} : reply'[o].refresh # reply[p].refresh
      BY <1>i, <3>1, GrantKept
    <3>2. /\ \A t \in Tokens : /\ rows[t].refresh # reply[p].refresh
                               /\ donated[t] # reply[p].refresh
          /\ \A o \in Procs : presented[o] # reply[p].refresh
          /\ \A o \in Procs \ {p} : reply[o].refresh # reply[p].refresh
      BY <1>i DEF GrantUnshared
    <3>3. c # reply[p].refresh
      <4>1. CASE c = donated[T]
        BY <3>2, <4>1
      <4>2. CASE c = issued' /\ issued' = issued + 1
        BY <1>i, <1>r, <4>2
      <4> QED
        BY <1>2, <4>1, <4>2 DEF Submits
    <3>4. \A t \in Tokens : donated'[t] # reply[p].refresh
      BY <1>2, <3>2, <3>3 DEF Submits, Typed, TypeOK
    <3>5. \A o \in Procs : presented'[o] # reply[p].refresh
      BY <1>2, <2>1, <3>2, <3>3 DEF Submits, LeavesClean, Alone, OnlyMoves
    <3>6. \A o \in Procs \ {p} : reply'[o].refresh # reply[p].refresh
      BY <2>1, <3>2, NoReplyHasNothing DEF LeavesClean, Alone
    <3> QED
      BY <2>1, <3>2, <3>4, <3>5, <3>6
  <2> QED
    BY <2>2, <2>3
<1>3. ASSUME NEW q \in Procs, OAuthRotates(q) \/ OAuthRenews(q)
      PROVE  GrantUnshared(p)'
  <2>1. PICK refresh \in {issued + 1, presented[q]} : Granted(q, refresh)
    BY <1>3 DEF OAuthRotates, OAuthRenews
  <2>2. /\ UNCHANGED <<rows, presented, donated>>
        /\ \A o \in Procs \ {q} : reply'[o] = reply[o] /\ pc'[o] = pc[o]
        /\ reply'[q].refresh = refresh
    BY <2>1 DEF Granted, Typed, TypeOK
  <2>3. CASE p = q
    <3>1. CASE refresh = presented[q]
      BY <2>2, <2>3, <3>1 DEF GrantUnshared
    <3>2. CASE refresh = issued + 1
      <4>1. /\ \A t \in Tokens : rows[t].refresh <= issued /\ donated[t] <= issued
            /\ \A o \in Procs : presented[o] <= issued /\ reply[o].refresh <= issued
        BY Numbers
      <4>2. /\ \A t \in Tokens : rows[t].refresh # refresh /\ donated[t] # refresh
            /\ \A o \in Procs : presented[o] # refresh /\ reply[o].refresh # refresh
            /\ refresh # NoCredential
        BY <1>i, <3>2, <4>1 DEF NoCredential
      <4> QED
        BY <2>2, <2>3, <4>2 DEF GrantUnshared
    <3> QED
      BY <3>1, <3>2
  <2>4. CASE p # q
    <3>1. reply[p].refresh # presented[p] /\ pc[p] = "granted"
             => refresh # reply[p].refresh
      BY <1>i, <1>r DEF GrantUnshared
    <3> QED
      BY <1>i, <2>2, <2>4, <3>1 DEF GrantUnshared
  <2> QED
    BY <2>3, <2>4
<1>4. CASE Crash
  BY <1>4 DEF Crash, GrantUnshared
<1>5. CASE TableOnly
  BY <1>5, <1>i DEF TableOnly, SameRefresh, GrantUnshared
<1> QED
  BY <1>1, <1>2, <1>3, <1>4, <1>5, Shapes

\* Two requests that present one refresh token are on one row, and one of them
\* is a donor.
LEMMA SharedPresentation ==
    ASSUME Typed, MutexHolder, Apart, NEW p \in Procs, NEW q \in Procs, p # q,
           pc[p] = "granted", pc[q] = "refresh", presented[p] = presented[q],
           presented[q] # NoCredential
    PROVE  tok[p] = tok[q] /\ SharedWithDonor(q)
<1>1. tok[p] \in Tokens /\ tok[q] \in Tokens /\ presented[q] \in Credentials
  BY ProcFacts DEF Credentials
<1>2. Has(tok[p], presented[q]) /\ Has(tok[q], presented[q])
  BY DEF Has
<1>3. tok[p] = tok[q]
  BY <1>1, <1>2 DEF Apart
<1>4. ~(p \in Workers /\ q \in Workers)
  BY <1>1, <1>3 DEF MutexHolder, Critical
<1>5. {p, q} \cap Donors # {}
  BY <1>4 DEF Procs
<1> QED
  BY <1>3, <1>5 DEF SharedWithDonor, Refreshing

LEMMA StepLive ==
    ASSUME Chained, [Next]_vars, NEW p \in Procs
    PROVE  GrantLive(p)'
<1>0. /\ Typed /\ Clean /\ MutexHolder /\ Apart /\ Issued
      /\ GrantLive(p) /\ GrantUnshared(p)
  BY DEF Chained
<1>1. ASSUME NEW q \in Procs, Quiet(q) \/ Loses(q) PROVE GrantLive(p)'
  BY <1>0, <1>1 DEF Quiet, Loses, LeavesClean, Alone, OnlyMoves, GrantLive
<1>2. ASSUME NEW q \in Procs, Stores(q) PROVE GrantLive(p)'
  <2>1. CASE UNCHANGED contested
    BY <1>0, <1>2, <2>1 DEF Stores, LeavesClean, Alone, OnlyMoves, GrantLive
  <2>2. CASE contested' = contested \ {tok[q]} /\ Refreshing(tok[q]) = {q}
    <3>1. p # q /\ pc[p] = "granted" => tok[p] # tok[q]
      BY <2>2 DEF Refreshing
    <3> QED
      BY <1>0, <1>2, <2>2, <3>1
      DEF Stores, LeavesClean, Alone, OnlyMoves, GrantLive
  <2> QED
    BY <1>2, <2>1, <2>2 DEF Stores
<1>3. ASSUME NEW d \in Donors, NEW t \in Tokens, NEW c \in Credentials,
             Submits(d, t, c)
      PROVE  GrantLive(p)'
  <2>1. valid \subseteq valid' /\ d \in Procs
    BY <1>3 DEF Submits, Procs
  <2> QED
    BY <1>0, <1>3, <2>1 DEF Submits, LeavesClean, Alone, OnlyMoves, GrantLive
<1>4. ASSUME NEW q \in Procs, OAuthRotates(q) PROVE GrantLive(p)'
  <2>1. /\ Granted(q, issued + 1)
        /\ valid' = (valid \ {presented[q]}) \cup {issued + 1}
    BY <1>4 DEF OAuthRotates
  <2>2. /\ UNCHANGED tok /\ reply'[q].refresh = issued + 1
        /\ pc[q] = "refresh" /\ presented[q] \in valid
        /\ \A o \in Procs \ {q} : reply'[o] = reply[o] /\ pc'[o] = pc[o]
        /\ contested \subseteq contested'
        /\ SharedWithDonor(q) => tok[q] \in contested'
    BY <1>0, <2>1 DEF Granted, Typed, TypeOK
  <2>3. CASE p = q
    BY <2>1, <2>2, <2>3 DEF GrantLive
  <2>4. CASE p # q
    <3> SUFFICES ASSUME pc[p] = "granted", tok[p] \notin contested'
                 PROVE  reply[p].refresh \in valid'
      BY <2>2, <2>4 DEF GrantLive
    <3>1. reply[p].refresh \in valid
      BY <1>0, <2>2 DEF GrantLive
    <3>2. reply[p].refresh # presented[q]
      <4> SUFFICES ASSUME reply[p].refresh = presented[q] PROVE FALSE
        OBVIOUS
      <4>1. presented[p] = presented[q]
        BY <1>0 DEF GrantUnshared
      <4>2. presented[q] # NoCredential
        BY <1>0, <2>2 DEF Issued
      <4> QED
        BY <1>0, <2>2, <2>4, <4>1, <4>2, SharedPresentation
    <3> QED
      BY <2>1, <3>1, <3>2
  <2> QED
    BY <2>3, <2>4
<1>5. ASSUME NEW q \in Procs, OAuthRenews(q) PROVE GrantLive(p)'
  <2>1. Granted(q, presented[q]) /\ UNCHANGED valid
    BY <1>5 DEF OAuthRenews
  <2>2. /\ UNCHANGED tok /\ reply'[q].refresh = presented[q]
        /\ presented[q] \in valid
        /\ \A o \in Procs \ {q} : reply'[o] = reply[o] /\ pc'[o] = pc[o]
        /\ contested \subseteq contested'
    BY <1>0, <2>1 DEF Granted, Typed, TypeOK
  <2> QED
    BY <1>0, <2>1, <2>2 DEF GrantLive
<1>6. CASE Crash
  BY <1>6 DEF Crash, GrantLive
<1>7. CASE TableOnly
  BY <1>0, <1>7 DEF TableOnly, GrantLive
<1> QED
  BY <1>0, <1>1, <1>2, <1>3, <1>4, <1>5, <1>6, <1>7, Shapes

\* What StoredCredentialLive says of one row.
RowLive(t) ==
    t \notin contested /\ Present(rows[t]) =>
        \/ rows[t].refresh \in valid
        \/ \E p \in Procs : /\ pc[p] = "granted" /\ tok[p] = t
                            /\ presented[p] = rows[t].refresh

LEMMA StepStored ==
    ASSUME Chained, [Next]_vars, NEW t \in Tokens
    PROVE  RowLive(t)'
<1>0. /\ Typed /\ Clean /\ MutexHolder /\ Apart /\ Issued /\ RowLive(t)
      /\ \A p \in Procs : GrantLive(p)
  BY DEF Chained, StoredCredentialLive, RowLive
<1>1. ASSUME NEW q \in Procs, Quiet(q) PROVE RowLive(t)'
  <2>1. \A p \in Procs : pc[p] = "granted" => p # q
    BY <1>1 DEF Quiet
  <2> QED
    BY <1>0, <1>1, <2>1
    DEF Quiet, LeavesClean, Alone, OnlyMoves, SameRefresh, RowLive
<1>2. ASSUME NEW q \in Procs, Loses(q) PROVE RowLive(t)'
  <2>1. t \notin contested' =>
           ~(pc[q] = "granted" /\ tok[q] = t /\ rows[t].refresh = presented[q]
             /\ presented[q] \notin valid)
    BY <1>2 DEF Loses, DroppedBy
  <2> QED
    BY <1>0, <1>2, <2>1 DEF Loses, LeavesClean, Alone, OnlyMoves, RowLive
<1>3. ASSUME NEW q \in Procs, Stores(q) PROVE RowLive(t)'
  <2>1. CASE t = tok[q]
    <3>1. t \notin contested' => reply[q].refresh \in valid
      BY <1>0, <1>3, <2>1 DEF Stores, GrantLive
    <3> QED
      BY <1>3, <2>1, <3>1 DEF Stores, RowLive
  <2>2. CASE t # tok[q]
    <3>1. rows'[t] = rows[t] /\ (t \in contested' <=> t \in contested)
          /\ UNCHANGED valid
      BY <1>3, <2>2 DEF Stores
    <3>2. \A p \in Procs : tok[p] = t => /\ pc'[p] = pc[p] /\ tok'[p] = t
                                         /\ presented'[p] = presented[p]
      BY <1>3, <2>2 DEF Stores, LeavesClean, Alone, OnlyMoves
    <3> QED
      BY <1>0, <3>1, <3>2 DEF RowLive, Present
  <2> QED
    BY <2>1, <2>2
<1>4. ASSUME NEW d \in Donors, NEW u \in Tokens, NEW c \in Credentials,
             Submits(d, u, c)
      PROVE  RowLive(t)'
  <2>1. valid \subseteq valid' /\ d \in Procs /\ UNCHANGED <<rows, contested>>
        /\ \A p \in Procs : pc[p] = "granted" => p # d
    BY <1>4 DEF Submits, Procs
  <2> QED
    BY <1>0, <1>4, <2>1
    DEF Submits, LeavesClean, Alone, OnlyMoves, RowLive, Present
<1>5. ASSUME NEW q \in Procs, OAuthRotates(q) \/ OAuthRenews(q)
      PROVE  RowLive(t)'
  <2>1. \E refresh : Granted(q, refresh)
    BY <1>5 DEF OAuthRotates, OAuthRenews
  <2>2. /\ UNCHANGED <<rows, tok, presented>> /\ contested \subseteq contested'
        /\ pc[q] = "refresh" /\ pc'[q] = "granted"
        /\ \A o \in Procs \ {q} : pc'[o] = pc[o]
    BY <1>0, <2>1 DEF Granted, Typed, TypeOK
  <2>3. \A c \in valid : c = presented[q] \/ c \in valid'
    BY <1>5 DEF OAuthRotates, OAuthRenews
  <2>4. CASE rows[t].refresh \in valid /\ rows[t].refresh = presented[q]
    <3>1. rows[t].refresh # NoCredential /\ rows[t].refresh \in Credentials
      BY <1>0, <2>4 DEF Issued, Typed, TypeOK, RowType
    <3>2. Has(t, rows[t].refresh) /\ Has(tok[q], rows[t].refresh)
      BY <2>4, <3>1 DEF Has
    <3>3. tok[q] \in Tokens
      BY <1>0, <2>2, ProcFacts
    <3>4. tok[q] = t
      BY <1>0, <3>1, <3>2, <3>3 DEF Apart
    <3> QED
      BY <2>2, <2>4, <3>4 DEF RowLive
  <2>5. CASE rows[t].refresh \in valid /\ rows[t].refresh # presented[q]
    BY <2>2, <2>3, <2>5 DEF RowLive
  <2>6. CASE rows[t].refresh \notin valid
    BY <1>0, <2>2, <2>6 DEF RowLive, Present
  <2> QED
    BY <2>4, <2>5, <2>6
<1>6. CASE Crash
  <2>1. \A p \in Procs : t \notin contested' =>
           ~(pc[p] = "granted" /\ tok[p] = t /\ rows[t].refresh = presented[p]
             /\ presented[p] \notin valid)
    BY <1>6 DEF Crash, DroppedBy
  <2> QED
    BY <1>0, <1>6, <2>1 DEF Crash, RowLive, serverVars, Present
<1>7. CASE TableOnly
  BY <1>0, <1>7 DEF TableOnly, SameRefresh, RowLive
<1> QED
  BY <1>0, <1>1, <1>2, <1>3, <1>4, <1>5, <1>6, <1>7, Shapes

LEMMA ChainedAlways == Spec => []Chained
<1>1. Init => Chained
  <2> SUFFICES ASSUME Init PROVE Chained
    OBVIOUS
  <2>1. Typed
    BY InitTyped
  <2>2. MutexHolder
    BY ProcsAssumption DEF Init, MutexHolder, Critical, Procs
  <2>3. Clean
    BY DEF Init, Clean
  <2>4. \A t \in Tokens, c \in Credentials : ~Has(t, c)
    BY NoReplyHasNothing DEF Init, Has, AbsentRow
  <2>5. Issued /\ Apart
    BY <2>4 DEF Issued, Apart, Init
  <2>6. \A p \in Procs : GrantLive(p) /\ GrantUnshared(p)
    BY DEF Init, GrantLive, GrantUnshared
  <2>7. StoredCredentialLive
    BY DEF Init, StoredCredentialLive, Present, AbsentRow
  <2> QED
    BY <2>1, <2>2, <2>3, <2>5, <2>6, <2>7 DEF Chained
<1>2. Chained /\ Holding /\ [Next]_vars => Chained'
  <2> SUFFICES ASSUME Chained, Holding, [Next]_vars PROVE Chained'
    OBVIOUS
  <2>1. Typed /\ Clean /\ Issued /\ Apart /\ \A p \in Procs : GrantUnshared(p)
    BY DEF Chained
  <2>2. Typed' /\ MutexHolder'
    BY NextKeepsHolding DEF Holding
  <2>3. Clean' /\ Issued' /\ Apart'
    BY <2>1, StepClean, StepApart DEF Issued, Credentials
  <2>4. \A p \in Procs : GrantLive(p)' /\ GrantUnshared(p)'
    BY <2>1, StepLive, StepUnshared
  <2>5. StoredCredentialLive'
    BY StepStored DEF StoredCredentialLive, RowLive
  <2> QED
    BY <2>2, <2>3, <2>4, <2>5 DEF Chained, Procs
<1> QED
  BY <1>1, <1>2, AlwaysHolding, PTL DEF Spec

\* The refresh token in a row that is not contested is one the OAuth server
\* accepts, or its successor is with the request that will write it.
THEOREM StoredLive == Spec => []StoredCredentialLive
<1>1. Chained => StoredCredentialLive
  BY DEF Chained
<1> QED
  BY <1>1, ChainedAlways, PTL

-----------------------------------------------------------------------------
(***************************************************************************)
(* Access tokens.                                                          *)
(***************************************************************************)

\* What a step of p makes of the access tokens: p sends with one that it was
\* granted or that its row has, and remembers a rejected one that it sent with.
AccessKept(p) ==
    /\ Alone(p)
    /\ issued' \in {issued, issued + 1}
    /\ \A t \in Tokens : \/ rows'[t].access = rows[t].access
                         \/ rows'[t].access = reply[p].access
    /\ \/ held'[p] \in {NoCredential, held[p], reply[p].access}
       \/ \E t \in Tokens : held'[p] = rows[t].access
    /\ rejected'[p] \in {NoCredential, rejected[p], held[p]}
    /\ reply'[p] = NoReply

RetryNewer(p) ==
    pc[p] = "have" /\ rejected[p] # NoCredential => held[p] # rejected[p]

Renewed == Typed /\ Clean /\ Newer /\ \A p \in Procs : RetryNewer(p)

LEMMA AccessKeptNewer ==
    ASSUME Renewed, NEW p \in Procs, AccessKept(p), pc'[p] # "granted"
    PROVE  Newer'
<1>1. issued \in Nat /\ NoReply.access = 0
  BY DEF Renewed, Typed, TypeOK, NoReply, NoCredential
<1>2. /\ \A t \in Tokens : rows[t].access <= issued /\ rows[t].access \in Nat
      /\ \A q \in Procs : /\ held[q] <= issued /\ held[q] \in Nat
                          /\ rejected[q] <= issued /\ rejected[q] \in Nat
                          /\ reply[q].access <= issued /\ reply[q].access \in Nat
      /\ \A q \in Procs : pc[q] = "granted" => rejected[q] < reply[q].access
  BY ProcFacts DEF Renewed, Newer, Typed, TypeOK, RowType, Credentials
<1>3. \A t \in Tokens : rows'[t].access <= issued'
  <2> SUFFICES ASSUME NEW t \in Tokens PROVE rows'[t].access <= issued'
    OBVIOUS
  <2>1. rows'[t].access <= issued /\ rows'[t].access \in Nat
    BY <1>2 DEF AccessKept
  <2> QED
    BY <1>1, <2>1 DEF AccessKept
<1>4. ASSUME NEW q \in Procs
      PROVE  held'[q] <= issued' /\ rejected'[q] <= issued' /\ reply'[q].access <= issued'
  <2>1. CASE q = p
    <3>1. held'[p] <= issued /\ held'[p] \in Nat
      BY <1>1, <1>2 DEF AccessKept, NoCredential
    <3>2. rejected'[p] <= issued /\ rejected'[p] \in Nat
      BY <1>1, <1>2 DEF AccessKept, NoCredential
    <3> QED
      BY <1>1, <2>1, <3>1, <3>2 DEF AccessKept
  <2>2. CASE q # p
    <3>1. held'[q] = held[q] /\ rejected'[q] = rejected[q] /\ reply'[q] = reply[q]
      BY <2>2 DEF AccessKept, Alone, OnlyMoves
    <3> QED
      BY <1>1, <1>2, <3>1 DEF AccessKept
  <2> QED
    BY <2>1, <2>2
<1>5. \A q \in Procs : pc'[q] = "granted" => rejected'[q] < reply'[q].access
  BY <1>2 DEF AccessKept, Alone, OnlyMoves
<1> QED
  BY <1>3, <1>4, <1>5 DEF Newer

\* Who did not move keeps its access token.
LEMMA OthersRetry ==
    ASSUME Renewed, NEW p \in Procs, Alone(p)
    PROVE  \A q \in Procs \ {p} : RetryNewer(q)'
  BY DEF Renewed, Alone, OnlyMoves, RetryNewer

LEMMA ResetAccess ==
    ASSUME Typed, NEW p \in Procs, Reset(p),
           UNCHANGED issued,
           \A t \in Tokens : \/ rows'[t].access = rows[t].access
                             \/ rows'[t].access = reply[p].access
    PROVE  AccessKept(p) /\ pc'[p] = "idle"
  BY DEF Typed, TypeOK, Reset, AccessKept, Alone, OnlyMoves

\* The statements on a row that keep its access token.
LEMMA RowsKeepAccess ==
    ASSUME Typed, NEW t \in Tokens, NEW new, rows' = [rows EXCEPT ![t] = new],
           new \in {FailureRecorded(rows[t], Threshold), Disabled(rows[t]),
                    [rows[t] EXCEPT !.fresh = FALSE]}
    PROVE  \A u \in Tokens : rows'[u].access = rows[u].access
<1>1. rows[t] \in RowType
  BY DEF Typed, TypeOK
<1>2. new.access = rows[t].access
  BY <1>1, RowOperatorsKeepCredentials DEF SameCredentials
<1>3. \A u \in Tokens : rows'[u] = IF u = t THEN new ELSE rows[u]
  BY DEF Typed, TypeOK
<1> QED
  BY <1>2, <1>3

LEMMA GrantRenewed ==
    ASSUME Renewed, NEW p \in Procs, OAuthRotates(p) \/ OAuthRenews(p)
    PROVE  Newer' /\ \A q \in Procs : RetryNewer(q)'
<1>1. PICK refresh : Granted(p, refresh)
  BY DEF OAuthRotates, OAuthRenews
<1>2. /\ UNCHANGED <<rows, held, rejected>>
      /\ issued' = issued + 1 /\ issued \in Nat
      /\ reply'[p].access = issued' /\ pc'[p] = "granted"
      /\ \A q \in Procs \ {p} : reply'[q] = reply[q] /\ pc'[q] = pc[q]
  BY <1>1 DEF Granted, Renewed, Typed, TypeOK
<1>3. /\ \A t \in Tokens : rows[t].access <= issued /\ rows[t].access \in Nat
      /\ \A q \in Procs : /\ held[q] <= issued /\ held[q] \in Nat
                          /\ rejected[q] <= issued /\ rejected[q] \in Nat
                          /\ reply[q].access <= issued /\ reply[q].access \in Nat
      /\ \A q \in Procs : pc[q] = "granted" => rejected[q] < reply[q].access
  BY ProcFacts DEF Renewed, Newer, Typed, TypeOK, RowType, Credentials
<1>4. \A t \in Tokens : rows'[t].access <= issued'
  BY <1>2, <1>3
<1>5. ASSUME NEW q \in Procs
      PROVE  /\ held'[q] <= issued' /\ rejected'[q] <= issued'
             /\ reply'[q].access <= issued'
             /\ pc'[q] = "granted" => rejected'[q] < reply'[q].access
  <2>1. CASE q = p
    BY <1>2, <1>3, <2>1
  <2>2. CASE q # p
    BY <1>2, <1>3, <2>2
  <2> QED
    BY <2>1, <2>2
<1>6. \A q \in Procs : RetryNewer(q)'
  BY <1>2 DEF Renewed, RetryNewer
<1> QED
  BY <1>4, <1>5, <1>6 DEF Newer

LEMMA WorkerRenewed ==
    ASSUME Renewed, NEW w \in Workers, WorkerStep(w)
    PROVE  Newer' /\ \A q \in Procs : RetryNewer(q)'
<1>p. w \in Procs /\ Typed /\ Newer
  BY DEF Procs, Renewed
<1>c. /\ pc[w] # "granted" => reply[w] = NoReply
      /\ pc[w] = "idle" => rejected[w] = NoCredential
      /\ pc[w] = "granted" => rejected[w] < reply[w].access
      /\ pc[w] # "idle" => tok[w] \in Tokens
  BY <1>p, ProcFacts DEF Clean, Renewed, Newer
<1>k. ASSUME AccessKept(w), pc'[w] # "granted", RetryNewer(w)'
      PROVE  Newer' /\ \A q \in Procs : RetryNewer(q)'
  BY <1>k, <1>p, AccessKeptNewer, OthersRetry DEF AccessKept
<1>i. ASSUME pc'[w] # "have" PROVE RetryNewer(w)'
  BY <1>i DEF RetryNewer
<1>1. CASE \E t \in Tokens : SelectToken(w, t)
  <2> PICK t \in Tokens : SelectToken(w, t)
    BY <1>1
  <2>1. /\ pc'[w] # "granted" /\ rejected' = rejected /\ rejected[w] = NoCredential
        /\ Alone(w) /\ held'[w] \in {held[w], rows[t].access}
        /\ UNCHANGED <<rows, issued>> /\ reply'[w] = NoReply
    BY <1>p, <1>c
    DEF SelectToken, Alone, OnlyMoves, Typed, TypeOK, serverVars
  <2>2. AccessKept(w)
    BY <2>1 DEF AccessKept
  <2>3. RetryNewer(w)'
    BY <2>1 DEF RetryNewer
  <2> QED
    BY <1>k, <2>1, <2>2, <2>3
<1>2. CASE Acquire(w) \/ OAuthRefuses(w) \/ UpstreamRejects(w) \/ ReplyLost(w)
  <2>1. /\ pc'[w] \notin {"granted", "have"} /\ Alone(w)
        /\ held'[w] \in {held[w], NoCredential} /\ rejected'[w] \in {rejected[w], held[w]}
        /\ UNCHANGED <<rows, issued>> /\ reply'[w] = NoReply
    BY <1>2, <1>p, <1>c
    DEF Acquire, OAuthRefuses, UpstreamRejects, ReplyLost, Alone, OnlyMoves,
        Typed, TypeOK, serverVars
  <2>2. AccessKept(w)
    BY <2>1 DEF AccessKept
  <2> QED
    BY <1>k, <1>i, <2>1, <2>2
<1>3. CASE GetToken(w)
  <2>1. UNCHANGED <<rows, issued, rejected, tok>> /\ tok[w] \in Tokens
    BY <1>3, <1>c DEF GetToken, serverVars
  <2>2. CASE Reusable(rows[tok[w]], rejected[w]) /\ Return(w, rows[tok[w]].access)
    <3>1. /\ pc'[w] = "have" /\ Alone(w) /\ held'[w] = rows[tok[w]].access
          /\ reply'[w] = NoReply
      BY <1>p, <2>1, <2>2 DEF Return, Alone, OnlyMoves, Typed, TypeOK
    <3>2. AccessKept(w)
      BY <2>1, <3>1 DEF AccessKept
    <3>3. RetryNewer(w)'
      BY <2>1, <2>2, <3>1 DEF RetryNewer, Reusable
    <3> QED
      BY <1>k, <3>1, <3>2, <3>3
  <2>3. CASE /\ pc' = [pc EXCEPT ![w] = "refresh"]
             /\ presented' = [presented EXCEPT ![w] = rows[tok[w]].refresh]
             /\ UNCHANGED <<locks, held, reply, overtaken>>
    <3>1. /\ pc'[w] = "refresh" /\ Alone(w) /\ reply'[w] = NoReply
      BY <1>3, <1>p, <1>c, <2>1, <2>3
      DEF GetToken, Alone, OnlyMoves, Typed, TypeOK
    <3>2. AccessKept(w)
      BY <2>1, <2>3, <3>1 DEF AccessKept
    <3> QED
      BY <1>k, <1>i, <3>1, <3>2
  <2> QED
    BY <1>3, <2>2, <2>3 DEF GetToken
<1>4. CASE OAuthRotates(w) \/ OAuthRenews(w)
  BY <1>4, <1>p, GrantRenewed
<1>5. CASE GetTokenFails(w) \/ StoreFails(w) \/ UpstreamAnswers(w)
  <2>1. AccessKept(w) /\ pc'[w] = "idle"
    BY <1>5, <1>p, ResetAccess
    DEF GetTokenFails, StoreFails, UpstreamAnswers, Finish, serverVars
  <2> QED
    BY <1>k, <1>i, <2>1
<1>6. CASE RecordFailure(w) \/ ReportAuthFailure(w)
  <2>1. tok[w] \in Tokens
    BY <1>6, <1>c DEF RecordFailure, ReportAuthFailure
  <2>2. \/ rows' = rows
        \/ rows' = [rows EXCEPT ![tok[w]] =
                      FailureRecorded(rows[tok[w]], Threshold)]
    BY <1>6 DEF RecordFailure, ReportAuthFailure
  <2>3. \A u \in Tokens : rows'[u].access = rows[u].access
    BY <1>p, <2>1, <2>2, RowsKeepAccess
  <2>4. AccessKept(w) /\ pc'[w] = "idle"
    BY <1>6, <1>p, <2>3, ResetAccess
    DEF RecordFailure, ReportAuthFailure, Finish, serverVars
  <2> QED
    BY <1>k, <1>i, <2>4
<1>7. CASE StoreCredentials(w)
  <2>1. tok[w] \in Tokens /\ pc[w] = "granted"
    BY <1>7, <1>c DEF StoreCredentials
  <2>2. rows[tok[w]] \in RowType /\ rows \in [Tokens -> RowType]
    BY <1>p, <2>1 DEF Typed, TypeOK
  <2>3. HealthRestored(WithReply(rows[tok[w]], reply[w])).access = reply[w].access
    BY <2>2 DEF HealthRestored, WithReply, RowType
  <2>4. \A u \in Tokens : \/ rows'[u].access = rows[u].access
                          \/ rows'[u].access = reply[w].access
    BY <1>7, <2>1, <2>2, <2>3 DEF StoreCredentials
  <2>5. /\ pc'[w] = "have" /\ held'[w] = reply[w].access /\ reply'[w] = NoReply
        /\ rejected' = rejected /\ issued' = issued /\ Alone(w)
    BY <1>7, <1>p DEF StoreCredentials, Return, Alone, OnlyMoves, Typed, TypeOK,
                      serverVars
  <2>6. AccessKept(w)
    BY <2>4, <2>5 DEF AccessKept
  <2>7. RetryNewer(w)'
    BY <1>c, <1>p, <2>1, <2>5, ProcFacts DEF RetryNewer
  <2> QED
    BY <1>k, <2>5, <2>6, <2>7
<1> QED
  BY <1>1, <1>2, <1>3, <1>4, <1>5, <1>6, <1>7
  DEF WorkerStep, OAuthAnswers, Write

LEMMA DonorRenewed ==
    ASSUME Renewed, NEW d \in Donors, DonorStep(d)
    PROVE  Newer' /\ \A q \in Procs : RetryNewer(q)'
<1>p. d \in Procs /\ Typed /\ issued \in Nat
  BY DEF Procs, Renewed, Typed, TypeOK
<1>c. /\ pc[d] # "granted" => reply[d] = NoReply
      /\ pc[d] # "idle" => tok[d] \in Tokens
  BY <1>p, ProcFacts DEF Clean, Renewed
<1>k. ASSUME AccessKept(d), pc'[d] \notin {"granted", "have"}
      PROVE  Newer' /\ \A q \in Procs : RetryNewer(q)'
  BY <1>k, <1>p, AccessKeptNewer, OthersRetry DEF AccessKept, RetryNewer
<1>1. CASE \/ \E t \in Tokens : DonateNew(d, t) \/ DonateAgain(d, t)
           \/ OAuthRefuses(d) \/ ReplyLost(d)
  <2>1. /\ pc'[d] \notin {"granted", "have"} /\ Alone(d)
        /\ held' = held /\ rejected' = rejected
        /\ rows' = rows /\ issued' \in {issued, issued + 1} /\ reply'[d] = NoReply
    BY <1>1, <1>p, <1>c
    DEF DonateNew, DonateAgain, DonateSubmit, OAuthRefuses, ReplyLost, Alone,
        OnlyMoves, Typed, TypeOK, serverVars
  <2>2. AccessKept(d)
    BY <2>1 DEF AccessKept
  <2> QED
    BY <1>k, <2>1, <2>2
<1>2. CASE OAuthRotates(d) \/ OAuthRenews(d)
  BY <1>2, <1>p, GrantRenewed
<1>3. CASE DonateStore(d)
  <2>1. tok[d] \in Tokens
    BY <1>3, <1>c DEF DonateStore
  <2>2. rows[tok[d]] \in RowType /\ rows \in [Tokens -> RowType]
    BY <1>p, <2>1 DEF Typed, TypeOK
  <2>3. Donated(WithReply(rows[tok[d]], reply[d])).access = reply[d].access
    BY <2>2 DEF Donated, HealthRestored, WithReply, RowType
  <2>4. \A u \in Tokens : \/ rows'[u].access = rows[u].access
                          \/ rows'[u].access = reply[d].access
    BY <1>3, <2>1, <2>2, <2>3 DEF DonateStore
  <2>5. AccessKept(d) /\ pc'[d] = "idle"
    BY <1>3, <1>p, <2>4, ResetAccess DEF DonateStore, serverVars
  <2> QED
    BY <1>k, <2>5
<1>4. CASE DonateFails(d)
  <2>1. AccessKept(d) /\ pc'[d] = "idle"
    BY <1>4, <1>p, ResetAccess DEF DonateFails, Finish, serverVars
  <2> QED
    BY <1>k, <2>1
<1> QED
  BY <1>1, <1>2, <1>3, <1>4 DEF DonorStep, OAuthAnswers

LEMMA RenewedAlways == Spec => []Renewed
<1>1. Init => Renewed
  <2> SUFFICES ASSUME Init PROVE Renewed
    OBVIOUS
  <2>1. Typed
    BY InitTyped
  <2>2. Clean /\ \A p \in Procs : RetryNewer(p)
    BY DEF Init, Clean, RetryNewer
  <2>3. Newer
    BY DEF Init, Newer, AbsentRow, NoReply, NoCredential
  <2> QED
    BY <2>1, <2>2, <2>3 DEF Renewed
<1>2. Renewed /\ Chained /\ [Next]_vars => Renewed'
  <2> SUFFICES ASSUME Renewed, Chained, [Next]_vars PROVE Renewed'
    OBVIOUS
  <2>1. Typed' /\ Clean'
    BY NextTyped, StepClean DEF Renewed, Chained
  <2>2. CASE \E w \in Workers : WorkerStep(w)
    BY <2>1, <2>2, WorkerRenewed DEF Renewed, Procs
  <2>3. CASE \E d \in Donors : DonorStep(d)
    BY <2>1, <2>3, DonorRenewed DEF Renewed, Procs
  <2>4. CASE Crash
    <3>1. Newer'
      BY <2>4 DEF Crash, Newer, Renewed, NoReply, NoCredential, serverVars, Typed,
                  TypeOK
    <3>2. \A p \in Procs : RetryNewer(p)'
      BY <2>4 DEF Crash, RetryNewer
    <3> QED
      BY <2>1, <3>1, <3>2 DEF Renewed, Procs
  <2>5. CASE \E t \in Tokens : DisableToken(t) \/ Expire(t)
    <3>1. PICK t \in Tokens : DisableToken(t) \/ Expire(t)
      BY <2>5
    <3>2. \/ rows' = [rows EXCEPT ![t] = Disabled(rows[t])]
          \/ rows' = [rows EXCEPT ![t] = [rows[t] EXCEPT !.fresh = FALSE]]
      BY <3>1 DEF DisableToken, Expire
    <3>3. \A u \in Tokens : rows'[u].access = rows[u].access
      BY <3>2, RowsKeepAccess DEF Renewed
    <3>4. UNCHANGED <<pc, held, rejected, reply, issued>>
      BY <3>1 DEF DisableToken, Expire, serverVars
    <3> QED
      BY <2>1, <3>3, <3>4 DEF Renewed, Newer, RetryNewer, Procs
  <2>6. CASE UNCHANGED vars
    BY <2>1, <2>6 DEF vars, serverVars, Renewed, Newer, RetryNewer, Procs
  <2> QED
    BY <2>2, <2>3, <2>4, <2>5, <2>6 DEF Next
<1> QED
  BY <1>1, <1>2, ChainedAlways, PTL DEF Spec

\* Reauthenticate never returns the access token that upstream rejected:
\* a granted one is newer, and another one is compared with it.
THEOREM RetryIsNew == Spec => []RetryUsesNewCredential
<1>1. Renewed => RetryUsesNewCredential
  BY DEF Renewed, RetryNewer, RetryUsesNewCredential, Procs
<1> QED
  BY <1>1, RenewedAlways, PTL

-----------------------------------------------------------------------------
(***************************************************************************)
(* Custody: TokenManager implements CredentialCustody.                     *)
(***************************************************************************)

\* No more is issued than may be; an absent row has no refresh token and is
\* not in rotation; workers work on rows that exist; and nothing was granted
\* but for a refresh token.
Grounded ==
    /\ issued <= MaxIssued
    /\ \A t \in Tokens : ~Present(rows[t]) =>
          rows[t].refresh = NoCredential /\ ~rows[t].enabled
    /\ \A w \in Workers : pc[w] # "idle" => Present(rows[tok[w]])
    /\ \A p \in Procs : pc[p] = "granted" => presented[p] # NoCredential

SameEnabled == \A t \in Tokens : rows'[t].enabled = rows[t].enabled

\* Workers' statements leave enabled as it is.
LEMMA WorkerKeepsEnabled ==
    ASSUME Typed, NEW w \in Workers, WorkerStep(w)
    PROVE  SameEnabled
<1>0. rows \in [Tokens -> RowType]
  BY DEF Typed, TypeOK
<1>k. ASSUME NEW t \in Tokens, NEW new, rows' = [rows EXCEPT ![t] = new],
             new.enabled = rows[t].enabled
      PROVE  SameEnabled
  <2>1. \A u \in Tokens : rows'[u] = IF u = t THEN new ELSE rows[u]
    BY <1>0, <1>k
  <2> QED
    BY <1>k, <2>1 DEF SameEnabled
<1>p. w \in Procs /\ (pc[w] # "idle" => tok[w] \in Tokens)
  BY ProcFacts DEF Procs
<1>1. CASE RecordFailure(w) \/ ReportAuthFailure(w)
  <2>1. tok[w] \in Tokens /\ rows[tok[w]] \in RowType
    BY <1>0, <1>p, <1>1 DEF RecordFailure, ReportAuthFailure
  <2>2. FailureRecorded(rows[tok[w]], Threshold).enabled = rows[tok[w]].enabled
    BY <2>1 DEF FailureRecorded, RowType
  <2>3. \/ rows' = rows
        \/ rows' = [rows EXCEPT ![tok[w]] =
                      FailureRecorded(rows[tok[w]], Threshold)]
    BY <1>1 DEF RecordFailure, ReportAuthFailure
  <2> QED
    BY <1>k, <2>1, <2>2, <2>3 DEF SameEnabled
<1>2. CASE StoreCredentials(w)
  <2>1. tok[w] \in Tokens /\ rows[tok[w]] \in RowType
    BY <1>0, <1>p, <1>2 DEF StoreCredentials
  <2>2. HealthRestored(WithReply(rows[tok[w]], reply[w])).enabled
          = rows[tok[w]].enabled
    BY <2>1 DEF HealthRestored, WithReply, RowType
  <2> QED
    BY <1>k, <1>2, <2>1, <2>2 DEF StoreCredentials
<1>3. CASE ~RecordFailure(w) /\ ~ReportAuthFailure(w) /\ ~StoreCredentials(w)
  <2>1. UNCHANGED rows
    BY <1>3
    DEF WorkerStep, SelectToken, Acquire, GetToken, GetTokenFails,
        OAuthAnswers, OAuthRotates, OAuthRenews, Granted, OAuthRefuses,
        ReplyLost, Write, StoreFails, UpstreamAnswers, UpstreamRejects
  <2> QED
    BY <2>1 DEF SameEnabled
<1> QED
  BY <1>1, <1>2, <1>3

LEMMA DonorKeepsEnabled ==
    ASSUME NEW d \in Donors, DonorStep(d), ~DonateStore(d)
    PROVE  SameEnabled
<1>1. UNCHANGED rows
  BY DEF DonorStep, DonateNew, DonateAgain, DonateSubmit, OAuthAnswers,
         OAuthRotates, OAuthRenews, Granted, OAuthRefuses, ReplyLost,
         DonateFails
<1> QED
  BY <1>1 DEF SameEnabled

\* What a store leaves in its row.
LEMMA StoredRow ==
    ASSUME Typed, NEW p \in Procs,
           \/ p \in Workers /\ StoreCredentials(p)
           \/ p \in Donors /\ DonateStore(p)
    PROVE  /\ pc[p] = "granted" /\ tok[p] \in Tokens
           /\ rows'[tok[p]].access = reply[p].access
           /\ \A t \in Tokens \ {tok[p]} : rows'[t] = rows[t]
<1>1. pc[p] = "granted" /\ tok[p] \in Tokens
  BY ProcFacts DEF StoreCredentials, DonateStore
<1>2. rows[tok[p]] \in RowType /\ rows \in [Tokens -> RowType]
  BY <1>1 DEF Typed, TypeOK
<1>3. /\ HealthRestored(WithReply(rows[tok[p]], reply[p])).access = reply[p].access
      /\ Donated(WithReply(rows[tok[p]], reply[p])).access = reply[p].access
  BY <1>2 DEF HealthRestored, Donated, WithReply, RowType
<1> QED
  BY <1>1, <1>2, <1>3 DEF StoreCredentials, DonateStore

\* The steps once more, with what they do to enabled.
LEMMA CustodyShapes ==
    ASSUME Typed, Clean, [Next]_vars
    PROVE  \/ /\ SameEnabled
              /\ \/ \E p \in Procs : \/ Quiet(p) \/ OAuthRotates(p)
                                     \/ OAuthRenews(p) \/ Loses(p)
                 \/ \E d \in Donors, t \in Tokens, c \in Credentials :
                       Submits(d, t, c)
                 \/ Crash \/ TableOnly
           \/ \E t \in Tokens : DisableToken(t) /\ TableOnly
           \/ \E w \in Workers : StoreCredentials(w) /\ Stores(w) /\ SameEnabled
           \/ \E d \in Donors : DonateStore(d) /\ Stores(d)
<1>1. CASE \E w \in Workers : WorkerStep(w)
  BY <1>1, WorkerShapes, WorkerKeepsEnabled DEF Procs
<1>2. CASE \E d \in Donors : DonorStep(d)
  <2>1. PICK d \in Donors : DonorStep(d)
    BY <1>2
  <2>2. d \in Procs
    BY DEF Procs
  <2>3. CASE DonateStore(d)
    <3>1. ~Quiet(d) /\ ~OAuthRotates(d) /\ ~OAuthRenews(d)
          /\ ~\E t \in Tokens, c \in Credentials : Submits(d, t, c)
      BY <2>3 DEF DonateStore, Quiet, OAuthRotates, OAuthRenews, Granted, Submits
    <3>2. Stores(d)
      BY <2>1, <2>3, DonorStores
    <3> QED
      BY <2>3, <3>2
  <2>4. CASE ~DonateStore(d)
    BY <2>1, <2>2, <2>4, DonorShapes, DonorKeepsEnabled
  <2> QED
    BY <2>3, <2>4
<1>3. ASSUME NEW t \in Tokens, DisableToken(t) \/ Expire(t)
      PROVE  TableOnly /\ (Expire(t) => SameEnabled)
  <2>1. rows[t] \in RowType /\ rows \in [Tokens -> RowType]
    BY DEF Typed, TypeOK
  <2>2. TableOnly
    <3>1. \/ rows' = [rows EXCEPT ![t] = Disabled(rows[t])]
          \/ rows' = [rows EXCEPT ![t] = [rows[t] EXCEPT !.fresh = FALSE]]
      BY <1>3 DEF DisableToken, Expire
    <3>2. SameRefresh
      BY <3>1, RowsKeepRefresh
    <3> QED
      BY <1>3, <3>2 DEF DisableToken, Expire, TableOnly, serverVars, historyVars
  <2>3. [rows[t] EXCEPT !.fresh = FALSE].enabled = rows[t].enabled
    BY <2>1 DEF RowType
  <2>4. Expire(t) => SameEnabled
    BY <2>1, <2>3 DEF Expire, SameEnabled
  <2> QED
    BY <2>2, <2>4
<1>4. CASE Crash
  BY <1>4 DEF Crash, SameEnabled
<1>5. CASE UNCHANGED vars
  BY <1>5, SameRowsSameRefresh
  DEF vars, TableOnly, serverVars, historyVars, SameEnabled
<1> QED
  BY <1>1, <1>2, <1>3, <1>4, <1>5 DEF Next

-----------------------------------------------------------------------------
\* Nothing is issued beyond the bound.
LEMMA IssuedBounded ==
    ASSUME Typed, issued <= MaxIssued, [Next]_vars
    PROVE  issued' <= MaxIssued
<1>0. issued \in Nat /\ MaxIssued \in Nat
  BY MaxIssuedAssumption DEF Typed, TypeOK
<1>1. ASSUME NEW p \in Procs, OAuthRotates(p) \/ OAuthRenews(p)
      PROVE  issued' <= MaxIssued
  BY <1>0, <1>1 DEF OAuthRotates, OAuthRenews, Granted
<1>2. ASSUME NEW d \in Donors, NEW t \in Tokens, DonateNew(d, t)
      PROVE  issued' <= MaxIssued
  BY <1>0, <1>2 DEF DonateNew
<1>3. \/ UNCHANGED issued
      \/ \E p \in Procs : OAuthRotates(p) \/ OAuthRenews(p)
      \/ \E d \in Donors, t \in Tokens : DonateNew(d, t)
  <2>1. ASSUME NEW w \in Workers, WorkerStep(w)
        PROVE  \/ UNCHANGED issued
               \/ OAuthRotates(w) \/ OAuthRenews(w)
    BY <2>1
    DEF WorkerStep, SelectToken, Acquire, GetToken, GetTokenFails, OAuthAnswers,
        OAuthRefuses, ReplyLost, Write, RecordFailure, StoreCredentials,
        StoreFails, UpstreamAnswers, UpstreamRejects, ReportAuthFailure,
        serverVars
  <2>2. ASSUME NEW d \in Donors, DonorStep(d)
        PROVE  \/ UNCHANGED issued
               \/ OAuthRotates(d) \/ OAuthRenews(d)
               \/ \E t \in Tokens : DonateNew(d, t)
    BY <2>2
    DEF DonorStep, DonateAgain, OAuthAnswers, OAuthRefuses, ReplyLost,
        DonateStore, DonateFails, serverVars
  <2>3. ASSUME NEW t \in Tokens, DisableToken(t) \/ Expire(t)
        PROVE  UNCHANGED issued
    BY <2>3 DEF DisableToken, Expire, serverVars
  <2>4. CASE Crash
    BY <2>4 DEF Crash, serverVars
  <2>5. CASE UNCHANGED vars
    BY <2>5 DEF vars, serverVars
  <2> QED
    BY <2>1, <2>2, <2>3, <2>4, <2>5 DEF Next, Procs
<1> QED
  BY <1>1, <1>2, <1>3

\* A row that exists stays.
LEMMA RowsStay ==
    ASSUME Typed, Clean, Newer, [Next]_vars, NEW t \in Tokens, Present(rows[t])
    PROVE  Present(rows'[t])
<1>1. ASSUME NEW p \in Procs,
             \/ p \in Workers /\ StoreCredentials(p)
             \/ p \in Donors /\ DonateStore(p)
      PROVE  Present(rows'[t])
  <2>1. /\ pc[p] = "granted" /\ tok[p] \in Tokens
        /\ rows'[tok[p]].access = reply[p].access
        /\ \A u \in Tokens \ {tok[p]} : rows'[u] = rows[u]
    BY <1>1, StoredRow
  <2>2. reply[p].access # NoCredential
    BY <2>1, ProcFacts DEF Newer, NoCredential
  <2> QED
    BY <2>1, <2>2 DEF Present
<1>2. \/ SameRefresh \/ UNCHANGED rows
      \/ \E p \in Procs : \/ p \in Workers /\ StoreCredentials(p)
                          \/ p \in Donors /\ DonateStore(p)
  BY CustodyShapes
  DEF Quiet, OAuthRotates, OAuthRenews, Granted, Loses, Submits, Crash,
      TableOnly, Procs
<1> QED
  BY <1>1, <1>2 DEF SameRefresh

LEMMA NextGrounded ==
    ASSUME Typed, Typed', Clean, Newer, Issued, Grounded, [Next]_vars
    PROVE  Grounded'
<1>1. issued' <= MaxIssued
  BY IssuedBounded DEF Grounded
<1>2. ASSUME NEW t \in Tokens, ~Present(rows'[t])
      PROVE  rows'[t].refresh = NoCredential /\ ~rows'[t].enabled
  <2>1. ~Present(rows[t])
    BY <1>2, RowsStay
  <2>2. rows[t].refresh = NoCredential /\ ~rows[t].enabled
    BY <2>1 DEF Grounded
  <2>3. CASE \E u \in Tokens : DisableToken(u) /\ TableOnly
    <3>1. PICK u \in Tokens : DisableToken(u) /\ TableOnly
      BY <2>3
    <3>2. u # t
      BY <2>1, <3>1 DEF DisableToken
    <3>3. rows'[t] = rows[t]
      BY <3>1, <3>2 DEF DisableToken, Typed, TypeOK
    <3> QED
      BY <2>2, <3>3
  <2>4. ASSUME NEW p \in Procs,
               \/ p \in Workers /\ StoreCredentials(p)
               \/ p \in Donors /\ DonateStore(p)
        PROVE  rows'[t] = rows[t]
    <3>1. /\ pc[p] = "granted" /\ tok[p] \in Tokens
          /\ rows'[tok[p]].access = reply[p].access
          /\ \A u \in Tokens \ {tok[p]} : rows'[u] = rows[u]
      BY <2>4, StoredRow
    <3>2. reply[p].access # NoCredential
      BY <3>1, ProcFacts DEF Newer, NoCredential
    <3>3. tok[p] # t
      BY <1>2, <3>1, <3>2 DEF Present
    <3> QED
      BY <3>1, <3>3
  <2>5. CASE SameEnabled /\ (SameRefresh \/ UNCHANGED rows)
    BY <2>2, <2>5 DEF SameEnabled, SameRefresh
  <2>6. \/ SameEnabled /\ (SameRefresh \/ UNCHANGED rows)
        \/ \E u \in Tokens : DisableToken(u) /\ TableOnly
        \/ \E p \in Procs : \/ p \in Workers /\ StoreCredentials(p)
                            \/ p \in Donors /\ DonateStore(p)
    BY CustodyShapes
    DEF Quiet, OAuthRotates, OAuthRenews, Granted, Loses, Submits, Crash,
        TableOnly, Procs
  <2> QED
    BY <2>2, <2>3, <2>4, <2>5, <2>6
<1>3. ASSUME NEW w \in Workers, pc'[w] # "idle" PROVE Present(rows'[tok'[w]])
  <2>0. w \in Procs /\ tok'[w] \in Tokens
    BY <1>3 DEF Typed, PlacesOK, Procs
  <2>1. CASE \E t \in Tokens : SelectToken(w, t)
    <3>1. PICK t \in Tokens : SelectToken(w, t)
      BY <2>1
    <3>2. tok'[w] = t /\ rows[t].enabled
      BY <2>0, <3>1 DEF SelectToken, Usable, Typed, TypeOK
    <3>3. Present(rows[t])
      BY <3>2 DEF Grounded
    <3> QED
      BY <3>2, <3>3, RowsStay
  <2>2. CASE ~\E t \in Tokens : SelectToken(w, t)
    <3>1. pc[w] # "idle" /\ tok'[w] = tok[w]
      <4>1. CASE WorkerStep(w)
        BY <1>3, <2>0, <2>2, <4>1
        DEF WorkerStep, Acquire, GetToken, GetTokenFails, Return, OAuthAnswers,
            OAuthRotates, OAuthRenews, Granted, OAuthRefuses, ReplyLost, Write,
            RecordFailure, StoreCredentials, StoreFails, UpstreamAnswers,
            UpstreamRejects, ReportAuthFailure, Finish, Reset, Typed, TypeOK
      <4>2. ASSUME NEW q \in Procs \ {w}, OnlyMoves(q)
            PROVE  pc[w] # "idle" /\ tok'[w] = tok[w]
        BY <1>3, <2>0, <4>2 DEF OnlyMoves
      <4>3. ASSUME NEW v \in Workers, WorkerStep(v), v # w
            PROVE  pc[w] # "idle" /\ tok'[w] = tok[w]
        BY <4>2, <4>3, WorkerMovesAlone DEF Procs
      <4>4. ASSUME NEW d \in Donors, DonorStep(d)
            PROVE  pc[w] # "idle" /\ tok'[w] = tok[w]
        BY <4>2, <4>4, DonorMovesAlone, ProcsAssumption DEF Procs
      <4>5. CASE (\E t \in Tokens : DisableToken(t) \/ Expire(t)) \/ UNCHANGED vars
        BY <1>3, <4>5 DEF DisableToken, Expire, vars
      <4>6. ~Crash
        BY <1>3, <2>0 DEF Crash
      <4> QED
        BY <4>1, <4>3, <4>4, <4>5, <4>6 DEF Next
    <3>2. Present(rows[tok[w]])
      BY <3>1 DEF Grounded
    <3> QED
      BY <2>0, <3>1, <3>2, RowsStay
  <2> QED
    BY <2>1, <2>2
<1>4. ASSUME NEW p \in Procs, pc'[p] = "granted"
      PROVE  presented'[p] # NoCredential
  <2>1. CASE pc[p] = "granted" /\ presented'[p] = presented[p]
    BY <2>1 DEF Grounded
  <2>2. CASE OAuthRotates(p) \/ OAuthRenews(p)
    BY <2>2 DEF OAuthRotates, OAuthRenews, Granted, Issued
  <2>3. ASSUME NEW q \in Procs, LeavesClean(q)
        PROVE  pc[p] = "granted" /\ presented'[p] = presented[p]
    BY <1>4, <2>3 DEF LeavesClean, Alone, OnlyMoves
  <2>4. ASSUME NEW q \in Procs, OAuthRotates(q) \/ OAuthRenews(q), q # p
        PROVE  pc[p] = "granted" /\ presented'[p] = presented[p]
    BY <1>4, <2>4 DEF OAuthRotates, OAuthRenews, Granted, Typed, TypeOK
  <2>5. ~Crash
    BY <1>4 DEF Crash
  <2>6. CASE TableOnly
    BY <1>4, <2>6, <2>1 DEF TableOnly
  <2> QED
    BY <2>1, <2>2, <2>3, <2>4, <2>5, <2>6, Shapes
    DEF Quiet, Loses, Stores, Submits, Procs
<1> QED
  BY <1>1, <1>2, <1>3, <1>4 DEF Grounded

LEMMA GroundedAlways == Spec => []Grounded
<1>1. Init => Grounded
  <2> SUFFICES ASSUME Init PROVE Grounded
    OBVIOUS
  <2>1. issued <= MaxIssued
    BY MaxIssuedAssumption DEF Init
  <2> QED
    BY <2>1 DEF Init, Grounded, AbsentRow, Procs
<1>2. Grounded /\ Chained /\ Renewed /\ Typed' /\ [Next]_vars => Grounded'
  BY NextGrounded DEF Chained, Renewed
<1>3. Chained => Typed
  BY DEF Chained
<1> QED
  BY <1>1, <1>2, <1>3, ChainedAlways, RenewedAlways, PTL DEF Spec

-----------------------------------------------------------------------------
\* What the mapping makes of the table.
SameCustody ==
    /\ SameEnabled
    /\ \A t \in Tokens : /\ rows'[t].refresh = rows[t].refresh
                         /\ CustodyOf(t)' = CustodyOf(t)

LEMMA StuttersCustody ==
    ASSUME SameCustody
    PROVE  Custody!Next
<1>1. Donating' \in SUBSET Tokens
  BY DEF Donating
<1>2. /\ [t \in Tokens |-> rows'[t].refresh] = [t \in Tokens |-> rows[t].refresh]
      /\ [t \in Tokens |-> CustodyOf(t)'] = [t \in Tokens |-> CustodyOf(t)]
      /\ [t \in Tokens |-> rows'[t].enabled] = [t \in Tokens |-> rows[t].enabled]
  BY DEF SameCustody, SameEnabled
<1> QED
  BY <1>1, <1>2 DEF Custody!Next

\* Without a change of the server or of the contested rows, what keeps the
\* refresh tokens keeps their custody.
LEMMA TableKeepsCustody ==
    ASSUME SameRefresh, UNCHANGED <<valid, contested>>
    PROVE  \A t \in Tokens : /\ rows'[t].refresh = rows[t].refresh
                             /\ CustodyOf(t)' = CustodyOf(t)
  BY DEF SameRefresh, CustodyOf

\* A step that changes the custody of one row and nothing else.
LEMMA OneCustody ==
    ASSUME SameEnabled, \A u \in Tokens : rows'[u].refresh = rows[u].refresh,
           NEW t \in Tokens,
           \A u \in Tokens \ {t} : CustodyOf(u)' = CustodyOf(u),
           \/ CustodyOf(t)' = CustodyOf(t)
           \/ CustodyOf(t) = "kept" /\ CustodyOf(t)' = "lent"
           \/ CustodyOf(t) = "lent" /\ CustodyOf(t)' = "disputed"
           \/ t \in Donating /\ CustodyOf(t)' = "disputed"
    PROVE  Custody!Next
<1> DEFINE custody == [u \in Tokens |-> CustodyOf(u)]
           after == [u \in Tokens |-> CustodyOf(u)']
<1>1. Donating' \in SUBSET Tokens
  BY DEF Donating
<1>2. /\ [u \in Tokens |-> rows'[u].refresh] = [u \in Tokens |-> rows[u].refresh]
      /\ [u \in Tokens |-> rows'[u].enabled] = [u \in Tokens |-> rows[u].enabled]
  BY DEF SameEnabled
<1>3. custody[t] = CustodyOf(t)
  OBVIOUS
<1>4. after = [custody EXCEPT ![t] = CustodyOf(t)']
  OBVIOUS
<1>5. CASE CustodyOf(t)' = CustodyOf(t)
  BY <1>5, StuttersCustody DEF SameCustody
<1>6. CASE CustodyOf(t) = "kept" /\ CustodyOf(t)' = "lent"
  <2>1. Custody!Lend(t)
    BY <1>2, <1>3, <1>4, <1>6 DEF Custody!Lend
  <2> QED
    BY <1>1, <2>1 DEF Custody!Next
<1>7. CASE CustodyOf(t) = "lent" /\ CustodyOf(t)' = "disputed"
  <2>1. Custody!Lose(t)
    BY <1>2, <1>3, <1>4, <1>7 DEF Custody!Lose
  <2> QED
    BY <1>1, <2>1 DEF Custody!Next
<1>8. CASE t \in Donating /\ CustodyOf(t)' = "disputed"
  <2>1. Custody!Dispute(t)
    BY <1>2, <1>4, <1>8 DEF Custody!Dispute
  <2> QED
    BY <1>1, <2>1 DEF Custody!Next
<1> QED
  BY <1>5, <1>6, <1>7, <1>8

\* What holds whenever a step is taken.
Custodial == Chained /\ Newer /\ Grounded

\* The refresh token of a row is one that was issued, and no other row has it.
LEMMA RowCredential ==
    ASSUME Custodial, NEW t \in Tokens
    PROVE  /\ rows[t].refresh \in Nat /\ rows[t].refresh <= issued /\ issued \in Nat
           /\ rows[t].refresh # NoCredential => Has(t, rows[t].refresh)
<1>1. rows[t].refresh \in Nat /\ issued \in Nat
  BY DEF Custodial, Chained, Typed, TypeOK, RowType, Credentials
<1>2. rows[t].refresh # NoCredential => Has(t, rows[t].refresh)
  BY DEF Has
<1>3. rows[t].refresh # NoCredential => rows[t].refresh <= issued
  BY <1>1, <1>2 DEF Custodial, Chained, Issued, Credentials
<1> QED
  BY <1>1, <1>2, <1>3 DEF NoCredential

LEMMA QuietCustody ==
    ASSUME SameEnabled, NEW p \in Procs, Quiet(p)
    PROVE  Custody!Next
  BY TableKeepsCustody, StuttersCustody DEF Quiet, SameCustody

LEMMA SubmitCustody ==
    ASSUME Custodial, SameEnabled,
           NEW d \in Donors, NEW t \in Tokens, NEW c \in Credentials,
           Submits(d, t, c)
    PROVE  Custody!Next
<1>1. UNCHANGED <<rows, contested>>
      /\ (valid' = valid \/ (c = issued + 1 /\ valid' = valid \cup {c}))
  BY DEF Submits
<1>2. ASSUME NEW u \in Tokens
      PROVE  rows'[u].refresh = rows[u].refresh /\ CustodyOf(u)' = CustodyOf(u)
  <2>1. rows[u].refresh # issued + 1
    BY RowCredential
  <2>2. rows[u].refresh \in valid' <=> rows[u].refresh \in valid
    BY <1>1, <2>1
  <2> QED
    BY <1>1, <2>2 DEF CustodyOf
<1> QED
  BY <1>2, StuttersCustody DEF SameCustody

\* Who presents the refresh token of a row works on it.
LEMMA PresentedApart ==
    ASSUME Custodial, NEW p \in Procs, pc[p] # "idle",
           presented[p] # NoCredential, NEW u \in Tokens \ {tok[p]}
    PROVE  rows[u].refresh # presented[p]
<1>1. tok[p] \in Tokens /\ presented[p] \in Credentials
  BY ProcFacts DEF Custodial, Chained, Credentials
<1>2. Has(tok[p], presented[p])
  BY <1>1 DEF Has
<1>3. rows[u].refresh = presented[p] => Has(u, presented[p])
  BY DEF Has
<1> QED
  BY <1>1, <1>2, <1>3 DEF Custodial, Chained, Apart

LEMMA GrantCustody ==
    ASSUME Custodial, SameEnabled, NEW p \in Procs,
           OAuthRotates(p) \/ OAuthRenews(p)
    PROVE  Custody!Next
<1>0. tok[p] \in Tokens
  BY ProcFacts DEF Custodial, Chained, OAuthRotates, OAuthRenews, Granted
<1> PICK t \in Tokens : t = tok[p]
  BY <1>0
<1>1. /\ pc[p] = "refresh" /\ presented[p] # NoCredential
      /\ UNCHANGED rows
      /\ contested' = IF SharedWithDonor(p) THEN contested \cup {t} ELSE contested
      /\ \/ valid' = (valid \ {presented[p]}) \cup {issued + 1}
         \/ UNCHANGED valid
      /\ presented[p] \in valid
  <2>1. pc[p] = "refresh" /\ presented[p] \in valid
    BY DEF OAuthRotates, OAuthRenews, Granted
  <2>2. presented[p] # NoCredential
    BY <2>1 DEF Custodial, Chained, Issued
  <2> QED
    BY <2>1, <2>2 DEF OAuthRotates, OAuthRenews, Granted
<1>2. ASSUME NEW u \in Tokens PROVE rows[u].refresh # issued + 1
  BY RowCredential
<1>3. ASSUME NEW u \in Tokens \ {t} PROVE CustodyOf(u)' = CustodyOf(u)
  <2>1. rows[u].refresh # presented[p]
    BY <1>1, PresentedApart
  <2>2. rows[u].refresh \in valid' <=> rows[u].refresh \in valid
    BY <1>1, <1>2, <2>1
  <2>3. u \in contested' <=> u \in contested
    BY <1>1
  <2> QED
    BY <1>1, <2>2, <2>3 DEF CustodyOf
<1>4. CASE SharedWithDonor(p)
  <2>1. t \in Donating
    <3>1. PICK q \in Refreshing(t) \ {p} : {p, q} \cap Donors # {}
      BY <1>4 DEF SharedWithDonor
    <3>2. tok[q] = t /\ pc[q] \in {"refresh", "granted"}
      BY <3>1 DEF Refreshing
    <3> QED
      BY <1>1, <3>1, <3>2 DEF Donating
  <2>2. CustodyOf(t)' = "disputed"
    BY <1>1, <1>4 DEF CustodyOf
  <2> QED
    BY <1>1, <1>3, <2>1, <2>2, OneCustody
<1>5. CASE ~SharedWithDonor(p)
  <2>1. UNCHANGED <<rows, contested>>
    BY <1>1, <1>5
  <2>2. rows[t].refresh \in valid' => rows[t].refresh \in valid
    BY <1>1, <1>2
  <2>3. \/ CustodyOf(t)' = CustodyOf(t)
        \/ CustodyOf(t) = "kept" /\ CustodyOf(t)' = "lent"
    BY <2>1, <2>2 DEF CustodyOf
  <2> QED
    BY <1>1, <1>3, <2>1, <2>3, OneCustody
<1> QED
  BY <1>4, <1>5

\* What a request drops was lent to it.
LEMMA DroppedWasLent ==
    ASSUME Custodial, NEW p \in Procs, NEW t \in DroppedBy(p)
    PROVE  /\ t = tok[p] /\ t \in Tokens
           /\ t \notin contested => CustodyOf(t) = "lent"
<1>1. /\ t \in Tokens /\ tok[p] = t /\ pc[p] = "granted"
      /\ rows[t].refresh = presented[p] /\ presented[p] \notin valid
  BY DEF DroppedBy
<1>2. Present(rows[t])
  BY <1>1 DEF Custodial, Grounded
<1> QED
  BY <1>1, <1>2 DEF CustodyOf

LEMMA LoseCustody ==
    ASSUME Custodial, SameEnabled, NEW p \in Procs, Loses(p)
    PROVE  Custody!Next
<1>1. /\ UNCHANGED <<rows, valid>> /\ contested' = contested \cup DroppedBy(p)
      /\ pc[p] = "granted"
  BY DEF Loses
<1>2. tok[p] \in Tokens
  BY <1>1, ProcFacts DEF Custodial, Chained
<1> PICK t \in Tokens : t = tok[p]
  BY <1>2
<1>3. \A u \in Tokens \ {t} : CustodyOf(u)' = CustodyOf(u)
  BY <1>1, DroppedWasLent DEF CustodyOf
<1>4. \/ CustodyOf(t)' = CustodyOf(t)
      \/ CustodyOf(t) = "lent" /\ CustodyOf(t)' = "disputed"
  <2>1. CASE t \in DroppedBy(p) /\ t \notin contested
    BY <1>1, <2>1, DroppedWasLent DEF CustodyOf
  <2>2. CASE ~(t \in DroppedBy(p) /\ t \notin contested)
    <3>1. t \in contested' <=> t \in contested
      BY <1>1, <2>2
    <3> QED
      BY <1>1, <3>1 DEF CustodyOf
  <2> QED
    BY <2>1, <2>2
<1> QED
  BY <1>1, <1>3, <1>4, OneCustody

\* At a crash, what is lent is what is dropped.
LEMMA CrashCustody ==
    ASSUME Custodial, Crash
    PROVE  Custody!Next
<1>1. /\ UNCHANGED <<rows, valid>>
      /\ contested' = contested \cup UNION {DroppedBy(p) : p \in Procs}
  BY DEF Crash, serverVars
<1>2. ASSUME NEW t \in Tokens
      PROVE  CustodyOf(t)' = IF CustodyOf(t) = "lent" THEN "disputed"
                                                      ELSE CustodyOf(t)
  <2>1. CASE CustodyOf(t) = "lent"
    <3>1. t \notin contested /\ Present(rows[t]) /\ rows[t].refresh \notin valid
      BY <2>1 DEF CustodyOf
    <3>2. PICK p \in Procs : /\ pc[p] = "granted" /\ tok[p] = t
                             /\ presented[p] = rows[t].refresh
      BY <3>1 DEF Custodial, Chained, StoredCredentialLive
    <3>3. t \in DroppedBy(p)
      BY <3>1, <3>2 DEF DroppedBy
    <3>4. t \in contested'
      BY <1>1, <3>3
    <3> QED
      BY <2>1, <3>4 DEF CustodyOf
  <2>2. CASE CustodyOf(t) # "lent"
    <3>1. t \in contested' <=> t \in contested
      BY <1>1, <2>2, DroppedWasLent
    <3> QED
      BY <1>1, <2>2, <3>1 DEF CustodyOf
  <2> QED
    BY <2>1, <2>2
<1>3. Donating' \in SUBSET Tokens
  BY DEF Donating
<1>4. Custody!LoseAll
  BY <1>1, <1>2 DEF Custody!LoseAll
<1> QED
  BY <1>3, <1>4 DEF Custody!Next

LEMMA DisableCustody ==
    ASSUME Custodial, NEW t \in Tokens, DisableToken(t), TableOnly
    PROVE  Custody!Next
<1>1. rows[t] \in RowType /\ rows \in [Tokens -> RowType]
  BY DEF Custodial, Chained, Typed, TypeOK
<1>2. /\ rows'[t].enabled = FALSE
      /\ \A u \in Tokens \ {t} : rows'[u].enabled = rows[u].enabled
  BY <1>1 DEF DisableToken, Disabled, RowType
<1>3. \A u \in Tokens : /\ rows'[u].refresh = rows[u].refresh
                        /\ CustodyOf(u)' = CustodyOf(u)
  BY TableKeepsCustody DEF TableOnly
<1>4. CustodyOf(t) # "none"
  BY DEF DisableToken, CustodyOf
<1>5. Donating' \in SUBSET Tokens
  BY DEF Donating
<1>6. Custody!Disable(t)
  BY <1>2, <1>3, <1>4 DEF Custody!Disable
<1> QED
  BY <1>5, <1>6 DEF Custody!Next

\* What a store writes is another refresh token than any other row has, and than
\* the spent one.
LEMMA StoreWrites ==
    ASSUME Custodial, Custodial', NEW p \in Procs, Stores(p),
           \/ p \in Workers /\ StoreCredentials(p)
           \/ p \in Donors /\ DonateStore(p),
           NEW t, t = tok[p], NEW c, c = reply[p].refresh
    PROVE  /\ t \in Tokens /\ c \in 1 .. MaxIssued
           /\ Custody!Written(t, c)
           /\ \A u \in Tokens \ {t} : rows'[u] = rows[u] /\ CustodyOf(u)' = CustodyOf(u)
           /\ CustodyOf(t)' = IF t \in contested' THEN "disputed" ELSE "kept"
<1>1. /\ pc[p] = "granted" /\ t \in Tokens
      /\ rows'[t].access = reply[p].access
      /\ \A u \in Tokens \ {t} : rows'[u] = rows[u]
  BY StoredRow DEF Custodial, Chained
<1>2. /\ rows'[t].refresh = c /\ UNCHANGED valid
      /\ \/ UNCHANGED contested
         \/ contested' = contested \ {t} /\ c \in valid
  BY DEF Stores
<1>3. c # NoCredential
  BY <1>1 DEF Custodial, Chained, GrantUnshared, Grounded
<1>4. Present(rows'[t])
  <2>1. reply[p].access # NoCredential
    BY <1>1, ProcFacts DEF Custodial, Chained, Newer, NoCredential
  <2> QED
    BY <1>1, <2>1 DEF Present
<1>5. c \in 1 .. MaxIssued
  <2>1. c \in Credentials
    BY ProcFacts DEF Custodial, Chained, Credentials
  <2>2. Has(t, c)'
    BY <1>1, <1>2, <1>3 DEF Has
  <2>3. c \in Nat /\ c <= issued' /\ issued' \in Nat
    BY <1>1, <2>1, <2>2 DEF Custodial, Chained, Issued, Typed, TypeOK, Credentials
  <2>4. issued' <= MaxIssued
    BY DEF Custodial, Grounded
  <2> QED
    BY <1>3, <2>3, <2>4, MaxIssuedAssumption DEF NoCredential
<1>6. ASSUME NEW u \in Tokens \ {t} PROVE rows[u].refresh # c
  <2>1. c \in Credentials
    BY <1>5 DEF Credentials
  <2>2. Has(t, c)
    BY <1>1, <1>3 DEF Has
  <2>3. rows[u].refresh = c => Has(u, c)
    BY <1>3 DEF Has
  <2> QED
    BY <1>1, <2>1, <2>2, <2>3 DEF Custodial, Chained, Apart
<1>7. t \notin contested => c \in valid
  BY <1>1 DEF Custodial, Chained, GrantLive
<1>8. CustodyOf(t) = "lent" => c # rows[t].refresh
  BY <1>7 DEF CustodyOf
<1>9. \A u \in Tokens \ {t} : CustodyOf(u)' = CustodyOf(u)
  BY <1>1, <1>2 DEF CustodyOf
<1>10. CustodyOf(t)' = IF t \in contested' THEN "disputed" ELSE "kept"
  <2>1. t \notin contested' => c \in valid'
    BY <1>2, <1>7
  <2> QED
    BY <1>2, <1>4, <2>1 DEF CustodyOf
<1>11. Custody!Written(t, c)
  <2> DEFINE credential == [u \in Tokens |-> rows[u].refresh]
  <2>1. [u \in Tokens |-> rows'[u].refresh] = [credential EXCEPT ![t] = c]
    BY <1>1, <1>2
  <2> QED
    BY <1>1, <1>6, <1>8, <2>1 DEF Custody!Written
<1> QED
  BY <1>1, <1>5, <1>9, <1>10, <1>11

LEMMA RefreshCustody ==
    ASSUME Custodial, Custodial', SameEnabled,
           NEW w \in Workers, StoreCredentials(w), Stores(w)
    PROVE  Custody!Next
<1> PICK t : t = tok[w]
  OBVIOUS
<1> PICK c : c = reply[w].refresh
  OBVIOUS
<1> DEFINE custody == [u \in Tokens |-> CustodyOf(u)]
<1>1. w \in Procs
  BY DEF Procs
<1>2. /\ t \in Tokens /\ c \in 1 .. MaxIssued /\ Custody!Written(t, c)
      /\ \A u \in Tokens \ {t} : CustodyOf(u)' = CustodyOf(u)
      /\ CustodyOf(t)' = IF t \in contested' THEN "disputed" ELSE "kept"
  BY <1>1, StoreWrites
<1>3. UNCHANGED contested /\ pc[w] # "idle"
  BY DEF StoreCredentials
<1>4. Present(rows[t])
  BY <1>3 DEF Custodial, Grounded
<1>5. CustodyOf(t) # "none"
  BY <1>4 DEF CustodyOf
<1>6. CustodyOf(t)' = IF CustodyOf(t) = "disputed" THEN CustodyOf(t) ELSE "kept"
  BY <1>2, <1>3 DEF CustodyOf
<1>7. [u \in Tokens |-> CustodyOf(u)']
        = [custody EXCEPT ![t] = IF @ = "disputed" THEN @ ELSE "kept"]
  BY <1>2, <1>6
<1>8. [u \in Tokens |-> rows'[u].enabled] = [u \in Tokens |-> rows[u].enabled]
  BY DEF SameEnabled
<1>9. Donating' \in SUBSET Tokens
  BY DEF Donating
<1>10. Custody!Refresh(t, c)
  BY <1>2, <1>5, <1>7, <1>8 DEF Custody!Refresh
<1> QED
  BY <1>2, <1>9, <1>10 DEF Custody!Next

LEMMA DonateCustody ==
    ASSUME Custodial, Custodial', NEW d \in Donors, DonateStore(d), Stores(d)
    PROVE  Custody!Next
<1> PICK t : t = tok[d]
  OBVIOUS
<1> PICK c : c = reply[d].refresh
  OBVIOUS
<1> DEFINE custody == [u \in Tokens |-> CustodyOf(u)]
           enabled == [u \in Tokens |-> rows[u].enabled]
<1>1. d \in Procs
  BY DEF Procs
<1>2. /\ t \in Tokens /\ c \in 1 .. MaxIssued /\ Custody!Written(t, c)
      /\ \A u \in Tokens \ {t} : rows'[u] = rows[u] /\ CustodyOf(u)' = CustodyOf(u)
      /\ CustodyOf(t)' = IF t \in contested' THEN "disputed" ELSE "kept"
  BY <1>1, StoreWrites
<1>3. t \in Donating
  BY <1>2 DEF DonateStore, Donating
<1>4. rows'[t].enabled = TRUE
  <2>1. rows[t] \in RowType /\ rows \in [Tokens -> RowType]
    BY <1>2 DEF Custodial, Chained, Typed, TypeOK
  <2>2. Donated(WithReply(rows[t], reply[d])).enabled = TRUE
    BY <2>1 DEF Donated, HealthRestored, WithReply, RowType
  <2> QED
    BY <1>2, <2>1, <2>2 DEF DonateStore
<1>5. [u \in Tokens |-> rows'[u].enabled] = [enabled EXCEPT ![t] = TRUE]
  BY <1>2, <1>4
<1>6. \/ [u \in Tokens |-> CustodyOf(u)'] = [custody EXCEPT ![t] = "kept"]
      \/ /\ custody[t] = "disputed"
         /\ [u \in Tokens |-> CustodyOf(u)'] = custody
  <2>1. CASE t \in contested'
    <3>1. t \in contested
      BY <2>1 DEF DonateStore
    <3>2. CustodyOf(t) = "disputed" /\ CustodyOf(t)' = "disputed"
      BY <1>2, <2>1, <3>1 DEF CustodyOf
    <3> QED
      BY <1>2, <3>2
  <2>2. CASE t \notin contested'
    BY <1>2, <2>2
  <2> QED
    BY <2>1, <2>2
<1>7. Donating' \in SUBSET Tokens
  BY DEF Donating
<1>8. Custody!Donate(t, c)
  BY <1>2, <1>3, <1>5, <1>6 DEF Custody!Donate
<1> QED
  BY <1>2, <1>7, <1>8 DEF Custody!Next

LEMMA StepCustody ==
    ASSUME Custodial, Custodial', [Next]_vars
    PROVE  Custody!Next
<1>1. Typed /\ Clean
  BY DEF Custodial, Chained
<1>2. CASE SameEnabled /\ TableOnly
  BY <1>2, TableKeepsCustody, StuttersCustody DEF TableOnly, SameCustody
<1> QED
  BY <1>1, <1>2, CustodyShapes, QuietCustody, GrantCustody, LoseCustody,
     SubmitCustody, CrashCustody, DisableCustody, RefreshCustody, DonateCustody

\* The manager implements the custody of credentials: a refresh token that was
\* spent is replaced or lost with the one request that spent it, no step touches
\* the custody of another row, and only donations settle disputes and put rows
\* back into rotation.
THEOREM ManagerKeepsCustody == Spec => CustodySpec
<1>1. Init => Custody!Init
  <2> SUFFICES ASSUME Init PROVE Custody!Init
    OBVIOUS
  <2>1. \A t \in Tokens : /\ rows[t].refresh = NoCredential
                          /\ rows[t].enabled = FALSE
                          /\ CustodyOf(t) = "none"
    BY DEF Init, AbsentRow, CustodyOf, Present
  <2>2. Donating = {}
    BY DEF Init, Donating, Procs
  <2> QED
    BY <2>1, <2>2 DEF Custody!Init
<1>2. Custodial /\ Custodial' /\ [Next]_vars => [Custody!Next]_(Custody!vars)
  BY StepCustody
<1>3. Chained /\ Renewed /\ Grounded => Custodial
  BY DEF Custodial, Renewed
<1> QED
  BY <1>1, <1>2, <1>3, ChainedAlways, RenewedAlways, GroundedAlways, PTL
  DEF Spec, CustodySpec, Custody!Spec

=============================================================================
