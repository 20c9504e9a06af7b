------------------------- MODULE CallUpstreamProofs -------------------------
(***************************************************************************)
(* Theorems about CallUpstream, for any pool, any accounts, any number of  *)
(* requests, any threshold and any limits.                                 *)
(***************************************************************************)
EXTENDS CallUpstream, TLAPS

Places == {"borrow", "scan"} \cup WithToken \cup Ended

\* What a step of r may do to the places and the locals: those of the other
\* requests stay, its own keep their type, and it has a token where it
\* should.
Moved(r) ==
    /\ \E place \in Places, locals \in CallType :
          /\ pc' = [pc EXCEPT ![r] = place]
          /\ call' = [call EXCEPT ![r] = locals]
          /\ place \in WithToken <=> locals.tok \in Tokens
          /\ locals.limitedBy # None => place \notin {"unavailable", "limits"}

\* A step that neither takes nor gives back a row lock.
LocksStay(r) ==
    /\ rowLock' = rowLock
    /\ pc[r] # "chosen" /\ pc'[r] # "chosen"

\* A limit goes only with an accepted request of the account.
LiftsLimits ==
    \A t \in Tokens :
        Limited(rows[t], clock) /\ rows'[t].until = 0 =>
            \E r \in Requests : pc[r] = "accepted" /\ Tok(r) \in Siblings(t)

RowsKept == rows' \in [Tokens -> RowType] /\ LiftsLimits

IInv == TypeOK /\ RowLockHolder /\ Kept429Returned

-----------------------------------------------------------------------------
LEMMA InitInv == Init => IInv
  <1> SUFFICES ASSUME Init PROVE IInv
    OBVIOUS
  <1> USE NumberAssumption, AccountAssumption, NoneAssumption
  <1>1. rows \in [Tokens -> RowType]
    BY DEF Init, RowType
  <1>2. lru \subseteq Tokens \X Tokens
    BY DEF Init
  <1>3. NewCall \in CallType /\ NewCall.tok = None /\ NewCall.limitedBy = None
    BY DEF NewCall, CallType
  <1>4. TypeOK
    BY <1>1, <1>2, <1>3 DEF Init, TypeOK, Tok, WithToken
  <1>5. RowLockHolder
    BY DEF Init, RowLockHolder
  <1>6. Kept429Returned
    BY DEF Init, Kept429Returned
  <1> QED
    BY <1>4, <1>5, <1>6 DEF IInv

\* A step of a request that does not touch a row lock.
LEMMA StepKeeps ==
  ASSUME IInv, NEW r \in Requests, Moved(r), LocksStay(r), RowsKept,
         clock' = clock, lru' = lru
  PROVE  IInv'
  <1> USE DEF IInv
  <1>1. PICK place \in Places, locals \in CallType :
          /\ pc' = [pc EXCEPT ![r] = place]
          /\ call' = [call EXCEPT ![r] = locals]
          /\ place \in WithToken <=> locals.tok \in Tokens
          /\ locals.limitedBy # None => place \notin {"unavailable", "limits"}
    BY DEF Moved
  <1>2. TypeOK'
    BY <1>1 DEF TypeOK, LocksStay, RowsKept, Tok, Places
  <1>3. RowLockHolder'
    BY <1>1 DEF TypeOK, RowLockHolder, LocksStay, Tok
  <1>4. Kept429Returned'
    BY <1>1 DEF TypeOK, Kept429Returned
  <1> QED
    BY <1>2, <1>3, <1>4

-----------------------------------------------------------------------------
\* The ways in which a step moves a request on.
LEMMA EndMoves ==
  ASSUME TypeOK, NEW r \in Requests, NEW how \in Ended, End(r, how),
         call[r].limitedBy # None => how \notin {"unavailable", "limits"}
  PROVE  Moved(r) /\ pc'[r] # "chosen"
  <1> DEFINE locals == [NewCall EXCEPT !.limitedBy = call[r].limitedBy]
  <1>1. locals \in CallType /\ locals.tok = None
        /\ locals.limitedBy = call[r].limitedBy
    BY NumberAssumption DEF TypeOK, NewCall, CallType
  <1>2. how \notin WithToken /\ how # "chosen"
    BY DEF Ended, WithToken
  <1> HIDE DEF locals
  <1>3. pc' = [pc EXCEPT ![r] = how] /\ call' = [call EXCEPT ![r] = locals]
    BY DEF End, locals
  <1>4. Moved(r)
    BY <1>1, <1>2, <1>3, NoneAssumption DEF Moved, Places
  <1> QED
    BY <1>2, <1>3, <1>4 DEF TypeOK

LEMMA EndWithoutTokenMoves ==
  ASSUME TypeOK, NEW r \in Requests, NEW otherwise \in Ended,
         EndWithoutToken(r, otherwise)
  PROVE  Moved(r) /\ pc'[r] # "chosen"
  <1> DEFINE how == IF call[r].limitedBy # None THEN "relayed" ELSE otherwise
  <1>1. how \in Ended
    BY DEF Ended
  <1>2. call[r].limitedBy # None => how \notin {"unavailable", "limits"}
    OBVIOUS
  <1>3. End(r, how)
    BY DEF EndWithoutToken
  <1> HIDE DEF how
  <1> QED
    BY <1>1, <1>2, <1>3, EndMoves

LEMMA GotoMoves ==
  ASSUME IInv, NEW r \in Requests, NEW place \in WithToken,
         pc[r] \in WithToken, place # "chosen", Goto(r, place)
  PROVE  Moved(r) /\ pc'[r] # "chosen"
  <1>1. /\ call[r] \in CallType /\ call' = [call EXCEPT ![r] = call[r]]
        /\ pc' = [pc EXCEPT ![r] = place]
        /\ call[r].tok \in Tokens
    BY DEF IInv, TypeOK, Goto, Tok
  <1>2. place \notin {"unavailable", "limits"}
    BY DEF WithToken
  <1> QED
    BY <1>1, <1>2 DEF Moved, Places, IInv, TypeOK

LEMMA TakeMoves ==
  ASSUME IInv, NEW r \in Requests, pc[r] \in WithToken, Take(r)
  PROVE  Moved(r) /\ pc'[r] # "chosen"
  <1>1. CASE Tok(r) \in call[r].attempted
    <2>1. EndWithoutToken(r, "unavailable")
      BY <1>1 DEF Take
    <2> QED
      BY <2>1, EndWithoutTokenMoves DEF IInv, Ended
  <1>2. CASE Tok(r) \notin call[r].attempted
    <2> DEFINE locals == [call[r] EXCEPT !.attempted = @ \cup {Tok(r)}]
    <2>1. Tok(r) \in Tokens
      BY DEF IInv, TypeOK
    <2>2. locals \in CallType /\ locals.tok \in Tokens
      BY <2>1 DEF IInv, TypeOK, CallType, Tok
    <2>3. call' = [call EXCEPT ![r] = locals] /\ pc' = [pc EXCEPT ![r] = "send"]
      BY <1>2 DEF Take, GoSend, IInv, TypeOK
    <2>4. "send" \in WithToken /\ "send" \in Places /\ pc'[r] = "send"
      BY <2>3 DEF Places, WithToken, IInv, TypeOK
    <2> HIDE DEF locals
    <2> QED
      BY <2>2, <2>3, <2>4 DEF Moved
  <1> QED
    BY <1>1, <1>2

LEMMA NextTokenMoves ==
  ASSUME IInv, NEW r \in Requests, NextToken(r)
  PROVE  Moved(r) /\ pc'[r] # "chosen"
  <1> DEFINE locals == [call[r] EXCEPT !.tok = None]
  <1>1. locals \in CallType /\ locals.tok = None
    BY DEF IInv, TypeOK, CallType
  <1>2. call' = [call EXCEPT ![r] = locals] /\ pc' = [pc EXCEPT ![r] = "borrow"]
    BY DEF NextToken, IInv, TypeOK
  <1> HIDE DEF locals
  <1> QED
    BY <1>1, <1>2, NoneAssumption DEF Moved, Places, WithToken, IInv, TypeOK

-----------------------------------------------------------------------------
\* What the statements about one row leave as it is.
LEMMA RowsUntouched ==
  ASSUME TypeOK, rows' = rows PROVE RowsKept
  BY NumberAssumption DEF TypeOK, RowsKept, LiftsLimits, Limited, RowType

LEMMA OneRowKept ==
  ASSUME TypeOK, NEW t \in Tokens, NEW row \in RowType,
         row.until = rows[t].until, rows' = [rows EXCEPT ![t] = row]
  PROVE  RowsKept
  <1>1. rows' \in [Tokens -> RowType]
    BY DEF TypeOK
  <1>2. \A u \in Tokens : rows'[u].until = rows[u].until /\ rows[u].until \in Nat
    BY DEF TypeOK, RowType
  <1>3. clock \in Nat
    BY NumberAssumption DEF TypeOK
  <1> QED
    BY <1>1, <1>2, <1>3 DEF RowsKept, LiftsLimits, Limited

LEMMA MayWriteKeeps ==
  ASSUME TypeOK, NEW t \in Tokens, NEW row \in RowType,
         row.until = rows[t].until, MayWrite(t, row)
  PROVE  RowsKept
  BY RowsUntouched, OneRowKept DEF MayWrite

LEMMA HealthKept ==
  ASSUME NEW row \in RowType
  PROVE  /\ HealthRestored(row) \in RowType
         /\ HealthRestored(row).until = row.until
         /\ FailureRecorded(row, Threshold) \in RowType
         /\ FailureRecorded(row, Threshold).until = row.until
         /\ Disabled(row) \in RowType
         /\ Disabled(row).until = row.until
  <1>1. /\ HealthRestored(row) \in RowType
        /\ HealthRestored(row).until = row.until
    BY DEF RowType, HealthRestored
  <1>2. /\ FailureRecorded(row, Threshold) \in RowType
        /\ FailureRecorded(row, Threshold).until = row.until
    <2> DEFINE lasts == row.healthy /\ row.failures + 1 < Threshold
    <2>1. lasts \in BOOLEAN /\ row.failures + 1 \in Nat
      BY DEF RowType
    <2>2. FailureRecorded(row, Threshold)
            = [row EXCEPT !.failures = row.failures + 1, !.healthy = lasts]
      BY DEF RowType, FailureRecorded
    <2> HIDE DEF lasts
    <2> QED
      BY <2>1, <2>2 DEF RowType
  <1>3. Disabled(row) \in RowType /\ Disabled(row).until = row.until
    BY DEF RowType, Disabled
  <1> QED
    BY <1>1, <1>2, <1>3

LEMMA DonationKept ==
  ASSUME NEW row \in RowType, NEW a \in Accounts
  PROVE  LET donated == [Donated(row) EXCEPT !.account = a] IN
         donated \in RowType /\ donated.until = row.until
  BY DEF RowType, Donated, HealthRestored

-----------------------------------------------------------------------------
\* The selection of a token.
LEMMA SnapshotKeeps ==
  ASSUME IInv, NEW r \in Requests, SelectSnapshot(r) PROVE IInv' /\ LiftsLimits
  <1> DEFINE cand == {t \in Tokens : Selectable(t, clock)}
             locals == [call[r] EXCEPT !.began = clock, !.cand = cand,
                                       !.order = lru \cap (cand \X cand)]
  <1>1. locals \in CallType /\ locals.tok \notin Tokens
    <2>1. call[r] \in CallType /\ call[r].tok \notin Tokens
      BY DEF SelectSnapshot, IInv, TypeOK, Tok, WithToken
    <2>2. clock \in 0 .. MaxClock /\ cand \in SUBSET Tokens
          /\ lru \cap (cand \X cand) \in SUBSET (Tokens \X Tokens)
      BY NumberAssumption DEF IInv, TypeOK
    <2> HIDE DEF cand
    <2> QED
      BY <2>1, <2>2 DEF CallType
  <1>2. pc' = [pc EXCEPT ![r] = "scan"] /\ call' = [call EXCEPT ![r] = locals]
    BY DEF SelectSnapshot, IInv, TypeOK
  <1>3. pc[r] = "borrow" /\ pc'[r] = "scan" /\ LocksStay(r)
    BY <1>2 DEF SelectSnapshot, LocksStay, IInv, TypeOK
  <1> HIDE DEF locals
  <1>4. Moved(r)
    <2>1. "scan" \in Places /\ "scan" \notin WithToken
      BY DEF Places, WithToken
    <2> QED
      BY <1>1, <1>2, <2>1 DEF Moved
  <1>5. RowsKept /\ clock' = clock /\ lru' = lru
    BY RowsUntouched DEF SelectSnapshot, IInv
  <1> QED
    BY <1>3, <1>4, <1>5, StepKeeps DEF RowsKept

LEMMA LockKeeps ==
  ASSUME IInv, NEW r \in Requests, SelectLock(r) PROVE IInv' /\ LiftsLimits
  <1>1. PICK t \in call[r].cand : Lockable(t) /\ LockRow(r, t)
    BY DEF SelectLock
  <1> DEFINE locals == [call[r] EXCEPT !.tok = t, !.cand = {}, !.order = {}]
  <1>2. t \in Tokens /\ rowLock[t] = None /\ call[r] \in CallType
    BY <1>1 DEF Lockable, IInv, TypeOK, CallType
  <1>3. locals \in CallType /\ locals.tok = t
        /\ locals.limitedBy = call[r].limitedBy
    BY <1>2 DEF CallType
  <1>4. /\ pc[r] = "scan" /\ pc' = [pc EXCEPT ![r] = "chosen"]
        /\ call' = [call EXCEPT ![r] = locals]
        /\ rowLock' = [rowLock EXCEPT ![t] = r]
        /\ UNCHANGED <<clock, rows, lru>>
    BY <1>1 DEF LockRow, IInv, TypeOK
  <1> HIDE DEF locals
  <1>5. RowsKept
    BY <1>4, RowsUntouched DEF IInv
  <1>6. TypeOK'
    BY <1>2, <1>3, <1>4 DEF IInv, TypeOK, Tok, WithToken
  <1>7. RowLockHolder'
    BY <1>2, <1>3, <1>4, NoneAssumption DEF IInv, TypeOK, RowLockHolder, Tok
  <1>8. Kept429Returned'
    BY <1>3, <1>4 DEF IInv, TypeOK, Kept429Returned
  <1> QED
    BY <1>5, <1>6, <1>7, <1>8 DEF IInv, RowsKept

LEMMA CommitKeeps ==
  ASSUME IInv, NEW r \in Requests, SelectCommit(r) PROVE IInv' /\ LiftsLimits
  <1> DEFINE t == Tok(r)
             locals == [call[r] EXCEPT !.began = 0]
             row == [rows[t] EXCEPT !.lastUsed = call[r].began]
  <1>1. t \in Tokens /\ call[r] \in CallType /\ rowLock[t] = r
    BY DEF SelectCommit, IInv, TypeOK, RowLockHolder, WithToken
  <1>2. locals \in CallType /\ locals.tok = t
        /\ locals.limitedBy = call[r].limitedBy
    BY <1>1, NumberAssumption DEF CallType, Tok
  <1>3. row \in RowType /\ row.until = rows[t].until
    BY <1>1 DEF IInv, TypeOK, RowType, CallType
  <1>4. rows' = [rows EXCEPT ![t] = row] /\ clock' = clock
    BY <1>1 DEF SelectCommit, IInv, TypeOK
  <1>5. /\ pc[r] = "chosen" /\ pc' = [pc EXCEPT ![r] = "borrowed"]
        /\ call' = [call EXCEPT ![r] = locals]
        /\ rowLock' = [rowLock EXCEPT ![t] = None]
    BY DEF SelectCommit, IInv, TypeOK
  <1>6. lru' \subseteq Tokens \X Tokens
    BY <1>1 DEF SelectCommit, IInv, TypeOK
  <1> HIDE DEF locals, row
  <1>7. RowsKept
    BY <1>1, <1>3, <1>4, OneRowKept DEF IInv
  <1>8. TypeOK'
    BY <1>1, <1>2, <1>4, <1>5, <1>6, <1>7 DEF IInv, TypeOK, Tok, WithToken, RowsKept
  <1>9. RowLockHolder'
    BY <1>1, <1>2, <1>5, NoneAssumption DEF IInv, TypeOK, RowLockHolder, Tok
  <1>10. Kept429Returned'
    BY <1>2, <1>5 DEF IInv, TypeOK, Kept429Returned
  <1> QED
    BY <1>7, <1>8, <1>9, <1>10 DEF IInv, RowsKept

\* A step that ends a request, or moves it on, while it holds no row lock and
\* the rows are kept.
LEMMA MoveKeeps ==
  ASSUME IInv, NEW r \in Requests, Moved(r), pc[r] # "chosen",
         pc'[r] # "chosen", RowsKept, UNCHANGED <<clock, lru, rowLock>>
  PROVE  IInv' /\ LiftsLimits
  BY StepKeeps DEF LocksStay, RowsKept

\* A limit is saved for the account of the token: for each row it is new, and
\* no row loses one.
LEMMA ThrottledKeeps ==
  ASSUME IInv, NEW r \in Requests, ReportRateLimit(r)
  PROVE  IInv' /\ LiftsLimits
  <1> USE DEF IInv
  <1>1. PICK length \in Limits, reason \in {"usage", "temporary"} :
          rows' = [u \in Tokens |->
                     IF u \in Siblings(Tok(r))
                       THEN WithLimit(rows[u], clock + length, reason)
                       ELSE rows[u]]
    BY DEF ReportRateLimit
  <1>2. clock + length \in Nat \ {0}
    BY NumberAssumption DEF TypeOK
  <1>3. ASSUME NEW u \in Tokens
        PROVE  /\ WithLimit(rows[u], clock + length, reason) \in RowType
               /\ WithLimit(rows[u], clock + length, reason).until # 0
    BY <1>2 DEF TypeOK, RowType, WithLimit
  <1>4. rows' \in [Tokens -> RowType]
    BY <1>1, <1>3 DEF TypeOK
  <1>5. ASSUME NEW u \in Tokens PROVE Limited(rows[u], clock) => rows'[u].until # 0
    BY <1>1, <1>3, NumberAssumption DEF TypeOK, RowType, Limited
  <1>6. RowsKept
    BY <1>4, <1>5 DEF RowsKept, LiftsLimits
  <1> DEFINE locals == [call[r] EXCEPT !.tok = None, !.limitedBy = Tok(r)]
  <1>7. Tok(r) \in Tokens /\ call[r] \in CallType
    BY DEF ReportRateLimit, TypeOK, WithToken
  <1>8. locals \in CallType /\ locals.tok = None
    BY <1>7 DEF CallType
  <1>9. /\ pc[r] = "throttled" /\ pc' = [pc EXCEPT ![r] = "borrow"]
        /\ call' = [call EXCEPT ![r] = locals]
        /\ UNCHANGED <<clock, lru, rowLock>>
    BY DEF ReportRateLimit, TypeOK
  <1> HIDE DEF locals
  <1>10. "borrow" \in Places /\ "borrow" \notin WithToken /\ pc'[r] = "borrow"
    BY <1>9 DEF Places, WithToken, TypeOK
  <1>11. Moved(r)
    BY <1>8, <1>9, <1>10, NoneAssumption DEF Moved
  <1> QED
    BY <1>6, <1>9, <1>10, <1>11, MoveKeeps

\* ReportUsage lifts a limit that still runs only for a request that was
\* accepted, and only for the account of its token.
LEMMA UsageKeeps ==
  ASSUME IInv, NEW r \in Requests, ReportUsage(r) PROVE IInv' /\ LiftsLimits
  <1> USE DEF IInv
  <1>1. Moved(r) /\ pc'[r] # "chosen"
    BY EndMoves DEF ReportUsage, Ended
  <1>2. pc[r] # "chosen" /\ UNCHANGED <<clock, lru, rowLock>>
    BY DEF ReportUsage
  <1>3. CASE rows' = rows
    BY <1>1, <1>2, <1>3, RowsUntouched, MoveKeeps
  <1>4. CASE rows' = [u \in Tokens |->
                        IF u \in Siblings(Tok(r))
                          THEN LimitReviewed(rows[u], UsageClearsLimit(r))
                          ELSE rows[u]]
    <2>1. Tok(r) \in Tokens
      BY DEF ReportUsage, TypeOK, WithToken
    <2>2. ASSUME NEW u \in Tokens
          PROVE  LimitReviewed(rows[u], UsageClearsLimit(r)) \in RowType
      BY DEF TypeOK, RowType, LimitReviewed, WithLimit
    <2>3. rows' \in [Tokens -> RowType]
      BY <1>4, <2>2 DEF TypeOK
    <2>4. ASSUME NEW u \in Tokens, Limited(rows[u], clock), rows'[u].until = 0
          PROVE  pc[r] = "accepted" /\ Tok(r) \in Siblings(u)
      <3>1. rows[u].until \in Nat /\ clock \in Nat /\ rows[u].until > clock
        BY <2>4, NumberAssumption DEF TypeOK, RowType, Limited
      <3>2. u \in Siblings(Tok(r))
        BY <1>4, <2>4, <3>1
      <3>3. rows'[u] = LimitReviewed(rows[u], UsageClearsLimit(r))
        BY <1>4, <3>2
      <3>4. UsageClearsLimit(r)
        BY <2>4, <3>1, <3>3 DEF LimitReviewed
      <3> QED
        BY <2>1, <3>2, <3>4 DEF UsageClearsLimit, Siblings
    <2>5. RowsKept
      BY <2>3, <2>4 DEF RowsKept, LiftsLimits
    <2> QED
      BY <1>1, <1>2, <2>5, MoveKeeps
  <1> QED
    BY <1>3, <1>4 DEF ReportUsage

\* The other steps, one by one.
LEMMA StepPreserves ==
  ASSUME IInv, NEW r \in Requests, Step(r) PROVE IInv' /\ LiftsLimits
  <1> USE DEF IInv
  <1>1. pc[r] \in WithToken => /\ Tok(r) \in Tokens
                               /\ rows[Tok(r)] \in RowType
    BY DEF TypeOK
  <1>2. pc[r] \in WithToken =>
          /\ HealthRestored(rows[Tok(r)]) \in RowType
          /\ HealthRestored(rows[Tok(r)]).until = rows[Tok(r)].until
          /\ FailureRecorded(rows[Tok(r)], Threshold) \in RowType
          /\ FailureRecorded(rows[Tok(r)], Threshold).until = rows[Tok(r)].until
    BY <1>1, HealthKept
  <1>3. CASE SelectSnapshot(r)
    BY <1>3, SnapshotKeeps
  <1>4. CASE SelectLock(r)
    BY <1>4, LockKeeps
  <1>5. CASE SelectCommit(r)
    BY <1>5, CommitKeeps
  <1>6. CASE FindRetryAt(r)
    <2>1. Moved(r) /\ pc'[r] # "chosen"
      BY <1>6, EndWithoutTokenMoves DEF FindRetryAt, Ended
    <2> QED
      BY <1>6, <2>1, RowsUntouched, MoveKeeps DEF FindRetryAt
  <1>7. CASE SelectFails(r)
    <2>1. Moved(r) /\ pc'[r] # "chosen"
      BY <1>7, EndMoves DEF SelectFails, Ended
    <2> QED
      BY <1>7, <2>1, RowsUntouched, MoveKeeps DEF SelectFails
  <1>8. CASE Borrow(r)
    <2>1. Moved(r) /\ pc'[r] # "chosen"
      BY <1>8, TakeMoves DEF Borrow, WithToken
    <2> QED
      BY <1>8, <2>1, RowsUntouched, MoveKeeps DEF Borrow
  <1>9. CASE GetToken(r)
    <2>1. pc[r] \in WithToken /\ pc[r] # "chosen"
      BY <1>9 DEF GetToken, WithToken
    <2>2. PICK place \in {"renewing", "reauthenticating"} : Goto(r, place)
      BY <1>9 DEF GetToken
    <2>3. place \in WithToken /\ place # "chosen"
      BY DEF WithToken
    <2> QED
      BY <1>9, <2>1, <2>2, <2>3, GotoMoves, RowsUntouched, MoveKeeps
      DEF GetToken
  <1>10. CASE BorrowRefreshed(r)
    <2>1. pc[r] \in WithToken /\ pc[r] # "chosen"
      BY <1>10 DEF BorrowRefreshed, WithToken
    <2>2. RowsKept
      BY <1>1, <1>2, <1>10, <2>1, MayWriteKeeps DEF BorrowRefreshed
    <2> QED
      BY <1>10, <2>1, <2>2, TakeMoves, MoveKeeps DEF BorrowRefreshed
  <1>11. CASE BorrowGone(r)
    <2>1. Moved(r) /\ pc'[r] # "chosen"
      BY <1>11, EndWithoutTokenMoves DEF BorrowGone, Ended
    <2> QED
      BY <1>11, <2>1, RowsUntouched, MoveKeeps DEF BorrowGone
  <1>12. CASE BorrowFails(r)
    <2>1. Moved(r) /\ pc'[r] # "chosen"
      BY <1>12, EndMoves DEF BorrowFails, Ended
    <2>2. pc[r] # "chosen"
      BY <1>12 DEF BorrowFails
    <2>3. RowsKept
      <3>1. pc[r] \in WithToken
        BY <1>12 DEF BorrowFails, WithToken
      <3> QED
        BY <1>1, <1>2, <1>12, <3>1, RowsUntouched, MayWriteKeeps
        DEF BorrowFails
    <2> QED
      BY <1>12, <2>1, <2>2, <2>3, MoveKeeps DEF BorrowFails
  <1>13. CASE Send(r)
    <2>1. pc[r] \in WithToken /\ pc[r] # "chosen"
      BY <1>13 DEF Send, WithToken
    <2>2. Moved(r) /\ pc'[r] # "chosen"
      <3>1. CASE End(r, "failed")
        BY <3>1, EndMoves DEF Ended
      <3>2. CASE \E answer \in {"accepted", "other", "throttled", "rejected",
                                "refused"} : Goto(r, answer)
        <4>1. PICK answer \in {"accepted", "other", "throttled", "rejected",
                               "refused"} : Goto(r, answer)
          BY <3>2
        <4>2. answer \in WithToken /\ answer # "chosen"
          BY DEF WithToken
        <4> QED
          BY <2>1, <4>1, <4>2, GotoMoves
      <3> QED
        BY <1>13, <3>1, <3>2 DEF Send
    <2> QED
      BY <1>13, <2>1, <2>2, RowsUntouched, MoveKeeps DEF Send
  <1>14. CASE Reauthenticate(r)
    <2>1. pc[r] \in WithToken /\ pc[r] # "chosen"
      BY <1>14 DEF Reauthenticate, WithToken
    <2>2. RowsKept
      BY <1>1, <1>2, <1>14, <2>1, MayWriteKeeps DEF Reauthenticate
    <2>3. "resend" \in WithToken /\ "resend" # "chosen"
      BY DEF WithToken
    <2> QED
      BY <1>14, <2>1, <2>2, <2>3, GotoMoves, MoveKeeps DEF Reauthenticate
  <1>15. CASE ReauthenticateFails(r)
    <2>1. pc[r] \in WithToken /\ pc[r] # "chosen"
      BY <1>15 DEF ReauthenticateFails, WithToken
    <2>2. RowsKept
      BY <1>1, <1>2, <1>15, <2>1, RowsUntouched, MayWriteKeeps
      DEF ReauthenticateFails
    <2> QED
      BY <1>15, <2>1, <2>2, NextTokenMoves, MoveKeeps DEF ReauthenticateFails
  <1>16. CASE ReportAuthFailure(r)
    <2>1. pc[r] \in WithToken /\ pc[r] # "chosen"
      BY <1>16 DEF ReportAuthFailure, WithToken
    <2>2. RowsKept
      BY <1>1, <1>2, <1>16, <2>1, MayWriteKeeps DEF ReportAuthFailure
    <2> QED
      BY <1>16, <2>1, <2>2, NextTokenMoves, MoveKeeps DEF ReportAuthFailure
  <1>17. CASE ReportRateLimit(r)
    BY <1>17, ThrottledKeeps
  <1>18. CASE ReportRateLimitFails(r)
    <2>1. Moved(r) /\ pc'[r] # "chosen"
      BY <1>18, EndMoves DEF ReportRateLimitFails, Ended
    <2> QED
      BY <1>18, <2>1, RowsUntouched, MoveKeeps DEF ReportRateLimitFails
  <1>19. CASE ReportUsage(r)
    BY <1>19, UsageKeeps
  <1> QED
    BY <1>3, <1>4, <1>5, <1>6, <1>7, <1>8, <1>9, <1>10, <1>11, <1>12, <1>13,
       <1>14, <1>15, <1>16, <1>17, <1>18, <1>19 DEF Step

-----------------------------------------------------------------------------
\* A step of an administrator, or of the clock.
LEMMA RowStepKeeps ==
  ASSUME IInv, RowsKept, UNCHANGED <<clock, lru, rowLock, pc, call>>
  PROVE  IInv'
  BY DEF IInv, TypeOK, RowsKept, RowLockHolder, Kept429Returned, Tok

LEMMA NextPreserves ==
  ASSUME IInv, [Next]_vars PROVE IInv' /\ (LiftsLimits \/ UNCHANGED vars)
  <1> USE DEF IInv
  <1>1. ASSUME NEW r \in Requests, Step(r) PROVE IInv' /\ LiftsLimits
    BY <1>1, StepPreserves
  <1>2. ASSUME NEW t \in Removable, DisableToken(t) PROVE IInv' /\ LiftsLimits
    <2>1. t \in Tokens /\ rows[t] \in RowType
      BY AccountAssumption DEF TypeOK
    <2>2. rows' = [rows EXCEPT ![t] = Disabled(rows[t])]
      BY <1>2, <2>1 DEF DisableToken, TypeOK
    <2>3. RowsKept
      BY <2>1, <2>2, HealthKept, OneRowKept
    <2> QED
      BY <1>2, <2>3, RowStepKeeps DEF DisableToken, RowsKept
  <1>3. ASSUME NEW d \in Donations, Donate(d[1], d[2])
        PROVE  IInv' /\ LiftsLimits
    <2>1. d[1] \in Tokens /\ d[2] \in Accounts /\ rows[d[1]] \in RowType
      BY AccountAssumption DEF TypeOK
    <2> DEFINE row == [Donated(rows[d[1]]) EXCEPT !.account = d[2]]
    <2>2. row \in RowType /\ row.until = rows[d[1]].until
      BY <2>1, DonationKept
    <2>3. rows' = [rows EXCEPT ![d[1]] = row]
      BY <1>3, <2>1 DEF Donate, TypeOK
    <2> HIDE DEF row
    <2>4. RowsKept
      BY <2>1, <2>2, <2>3, OneRowKept
    <2> QED
      BY <1>3, <2>4, RowStepKeeps DEF Donate, RowsKept
  <1>4. CASE Tick
    <2>1. IInv'
      BY <1>4, NumberAssumption
      DEF Tick, TypeOK, RowLockHolder, Kept429Returned, Tok
    <2>2. LiftsLimits
      BY <1>4, RowsUntouched DEF Tick, RowsKept
    <2> QED
      BY <2>1, <2>2
  <1>5. CASE UNCHANGED vars
    BY <1>5 DEF vars, TypeOK, RowLockHolder, Kept429Returned, Tok
  <1> QED
    BY <1>1, <1>2, <1>3, <1>4, <1>5 DEF Next

-----------------------------------------------------------------------------
THEOREM PoolSafe == Spec => []IInv
  <1>1. IInv /\ [Next]_vars => IInv'
    BY NextPreserves
  <1> QED
    BY InitInv, <1>1, PTL DEF Spec

\* Every variable keeps its type, and a request has a token in just the places
\* of callUpstream where it works with one.
THEOREM CallTyped == Spec => []TypeOK
  <1>1. IInv => TypeOK
    BY DEF IInv
  <1> QED
    BY PoolSafe, <1>1, PTL

\* However many requests overlap, a row lock belongs to the one SelectToken
\* statement that chose the row: no row goes to two of them.
THEOREM RowLockSafe == Spec => []RowLockHolder
  <1>1. IInv => RowLockHolder
    BY DEF IInv
  <1> QED
    BY PoolSafe, <1>1, PTL

\* A 429 that callUpstream kept is never answered by the proxy's own 503 or
\* 429.
THEOREM Kept429 == Spec => []Kept429Returned
  <1>1. IInv => Kept429Returned
    BY DEF IInv
  <1> QED
    BY PoolSafe, <1>1, PTL

\* Only time and an accepted request of the account end a limit; a donation,
\* a refresh, a failure or an administrator do not.
THEOREM LimitsLifted == Spec => OnlySuccessLiftsLimits
  <1>1. IInv /\ [Next]_vars =>
          [\A t \in Tokens :
             Limited(rows[t], clock) /\ rows'[t].until = 0 =>
                 \E r \in Requests : /\ pc[r] = "accepted"
                                     /\ Tok(r) \in Siblings(t)]_vars
    BY NextPreserves DEF LiftsLimits
  <1> QED
    BY PoolSafe, <1>1, PTL DEF Spec, OnlySuccessLiftsLimits

=============================================================================
