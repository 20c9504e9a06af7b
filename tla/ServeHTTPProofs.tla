--------------------------- MODULE ServeHTTPProofs ---------------------------
(***************************************************************************)
(* Theorems about ServeHTTP for any number of requests, keys and tokens.   *)
(***************************************************************************)
EXTENDS ServeHTTP, TLAPS

\* The sets of records and of rows are written out in every proof.
USE DEF Records, Rows

\* What is known of a request at each place of ServeHTTP.
Place(r) ==
    /\ (pc[r] \in {"idle", "authenticate", "limit", "body", "call"} =>
          answer[r] = 0 /\ record[r].status = 0 /\ record[r].token = None)
    /\ (pc[r] \in {"authenticate", "limit", "body", "call", "stream", "buffer",
                   "record"} => record[r].key \in Keys)
    /\ (pc[r] = "stream" => answer[r] = 200 /\ record[r].token # None)
    /\ (pc[r] = "buffer" => answer[r] = 0 /\ record[r].token # None)
    /\ (pc[r] \in {"stream", "buffer"} => record[r].status = 0)
    /\ (pc[r] = "record" => record[r].status # 0)
    /\ (pc[r] = "over" /\ r \notin excused => answer[r] # 0)

\* What is known of a record once it has a status.
Concluded(r) ==
    record[r].status # 0 =>
      /\ answer[r] = record[r].status
      /\ record[r].status = 200 => record[r].token # None
      /\ record[r].status # 200 => record[r].error # "none"

\* A request that came with a revoked key.
LateRefused(r) ==
    /\ record[r].key \in Keys
    /\ apiKeys[record[r].key] = "revoked"
    /\ pc[r] \in {"authenticate", "over"}
    /\ answer[r] \in {0, 401, 503}
    /\ record[r].token = None
    /\ record[r].status = 0

\* The rows of the log.
RowsMatch ==
    /\ \A row \in log :
         /\ pc[row.request] = "over"
         /\ row.status = record[row.request].status
         /\ row.status # 0
         /\ row.key = record[row.request].key
         /\ row.token = record[row.request].token
         /\ row.error = record[row.request].error
    /\ \A row, other \in log : row.request = other.request => row = other

Logged(r) ==
    (pc[r] = "over" /\ r \notin excused
       /\ (record[r].token # None \/ record[r].status # 0)) =>
      r \in expired \/ \E row \in log : row.request = r

StopExcuses == process \in {"closing", "stopped"} => Active \subseteq excused

Handled ==
    /\ TypeOK
    /\ \A r \in Requests : Place(r) /\ Concluded(r) /\ Logged(r)
    /\ \A r \in late : LateRefused(r)
    /\ RowsMatch
    /\ StopExcuses

-----------------------------------------------------------------------------
\* A step changes one request: it writes no row, and excuses at most this one.
Local(r) ==
    /\ \A q \in Requests \ {r} :
         pc'[q] = pc[q] /\ record'[q] = record[q] /\ answer'[q] = answer[q]
    /\ late' \subseteq late \cup {r}
    /\ excused \subseteq excused' /\ excused' \subseteq excused \cup {r}
    /\ UNCHANGED <<process, apiKeys, log, expired>>

\* A local step from a place before the end keeps the invariant if what is
\* known of its own request is kept.
LEMMA LocalKeeps ==
    ASSUME Handled, NEW r \in Requests, Local(r), TypeOK',
           pc[r] # "over", process = "running" \/ pc[r] # "idle",
           Place(r)', Concluded(r)', Logged(r)', r \in late' => LateRefused(r)'
    PROVE  Handled'
<1>1. \A q \in Requests : Place(q)' /\ Concluded(q)' /\ Logged(q)'
  <2> SUFFICES ASSUME NEW q \in Requests, q # r
               PROVE  Place(q)' /\ Concluded(q)' /\ Logged(q)'
    OBVIOUS
  <2>1. pc'[q] = pc[q] /\ record'[q] = record[q] /\ answer'[q] = answer[q]
    BY DEF Local
  <2>2. q \in excused' <=> q \in excused
    BY DEF Local
  <2>3. Place(q) /\ Concluded(q) /\ Logged(q)
    BY DEF Handled
  <2>4. Place(q)'
    BY <2>1, <2>2, <2>3 DEF Place
  <2>5. Concluded(q)'
    BY <2>1, <2>3 DEF Concluded
  <2>6. Logged(q)'
    BY <2>1, <2>2, <2>3 DEF Logged, Local
  <2> QED
    BY <2>4, <2>5, <2>6
<1>2. \A q \in late' : LateRefused(q)'
  <2> SUFFICES ASSUME NEW q \in late', q # r
               PROVE  LateRefused(q)'
    OBVIOUS
  <2>1. q \in late /\ q \in Requests
    BY DEF Local, Handled, TypeOK
  <2>2. LateRefused(q)
    BY <2>1 DEF Handled
  <2> QED
    BY <2>1, <2>2 DEF LateRefused, Local
<1>3. RowsMatch'
  <2>1. log' = log /\ \A row \in log : row.request \in Requests \ {r}
    BY DEF Local, Handled, TypeOK, RowsMatch
  <2>2. \A row \in log :
          /\ pc'[row.request] = pc[row.request]
          /\ record'[row.request] = record[row.request]
    BY <2>1 DEF Local
  <2> QED
    BY <2>1, <2>2 DEF RowsMatch, Handled
<1>4. StopExcuses'
  <2>1. ASSUME process' \in {"closing", "stopped"}, NEW q \in Active'
        PROVE  q \in excused'
    <3>1. q \in Requests /\ process' = process
      BY <2>1 DEF Active, Local
    <3>2. q \in Active
      <4>1. CASE q = r
        BY <4>1, <3>1, <2>1 DEF Active
      <4>2. CASE q # r
        BY <4>2, <3>1, <2>1 DEF Active, Local
      <4> QED
        BY <4>1, <4>2
    <3> QED
      BY <3>1, <3>2, <2>1 DEF Handled, StopExcuses, Local
  <2> QED
    BY <2>1 DEF StopExcuses
<1> QED
  BY <1>1, <1>2, <1>3, <1>4 DEF Handled

\* Only requests at their key, or over, came with a revoked one.
LEMMA LateEarly ==
    ASSUME Handled, NEW r \in Requests, pc[r] \notin {"authenticate", "over"}
    PROVE  r \notin late
BY DEF Handled, LateRefused

\* A handler that refuses a request before it recorded anything.
LEMMA RefuseKeeps ==
    ASSUME Handled, NEW r \in Requests, NEW status \in {400, 401, 405, 413, 503},
           pc[r] \in {"idle", "authenticate", "body"},
           pc[r] = "idle" => process = "running",
           pc[r] = "authenticate" => status \in {401, 503},
           Refuse(r, status), Elsewhere
    PROVE  Handled'
<1>1. /\ pc' = [pc EXCEPT ![r] = "over"]
      /\ answer' = [answer EXCEPT ![r] = status]
      /\ record' = record
      /\ UNCHANGED <<process, apiKeys, gone, log, expired, late, excused>>
  BY DEF Refuse, GoTo, Elsewhere, historyVars
<1>2. TypeOK /\ Place(r)
  BY DEF Handled
<1>3. TypeOK'
  BY <1>1, <1>2 DEF TypeOK, Places
<1>4. pc'[r] = "over" /\ answer'[r] = status
  BY <1>1, <1>2 DEF TypeOK
<1>5. record[r].status = 0 /\ record[r].token = None
  BY <1>2 DEF Place
<1>6. Local(r)
  BY <1>1, <1>2 DEF Local, TypeOK
<1>7. Place(r)' /\ Concluded(r)' /\ Logged(r)'
  BY <1>1, <1>4, <1>5 DEF Place, Concluded, Logged
<1>8. r \in late' => LateRefused(r)'
  BY <1>1, <1>4, <1>5, LateEarly DEF LateRefused, Handled
<1> QED
  BY <1>3, <1>6, <1>7, <1>8, LocalKeeps

\* A handler that sends a status and is about to record it.
LEMMA ConcludeKeeps ==
    ASSUME Handled, NEW r \in Requests, NEW status \in {200, 429, 500, 502, 503},
           NEW token \in Tokens \cup {None}, NEW error \in Messages,
           status = 200 => token # None, status # 200 => error # "none",
           pc[r] \in {"limit", "call", "stream", "buffer"},
           Conclude(r, status, token, error), Elsewhere
    PROVE  Handled'
<1>1. /\ pc' = [pc EXCEPT ![r] = "record"]
      /\ answer' = [answer EXCEPT ![r] = status]
      /\ record' = [record EXCEPT ![r] =
                      [key |-> record[r].key, token |-> token,
                       status |-> status, error |-> error]]
      /\ UNCHANGED <<process, apiKeys, gone, log, expired, late, excused>>
  BY DEF Conclude, GoTo, Elsewhere, historyVars
<1>2. TypeOK /\ Place(r)
  BY DEF Handled
<1>3. /\ pc'[r] = "record" /\ answer'[r] = status
      /\ record'[r] = [key |-> record[r].key, token |-> token,
                         status |-> status, error |-> error]
  BY <1>1, <1>2 DEF TypeOK
<1>4. record[r] \in Records
  BY <1>2 DEF TypeOK
<1>5. /\ record'[r].status = status /\ record'[r].token = token
      /\ record'[r].error = error /\ record'[r].key = record[r].key
      /\ record'[r] \in Records
  BY <1>3, <1>4
<1>6. TypeOK'
  <2>1. record' \in [Requests -> Records]
    BY <1>1, <1>2, <1>5 DEF TypeOK
  <2> QED
    BY <2>1, <1>1, <1>2 DEF TypeOK, Places
<1>7. Local(r)
  BY <1>1, <1>2 DEF Local, TypeOK
<1>8. Place(r)'
  BY <1>2, <1>3, <1>5 DEF Place
<1>9. Concluded(r)' /\ Logged(r)'
  <2>1. Logged(r)'
    BY <1>3 DEF Logged
  <2>2. Concluded(r)'
    BY <1>3, <1>5 DEF Concluded
  <2> QED
    BY <2>1, <2>2
<1>10. r \notin late'
  BY <1>1, LateEarly
<1> QED
  BY <1>6, <1>7, <1>8, <1>9, <1>10, LocalKeeps

\* A handler that goes on to a token, a stream or a buffer.
LEMMA GoOnKeeps ==
    ASSUME Handled, NEW r \in Requests,
           NEW place \in {"limit", "body", "call", "stream", "buffer"},
           GoTo(r, place), Elsewhere, r \notin late,
           pc[r] \in {"authenticate", "limit", "body", "call"},
           place = "stream" => answer' = [answer EXCEPT ![r] = 200],
           place # "stream" => answer' = answer,
           place \in {"stream", "buffer"} =>
             \E t \in Tokens : record' = [record EXCEPT ![r].token = t],
           place \notin {"stream", "buffer"} => record' = record
    PROVE  Handled'
<1>1. /\ pc' = [pc EXCEPT ![r] = place]
      /\ UNCHANGED <<process, apiKeys, gone, log, expired, late, excused>>
  BY DEF GoTo, Elsewhere, historyVars
<1>2. TypeOK /\ Place(r)
  BY DEF Handled
<1>3. pc'[r] = place
  BY <1>1, <1>2 DEF TypeOK
<1>4. record[r].status = 0 /\ record[r].token = None /\ answer[r] = 0
      /\ record[r].key \in Keys
  BY <1>2 DEF Place
<1>5. CASE place \in {"stream", "buffer"}
  <2>1. PICK t \in Tokens : record' = [record EXCEPT ![r].token = t]
    BY <1>5
  <2>2. answer' = IF place = "stream" THEN [answer EXCEPT ![r] = 200] ELSE answer
    BY <1>5
  <2>3. record[r] \in Records
    BY <1>2 DEF TypeOK
  <2>4. /\ record'[r] = [record[r] EXCEPT !.token = t]
        /\ record'[r].status = 0 /\ record'[r].token = t
        /\ record'[r].key = record[r].key
    BY <2>1, <2>3, <1>2, <1>4 DEF TypeOK
  <2>5. record' \in [Requests -> Records]
    BY <2>1, <2>3, <2>4, <1>2 DEF TypeOK
  <2>6. TypeOK'
    BY <2>2, <2>5, <1>1, <1>2 DEF TypeOK, Places
  <2>7. Local(r)
    BY <2>1, <2>2, <1>1, <1>2 DEF Local, TypeOK
  <2>8. Place(r)'
    BY <2>2, <2>4, <1>2, <1>3, <1>4, <1>5, NoneAssumption DEF Place, TypeOK
  <2>9. Concluded(r)' /\ Logged(r)'
    BY <2>4, <1>3 DEF Concluded, Logged
  <2> QED
    BY <2>6, <2>7, <2>8, <2>9, <1>1, LocalKeeps
<1>6. CASE place \notin {"stream", "buffer"}
  <2>1. UNCHANGED <<record, answer>>
    BY <1>6
  <2>2. TypeOK'
    BY <2>1, <1>1, <1>2 DEF TypeOK, Places
  <2>3. Local(r)
    BY <2>1, <1>1, <1>2 DEF Local, TypeOK
  <2>4. Place(r)' /\ Concluded(r)' /\ Logged(r)'
    BY <2>1, <1>3, <1>4, <1>6 DEF Place, Concluded, Logged
  <2> QED
    BY <2>2, <2>3, <2>4, <1>1, LocalKeeps
<1> QED
  BY <1>5, <1>6

\* A request that dies, or whose row cannot be written, is excused.
LEMMA ExcuseKeeps ==
    ASSUME Handled, NEW r \in Requests, GoTo(r, "over"),
           pc[r] \in {"stream", "buffer", "record"},
           excused' = excused \cup {r},
           UNCHANGED <<process, apiKeys, record, answer, gone, log, expired, late>>
    PROVE  Handled'
<1>1. TypeOK /\ Place(r) /\ Concluded(r)
  BY DEF Handled
<1>2. TypeOK'
  BY <1>1 DEF TypeOK, Places, GoTo
<1>3. pc'[r] = "over" /\ r \in excused'
  BY <1>1 DEF TypeOK, GoTo
<1>4. Local(r)
  BY <1>1 DEF Local, TypeOK, GoTo
<1>5. Place(r)' /\ Concluded(r)' /\ Logged(r)'
  BY <1>1, <1>3 DEF Place, Concluded, Logged
<1>6. r \notin late'
  BY LateEarly
<1> QED
  BY <1>2, <1>4, <1>5, <1>6, LocalKeeps

\* A row is written for a request that has none.
LEMMA WriteRowKeeps ==
    ASSUME Handled, NEW r \in Requests, WriteRow(r)
    PROVE  Handled'
<1>1. /\ pc[r] = "record"
      /\ pc' = [pc EXCEPT ![r] = "over"]
      /\ log' = log \cup {Row(r)}
      /\ UNCHANGED <<process, apiKeys, record, answer, gone, expired, late, excused>>
  BY DEF WriteRow, GoTo, historyVars
<1>2. TypeOK /\ RowsMatch /\ Place(r) /\ Concluded(r)
  BY DEF Handled
<1>3. /\ pc'[r] = "over" /\ \A q \in Requests \ {r} : pc'[q] = pc[q]
      /\ r \notin late
  BY <1>1, <1>2, LateEarly DEF TypeOK
<1>4. record[r].key \in Keys /\ record[r].status # 0 /\ answer[r] # 0
  BY <1>1, <1>2 DEF Place, Concluded
<1>5. /\ Row(r).request = r /\ Row(r).key = record[r].key
      /\ Row(r).token = record[r].token /\ Row(r).status = record[r].status
      /\ Row(r).error = record[r].error
  BY DEF Row
<1>6. TypeOK'
  <2>1. Row(r) \in Rows
    <3>1. /\ record[r].token \in Tokens \cup {None} /\ record[r].error \in Messages
          /\ record[r].status \in {200, 429, 500, 502, 503}
      BY <1>2, <1>4 DEF TypeOK
    <3> QED
      BY <3>1, <1>4 DEF Row
  <2> QED
    BY <2>1, <1>1, <1>2 DEF TypeOK, Places
<1>7. ASSUME NEW q \in Requests
      PROVE  Place(q)' /\ Concluded(q)' /\ Logged(q)'
  <2>1. Place(q) /\ Concluded(q) /\ Logged(q)
    BY DEF Handled
  <2>2. CASE q = r
    <3>1. Row(r) \in log'
      BY <1>1
    <3> QED
      BY <2>2, <3>1, <2>1, <1>1, <1>3, <1>4, <1>5 DEF Place, Concluded, Logged
  <2>3. CASE q # r
    BY <2>1, <2>3, <1>1, <1>3 DEF Place, Concluded, Logged
  <2> QED
    BY <2>2, <2>3
<1>8. \A q \in late' : LateRefused(q)'
  BY <1>1, <1>2, <1>3 DEF Handled, LateRefused, TypeOK
<1>9. RowsMatch'
  <2>1. \A row \in log : row.request # r /\ row.request \in Requests
    BY <1>1, <1>2 DEF RowsMatch, TypeOK
  <2> QED
    BY <2>1, <1>1, <1>2, <1>3, <1>4, <1>5 DEF RowsMatch
<1>10. StopExcuses'
  BY <1>1, <1>3 DEF Handled, StopExcuses, Active
<1> QED
  BY <1>6, <1>7, <1>8, <1>9, <1>10 DEF Handled

LEMMA HandleKeeps ==
    ASSUME Handled, NEW r \in Requests, Handle(r)
    PROVE  Handled'
<1> USE DEF Handled
<1>1. ASSUME NEW k \in Keys, Arrive(r, k)
      PROVE  Handled'
  <2>1. /\ pc[r] = "idle" /\ process = "running"
        /\ late' = IF apiKeys[k] = "revoked" THEN late \cup {r} ELSE late
        /\ record' = [record EXCEPT ![r].key = k]
        /\ pc' = [pc EXCEPT ![r] = "authenticate"]
        /\ UNCHANGED <<process, apiKeys, answer, gone, log, expired, excused>>
    BY <1>1 DEF Arrive, GoTo
  <2>2. TypeOK /\ Place(r) /\ r \notin late
    BY <2>1, LateEarly
  <2>3. record[r] \in Records
    BY <2>2 DEF TypeOK
  <2>4. /\ record'[r] = [record[r] EXCEPT !.key = k]
        /\ record'[r].key = k /\ record'[r].token = None /\ record'[r].status = 0
        /\ pc'[r] = "authenticate" /\ answer'[r] = 0
    BY <2>1, <2>2, <2>3 DEF TypeOK, Place
  <2>5. TypeOK'
    <3>1. record' \in [Requests -> Records]
      BY <2>1, <2>2, <2>3, <2>4 DEF TypeOK
    <3> QED
      BY <3>1, <2>1, <2>2 DEF TypeOK, Places
  <2>6. Local(r)
    BY <2>1, <2>2 DEF Local, TypeOK
  <2>7. Place(r)' /\ Concluded(r)' /\ Logged(r)'
    BY <2>4 DEF Place, Concluded, Logged
  <2>8. r \in late' => LateRefused(r)'
    BY <2>1, <2>2, <2>4 DEF LateRefused
  <2> QED
    BY <2>1, <2>5, <2>6, <2>7, <2>8, LocalKeeps
<1>2. CASE ArriveUnfit(r)
  BY <1>2, RefuseKeeps DEF ArriveUnfit
<1>3. CASE Authenticate(r)
  <2>1. CASE KeyValid(record[r].key)
    <3>1. r \notin late
      BY <2>1 DEF KeyValid, LateRefused
    <3> QED
      BY <1>3, <2>1, <3>1, GoOnKeeps DEF Authenticate
  <2>2. CASE ~KeyValid(record[r].key)
    BY <1>3, <2>2, RefuseKeeps DEF Authenticate
  <2> QED
    BY <2>1, <2>2
<1>4. CASE AuthenticateFails(r)
  BY <1>4, RefuseKeeps DEF AuthenticateFails
<1>5. CASE LimitAllows(r)
  BY <1>5, GoOnKeeps, LateEarly DEF LimitAllows
<1>6. CASE LimitRefuses(r)
  BY <1>6, ConcludeKeeps DEF LimitRefuses, Messages
<1>7. CASE ReadBody(r)
  BY <1>7, GoOnKeeps, LateEarly DEF ReadBody
<1>8. CASE BodyUnfit(r)
  BY <1>8, RefuseKeeps DEF BodyUnfit
<1>9. CASE NoToken(r)
  BY <1>9, ConcludeKeeps DEF NoToken, Messages
<1>10. CASE CallFails(r)
  BY <1>10, ConcludeKeeps DEF CallFails, Messages
<1>11. CASE PassOn(r)
  <2>1. PICK t \in Tokens :
          \/ \E error \in Messages : Conclude(r, 200, t, error)
          \/ Conclude(r, 500, t, "failed")
    BY <1>11 DEF PassOn
  <2>2. t # None
    BY NoneAssumption
  <2> QED
    BY <1>11, <2>1, <2>2, ConcludeKeeps DEF PassOn, Messages
<1>12. CASE StartStream(r)
  BY <1>12, GoOnKeeps, LateEarly DEF StartStream
<1>13. CASE EndStream(r)
  <2>1. record[r].token # None /\ record[r].token \in Tokens \cup {None}
    BY <1>13 DEF EndStream, Place, TypeOK
  <2> QED
    BY <1>13, <2>1, ConcludeKeeps DEF EndStream
<1>14. CASE StartBuffer(r)
  BY <1>14, GoOnKeeps, LateEarly DEF StartBuffer
<1>15. CASE EndBuffer(r)
  <2>1. record[r].token # None /\ record[r].token \in Tokens \cup {None}
    BY <1>15 DEF EndBuffer, Place, TypeOK
  <2> QED
    BY <1>15, <2>1, ConcludeKeeps DEF EndBuffer, Messages
<1>16. CASE Panic(r)
  BY <1>16, ExcuseKeeps DEF Panic
<1>17. CASE WriteRow(r)
  BY <1>17, WriteRowKeeps
<1>18. CASE WriteRowFails(r)
  BY <1>18, ExcuseKeeps DEF WriteRowFails
<1> QED
  BY <1>1, <1>2, <1>3, <1>4, <1>5, <1>6, <1>7, <1>8, <1>9, <1>10, <1>11, <1>12,
     <1>13, <1>14, <1>15, <1>16, <1>17, <1>18 DEF Handle

-----------------------------------------------------------------------------
\* The end of the process takes every request with it.
LEMMA StopKeeps ==
    ASSUME Handled, excused \subseteq excused', excused' \subseteq Requests,
           Active \subseteq excused', process' = "stopped",
           pc' = [r \in Requests |-> IF r \in Active THEN "over" ELSE pc[r]],
           UNCHANGED <<apiKeys, record, answer, gone, log, expired, late>>
    PROVE  Handled'
<1>1. TypeOK'
  BY DEF Handled, TypeOK, Places
<1>2. \A r \in Requests : pc'[r] = IF r \in Active THEN "over" ELSE pc[r]
  OBVIOUS
<1>3. ASSUME NEW r \in Requests
      PROVE  Place(r)' /\ Concluded(r)' /\ Logged(r)'
  <2>1. Place(r) /\ Concluded(r) /\ Logged(r)
    BY DEF Handled
  <2>2. CASE r \in Active
    BY <1>2, <2>1, <2>2 DEF Place, Concluded, Logged
  <2>3. CASE r \notin Active
    BY <1>2, <2>1, <2>3 DEF Place, Concluded, Logged
  <2> QED
    BY <2>2, <2>3
<1>4. \A r \in late' : LateRefused(r)'
  BY <1>2 DEF Handled, LateRefused, TypeOK
<1>5. RowsMatch'
  BY <1>2 DEF Handled, RowsMatch, TypeOK, Active
<1>6. StopExcuses'
  BY <1>2 DEF StopExcuses, Active
<1> QED
  BY <1>1, <1>3, <1>4, <1>5, <1>6 DEF Handled

\* Time, the janitor, and what others do to the keys and the clients.
LEMMA OthersKeep ==
    ASSUME Handled,
           \/ \E r \in Requests : ClientLeaves(r)
           \/ \E k \in Keys : CreateAPIKey(k) \/ RevokeAPIKey(k)
           \/ Signal \/ Drained \/ UNCHANGED vars
    PROVE  Handled'
<1> USE DEF Handled
<1>1. CASE \E r \in Requests : ClientLeaves(r)
  BY <1>1 DEF ClientLeaves, requestVars, historyVars, TypeOK, Place, Concluded,
     Logged, LateRefused, RowsMatch, StopExcuses, Active
<1>2. ASSUME NEW k \in Keys, CreateAPIKey(k) \/ RevokeAPIKey(k)
      PROVE  Handled'
  <2>1. /\ UNCHANGED <<process, pc, record, answer, gone, log, expired, late, excused>>
        /\ apiKeys' \in [Keys -> {"absent", "enabled", "revoked"}]
        /\ \A j \in Keys : apiKeys[j] = "revoked" => apiKeys'[j] = "revoked"
    BY <1>2 DEF CreateAPIKey, RevokeAPIKey, requestVars, historyVars, TypeOK
  <2>2. TypeOK'
    BY <2>1 DEF TypeOK
  <2>3. \A r \in late' : LateRefused(r)'
    <3>1. \A r \in late : record[r].key \in Keys
      BY DEF TypeOK, LateRefused, Place
    <3> QED
      BY <3>1, <2>1 DEF LateRefused
  <2>4. (\A r \in Requests : Place(r)' /\ Concluded(r)' /\ Logged(r)') /\ RowsMatch'
    BY <2>1 DEF Place, Concluded, Logged, RowsMatch
  <2>5. StopExcuses'
    BY <2>1 DEF StopExcuses, Active
  <2> QED
    BY <2>2, <2>3, <2>4, <2>5
<1>3. CASE Signal \/ Drained
  BY <1>3 DEF Signal, Drained, requestVars, historyVars, TypeOK, Place, Concluded,
     Logged, LateRefused, RowsMatch, StopExcuses, Active
<1>4. CASE UNCHANGED vars
  BY <1>4 DEF vars, requestVars, historyVars, TypeOK, Place, Concluded,
     Logged, LateRefused, RowsMatch, StopExcuses, Active
<1> QED
  BY <1>1, <1>2, <1>3, <1>4

\* What the janitor does to the log, and what time does.
LEMMA LogKept ==
    ASSUME Handled, (\E row \in log : GrowOld(row)) \/ CleanupRequests
    PROVE  Handled'
<1> USE DEF Handled
<1>1. /\ UNCHANGED <<process, apiKeys, pc, record, answer, gone, late, excused>>
      /\ \A r \in Requests : Place(r)' /\ Concluded(r)'
      /\ \A r \in late' : LateRefused(r)'
      /\ StopExcuses'
  BY DEF GrowOld, CleanupRequests, requestVars, historyVars, Place, Concluded,
     LateRefused, StopExcuses, Active
<1>2. ASSUME NEW row \in log, GrowOld(row)
      PROVE  Handled'
  <2> DEFINE aged == [row EXCEPT !.age = "old"]
  <2>1. log' = (log \ {row}) \cup {aged} /\ expired' = expired
    BY <1>2 DEF GrowOld, historyVars
  <2>2. row \in Rows
    BY DEF TypeOK
  <2>3. /\ aged.request = row.request /\ aged.key = row.key
        /\ aged.token = row.token /\ aged.status = row.status
        /\ aged.error = row.error
        /\ aged \in Rows
    BY <2>2
  <2> HIDE DEF aged
  <2>4. TypeOK'
    BY <1>1, <2>1, <2>3 DEF TypeOK
  <2>5. RowsMatch'
    BY <1>1, <2>1, <2>3 DEF RowsMatch
  <2>6. ASSUME NEW r \in Requests
        PROVE  Logged(r)'
    <3>1. (\E other \in log : other.request = r)
            => \E other \in log' : other.request = r
      BY <2>1, <2>3
    <3> QED
      BY <3>1, <1>1, <2>1 DEF Logged
  <2> QED
    BY <1>1, <2>4, <2>5, <2>6
<1>3. CASE CleanupRequests
  <2>1. /\ log' = {row \in log : row.age = "young"}
        /\ expired' = expired \cup {row.request : row \in log \ log'}
    BY <1>3 DEF CleanupRequests
  <2>2. log' \subseteq log
    BY <2>1
  <2>3. TypeOK'
    <3>1. \A row \in log : row.request \in Requests
      BY DEF TypeOK
    <3> QED
      BY <1>1, <2>1, <2>2, <3>1 DEF TypeOK
  <2>4. RowsMatch'
    BY <1>1, <2>2 DEF RowsMatch
  <2>5. ASSUME NEW r \in Requests
        PROVE  Logged(r)'
    <3>1. (\E row \in log : row.request = r)
            => r \in expired' \/ \E row \in log' : row.request = r
      BY <2>1
    <3> QED
      BY <3>1, <1>1, <2>1 DEF Logged
  <2> QED
    BY <1>1, <2>3, <2>4, <2>5
<1> QED
  BY <1>2, <1>3

\* A shutdown that gives up excuses the requests that are still active.
LEMMA GiveUpKeeps ==
    ASSUME Handled, GiveUp
    PROVE  Handled'
<1> USE DEF Handled
<1>1. /\ UNCHANGED <<apiKeys, pc, record, answer, gone, log, expired, late>>
      /\ process' = "closing" /\ excused' = excused \cup Active
  BY DEF GiveUp, requestVars
<1>2. TypeOK'
  BY <1>1 DEF TypeOK, Active
<1>3. \A r \in Requests : Place(r)' /\ Concluded(r)' /\ Logged(r)'
  BY <1>1 DEF Place, Concluded, Logged
<1>4. (\A r \in late' : LateRefused(r)') /\ RowsMatch'
  BY <1>1 DEF LateRefused, RowsMatch
<1>5. StopExcuses'
  BY <1>1 DEF StopExcuses, Active
<1> QED
  BY <1>2, <1>3, <1>4, <1>5

LEMMA InitHandled == Init => Handled
BY DEF Init, Handled, TypeOK, Places, NoRecord, Messages, Place, Concluded, Logged,
   RowsMatch, StopExcuses, Active

LEMMA NextHandled == Handled /\ [Next]_vars => Handled'
<1> SUFFICES ASSUME Handled, [Next]_vars
             PROVE  Handled'
  OBVIOUS
<1>1. ASSUME NEW r \in Requests, Handle(r)
      PROVE  Handled'
  BY <1>1, HandleKeeps
<1>2. CASE Exit
  <2>1. Active \subseteq excused /\ excused \subseteq Requests
    BY <1>2 DEF Exit, Handled, StopExcuses, TypeOK
  <2> QED
    BY <1>2, <2>1, StopKeeps DEF Exit, historyVars
<1>3. CASE Kill
  <2>1. excused \cup Active \subseteq Requests
    BY DEF Handled, TypeOK, Active
  <2> QED
    BY <1>3, <2>1, StopKeeps DEF Kill
<1> QED
  BY <1>1, <1>2, <1>3, OthersKeep, LogKept, GiveUpKeeps DEF Next

LEMMA AlwaysHandled == Spec => []Handled
BY InitHandled, NextHandled, PTL DEF Spec

-----------------------------------------------------------------------------
\* Every request, record and row keeps its type.
THEOREM ServeTyped == Spec => []TypeOK
<1>1. Handled => TypeOK
  BY DEF Handled
<1> QED
  BY <1>1, AlwaysHandled, PTL

\* Every request that used a token, or was refused for want of one, leaves
\* one row in the log.
THEOREM UseLogged == Spec => []UseIsLogged
<1>1. Handled => UseIsLogged
  BY DEF Handled, UseIsLogged, Logged, RowsMatch
<1> QED
  BY <1>1, AlwaysHandled, PTL

\* The rows of the log tell what was sent to whom.
THEOREM LogTrue == Spec => []LogTellsTheAnswer
<1>1. Handled => LogTellsTheAnswer
  <2> SUFFICES ASSUME Handled, NEW row \in log
               PROVE  /\ row.status = answer[row.request]
                      /\ row.key = record[row.request].key
                      /\ (row.status = 200 => row.token # None)
                      /\ (row.status # 200 => row.error # "none")
    BY DEF LogTellsTheAnswer
  <2>1. row.request \in Requests
    BY DEF Handled, TypeOK
  <2> QED
    BY <2>1 DEF Handled, RowsMatch, Concluded
<1> QED
  BY <1>1, AlwaysHandled, PTL

\* A request with a key revoked before it came costs neither token nor row.
THEOREM RevokedRefused == Spec => []RevokedKeyIsRefused
<1>1. Handled => RevokedKeyIsRefused
  <2> SUFFICES ASSUME Handled, NEW r \in late
               PROVE  /\ answer[r] \in {0, 401, 503} /\ record[r].token = None
                      /\ \A row \in log : row.request # r
    BY DEF RevokedKeyIsRefused
  <2>1. LateRefused(r) /\ RowsMatch
    BY DEF Handled
  <2>2. \A row \in log : row.status = record[row.request].status /\ row.status # 0
    BY <2>1 DEF RowsMatch
  <2> QED
    BY <2>1, <2>2 DEF LateRefused
<1> QED
  BY <1>1, AlwaysHandled, PTL

\* Every request that is over, and not excused, was sent an answer.
THEOREM Answered == Spec => []EveryoneIsAnswered
<1>1. Handled => EveryoneIsAnswered
  BY DEF Handled, Place, EveryoneIsAnswered
<1> QED
  BY <1>1, AlwaysHandled, PTL

=============================================================================
