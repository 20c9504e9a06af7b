------------------------------ MODULE ServeHTTP ------------------------------
(***************************************************************************)
(* The life of a request in internal/proxy/handler.go, from its API key to *)
(* its row in the request log, while keys are revoked, clients hang up,    *)
(* the janitor deletes old rows and the process of cmd/server/main.go is   *)
(* shut down or killed.                                                    *)
(*                                                                         *)
(* callUpstream is here the set of its outcomes (CallUpstream models it),  *)
(* the limiter is its answer (RateLimiter), and a stream or a buffered     *)
(* answer is how it ends (StreamRelay).  Each SQL statement is one step.   *)
(***************************************************************************)
EXTENDS Naturals

CONSTANTS
    Requests,   \* requests
    Keys,       \* API keys
    Tokens,     \* tokens of the pool
    None        \* no key, no token

ASSUME NoneAssumption == None \notin Keys \cup Tokens

VARIABLES
    process,    \* "running", "draining", "closing" or "stopped"
    apiKeys,    \* each key: "absent", "enabled" or "revoked"
    pc,         \* where a request is in ServeHTTP
    record,     \* the db.RequestRecord that ServeHTTP fills in
    answer,     \* the status the handler sent, 0 before that
    gone,       \* requests whose client has hung up
    log,        \* the table requests
    expired,    \* history: rows the janitor has deleted
    late,       \* history: requests that came with a key already revoked
    excused     \* history: requests that a failing write, a panic, a kill or
                \* the end of the grace period keeps out of the log

requestVars == <<pc, record, answer>>
historyVars == <<expired, late, excused>>
vars == <<process, apiKeys, requestVars, gone, log, historyVars>>

\* ErrorMessage: none, or the word of something that went wrong.
Messages == {"none", "failed"}

NoRecord == [key |-> None, token |-> None, status |-> 0, error |-> "none"]

Init ==
    /\ process = "running"
    /\ apiKeys = [k \in Keys |-> "absent"]
    /\ pc = [r \in Requests |-> "idle"]
    /\ record = [r \in Requests |-> NoRecord]
    /\ answer = [r \in Requests |-> 0]
    /\ gone = {}
    /\ log = {}
    /\ expired = {}
    /\ late = {}
    /\ excused = {}

\* Requests in the hands of a handler.
Active == {r \in Requests : pc[r] \notin {"idle", "over"}}

GoTo(r, place) == pc' = [pc EXCEPT ![r] = place]

\* The handler sends a status and has nothing to record.
Refuse(r, status) ==
    /\ GoTo(r, "over")
    /\ answer' = [answer EXCEPT ![r] = status]
    /\ UNCHANGED record

\* Slip: the status is sent and not noted.
ConcludeWithoutStatus(r, status, token, error) ==
    /\ GoTo(r, "record")
    /\ answer' = [answer EXCEPT ![r] = status]
    /\ record' = [record EXCEPT ![r] =
                    [key |-> @.key, token |-> token,
                     status |-> @.status, error |-> error]]

\* The handler sends a status and is about to record it.
Conclude(r, status, token, error) ==
    /\ GoTo(r, "record")
    /\ answer' = [answer EXCEPT ![r] = status]
    /\ record' = [record EXCEPT ![r] =
                    [key |-> @.key, token |-> token,
                     status |-> status, error |-> error]]

Elsewhere == UNCHANGED <<process, apiKeys, gone, log, historyVars>>

-----------------------------------------------------------------------------
(* ServeHTTP.                                                              *)

\* Without a key, or with another method than POST, a request gets no further.
Arrive(r, k) ==
    /\ pc[r] = "idle"
    /\ process = "running"
    /\ late' = IF apiKeys[k] = "revoked" THEN late \cup {r} ELSE late
    /\ record' = [record EXCEPT ![r].key = k]
    /\ GoTo(r, "authenticate")
    /\ UNCHANGED <<process, apiKeys, answer, gone, log, expired, excused>>

ArriveUnfit(r) ==
    /\ pc[r] = "idle"
    /\ process = "running"
    /\ \E status \in {401, 405} : Refuse(r, status)
    /\ Elsewhere

\* The pool of database connections is open to a new statement.
Connected == process \in {"running", "draining"}

\* Slip: a key is looked up whether it is enabled or not.
KeyExists(k) == apiKeys[k] # "absent"

KeyValid(k) == apiKeys[k] = "enabled"

Authenticate(r) ==
    /\ pc[r] = "authenticate"
    /\ process # "stopped"
    /\ IF KeyValid(record[r].key)
         THEN GoTo(r, "limit") /\ UNCHANGED <<record, answer>>
         ELSE Refuse(r, 401)
    /\ Elsewhere

AuthenticateFails(r) ==
    /\ pc[r] = "authenticate"
    /\ Refuse(r, 503)
    /\ Elsewhere

LimitAllows(r) ==
    /\ pc[r] = "limit"
    /\ GoTo(r, "body")
    /\ UNCHANGED <<record, answer>>
    /\ Elsewhere

LimitRefuses(r) ==
    /\ pc[r] = "limit"
    /\ Conclude(r, 429, None, "failed")
    /\ Elsewhere

ReadBody(r) ==
    /\ pc[r] = "body"
    /\ GoTo(r, "call")
    /\ UNCHANGED <<record, answer>>
    /\ Elsewhere

\* The body cannot be read or patched, or is too large: this is not recorded.
BodyUnfit(r) ==
    /\ pc[r] = "body"
    /\ \E status \in {400, 413} : Refuse(r, status)
    /\ Elsewhere

\* The pool has no token, or all accounts are at their limits.
NoToken(r) ==
    /\ pc[r] = "call"
    /\ \E status \in {503, 429} : Conclude(r, status, None, "failed")
    /\ Elsewhere

\* callUpstream fails, for want of a first token perhaps.
CallFails(r) ==
    /\ pc[r] = "call"
    /\ \E t \in Tokens \cup {None} : Conclude(r, 502, t, "failed")
    /\ Elsewhere

\* Upstream answers with an error, for which 500 stands, or with one JSON text,
\* which is passed on.
PassOn(r) ==
    /\ pc[r] = "call"
    /\ \E t \in Tokens :
         \/ \E error \in Messages : Conclude(r, 200, t, error)
         \/ Conclude(r, 500, t, "failed")
    /\ Elsewhere

\* RelaySSE sends its header before it reads the stream.
StartStream(r) ==
    /\ pc[r] = "call"
    /\ \E t \in Tokens : record' = [record EXCEPT ![r].token = t]
    /\ GoTo(r, "stream")
    /\ answer' = [answer EXCEPT ![r] = 200]
    /\ Elsewhere

EndStream(r) ==
    /\ pc[r] = "stream"
    /\ \E error \in Messages : Conclude(r, 200, record[r].token, error)
    /\ Elsewhere

StartBuffer(r) ==
    /\ pc[r] = "call"
    /\ \E t \in Tokens : record' = [record EXCEPT ![r].token = t]
    /\ GoTo(r, "buffer")
    /\ UNCHANGED answer
    /\ Elsewhere

\* Slip: a stream that could not be buffered is recorded as if it were relayed.
EndBufferAsStream(r) ==
    /\ pc[r] = "buffer"
    /\ \E error \in Messages :
         /\ GoTo(r, "record")
         /\ answer' = [answer EXCEPT ![r] = IF error = "none" THEN 200 ELSE 502]
         /\ record' = [record EXCEPT ![r].status = 200, ![r].error = error]
    /\ Elsewhere

EndBuffer(r) ==
    /\ pc[r] = "buffer"
    /\ \/ Conclude(r, 200, record[r].token, "none")
       \/ Conclude(r, 502, record[r].token, "failed")
    /\ Elsewhere

\* A terminal response that is null: the goroutine of the request dies.
Panic(r) ==
    /\ pc[r] \in {"stream", "buffer"}
    /\ GoTo(r, "over")
    /\ excused' = excused \cup {r}
    /\ UNCHANGED <<process, apiKeys, record, answer, gone, log, expired, late>>

\* The row a request leaves in the log.
Row(r) == [request |-> r, key |-> record[r].key, token |-> record[r].token,
           status |-> record[r].status, error |-> record[r].error, age |-> "young"]

\* Slip: the row is written with the context of the request.
WriteRowWithClient(r) ==
    /\ pc[r] = "record"
    /\ Connected
    /\ log' = IF r \in gone THEN log ELSE log \cup {Row(r)}
    /\ GoTo(r, "over")
    /\ UNCHANGED <<process, apiKeys, record, answer, gone, historyVars>>

\* The row is written with a context of its own, also when the client is gone,
\* and the end of main waits for a statement that has its connection.
WriteRow(r) ==
    /\ pc[r] = "record"
    /\ process # "stopped"
    /\ log' = log \cup {Row(r)}
    /\ GoTo(r, "over")
    /\ UNCHANGED <<process, apiKeys, record, answer, gone, historyVars>>

\* The statement fails, or takes longer than two seconds.
WriteRowFails(r) ==
    /\ pc[r] = "record"
    /\ GoTo(r, "over")
    /\ excused' = excused \cup {r}
    /\ UNCHANGED <<process, apiKeys, record, answer, gone, log, expired, late>>

-----------------------------------------------------------------------------
(* Clients, administrators, the janitor and the process.                   *)

ClientLeaves(r) ==
    /\ r \in Active \ gone
    /\ gone' = gone \cup {r}
    /\ UNCHANGED <<process, apiKeys, requestVars, log, historyVars>>

CreateAPIKey(k) ==
    /\ Connected
    /\ apiKeys[k] = "absent"
    /\ apiKeys' = [apiKeys EXCEPT ![k] = "enabled"]
    /\ UNCHANGED <<process, requestVars, gone, log, historyVars>>

RevokeAPIKey(k) ==
    /\ Connected
    /\ apiKeys[k] # "absent"
    /\ apiKeys' = [apiKeys EXCEPT ![k] = "revoked"]
    /\ UNCHANGED <<process, requestVars, gone, log, historyVars>>

\* A row passes the age that the log keeps.
GrowOld(row) ==
    /\ log' = (log \ {row}) \cup {[row EXCEPT !.age = "old"]}
    /\ UNCHANGED <<process, apiKeys, requestVars, gone, historyVars>>

\* RunJanitors stops before the process drains.
CleanupRequests ==
    /\ process = "running"
    /\ log' = {row \in log : row.age = "young"}
    /\ expired' = expired \cup {row.request : row \in log \ log'}
    /\ UNCHANGED <<process, apiKeys, requestVars, gone, late, excused>>

Signal ==
    /\ process = "running"
    /\ process' = "draining"
    /\ UNCHANGED <<apiKeys, requestVars, gone, log, historyVars>>

\* Slip: the server is closed, not shut down.
CloseAtOnce ==
    /\ process = "draining"
    /\ process' = "closing"
    /\ UNCHANGED <<apiKeys, requestVars, gone, log, historyVars>>

\* Shutdown returns once no request is active.
Drained ==
    /\ process = "draining"
    /\ Active = {}
    /\ process' = "closing"
    /\ UNCHANGED <<apiKeys, requestVars, gone, log, historyVars>>

\* Shutdown gives up after 15 seconds.
GiveUp ==
    /\ process = "draining"
    /\ Active # {}
    /\ process' = "closing"
    /\ excused' = excused \cup Active
    /\ UNCHANGED <<apiKeys, requestVars, gone, log, expired, late>>

\* main returns once the database connections are closed, and with it every
\* goroutine ends where it is.
Exit ==
    /\ process = "closing"
    /\ process' = "stopped"
    /\ pc' = [r \in Requests |-> IF r \in Active THEN "over" ELSE pc[r]]
    /\ UNCHANGED <<apiKeys, record, answer, gone, log, historyVars>>

Kill ==
    /\ process # "stopped"
    /\ process' = "stopped"
    /\ excused' = excused \cup Active
    /\ pc' = [r \in Requests |-> IF r \in Active THEN "over" ELSE pc[r]]
    /\ UNCHANGED <<apiKeys, record, answer, gone, log, expired, late>>

Handle(r) ==
    \/ \E k \in Keys : Arrive(r, k)
    \/ ArriveUnfit(r)
    \/ Authenticate(r) \/ AuthenticateFails(r)
    \/ LimitAllows(r) \/ LimitRefuses(r)
    \/ ReadBody(r) \/ BodyUnfit(r)
    \/ NoToken(r) \/ CallFails(r) \/ PassOn(r)
    \/ StartStream(r) \/ EndStream(r)
    \/ StartBuffer(r) \/ EndBuffer(r)
    \/ Panic(r)
    \/ WriteRow(r) \/ WriteRowFails(r)

Next ==
    \/ \E r \in Requests : Handle(r) \/ ClientLeaves(r)
    \/ \E k \in Keys : CreateAPIKey(k) \/ RevokeAPIKey(k)
    \/ \E row \in log : GrowOld(row)
    \/ CleanupRequests
    \/ Signal \/ Drained \/ GiveUp \/ Exit \/ Kill

Spec == Init /\ [][Next]_vars

-----------------------------------------------------------------------------
Places == {"idle", "authenticate", "limit", "body", "call", "stream", "buffer",
           "record", "over"}

Records ==
    [key : Keys \cup {None}, token : Tokens \cup {None},
     status : {0, 200, 429, 500, 502, 503}, error : Messages]

Rows ==
    [request : Requests, key : Keys, token : Tokens \cup {None},
     status : {200, 429, 500, 502, 503}, error : Messages, age : {"young", "old"}]

TypeOK ==
    /\ process \in {"running", "draining", "closing", "stopped"}
    /\ apiKeys \in [Keys -> {"absent", "enabled", "revoked"}]
    /\ pc \in [Requests -> Places]
    /\ record \in [Requests -> Records]
    /\ answer \in
         [Requests -> {0, 200, 400, 401, 405, 413, 429, 500, 502, 503}]
    /\ gone \subseteq Requests
    /\ log \subseteq Rows
    /\ expired \subseteq Requests
    /\ late \subseteq Requests
    /\ excused \subseteq Requests

\* What a handler did or announced for a key is accounted for: a request that
\* was given a token, or refused for want of one, leaves one row in the log,
\* whether its client stayed or not and also when the process is shut down.
UseIsLogged ==
    /\ \A r \in Requests \ excused :
         (pc[r] = "over" /\ (record[r].token # None \/ record[r].status # 0)) =>
           r \in expired \/ \E row \in log : row.request = r
    /\ \A row, other \in log : row.request = other.request => row = other

\* The log tells what was sent: the status, the key that asked for it, and no
\* success without a token behind it.
LogTellsTheAnswer ==
    \A row \in log :
      /\ row.status = answer[row.request]
      /\ row.key = record[row.request].key
      /\ (row.status = 200 => row.token # None)
      /\ (row.status # 200 => row.error # "none")

\* A request that comes with a revoked key is refused before it costs a token
\* or a row of the log, wherever other requests with the key are.
RevokedKeyIsRefused ==
    \A r \in late :
      /\ answer[r] \in {0, 401, 503}
      /\ record[r].token = None
      /\ \A row \in log : row.request # r

\* Unless it dies, is killed or outlasts the grace of a shutdown, every
\* request that arrived has been sent an answer by the time it is over.
EveryoneIsAnswered ==
    \A r \in Requests \ excused : pc[r] = "over" => answer[r] # 0

=============================================================================
