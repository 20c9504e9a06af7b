# A TLA+ verification project for codex-proxy

codex-proxy is an HTTP proxy that shares a pool of donated ChatGPT/Codex
accounts. A client presents an API key; the proxy picks a token from a
PostgreSQL table, refreshes it at the OAuth server when it must, sends the
request upstream, tries the next token when one fails or is at its usage limit,
relays the answer (a stream of server-sent events or one buffered JSON) and logs
the request. Paths below are relative to `src/`.

## Inventory

| Component | Source | State | Operations | What makes it correct |
|---|---|---|---|---|
| Token rows | `internal/db/queries.go`, `migrations/001_init.sql` | `tokens`: credentials, expiry, `enabled`, `healthy`, `consecutive_failures`, `last_used_at`, `limited_until`, `limit_reason` | one SQL statement each: `UpsertToken`, `SelectToken`, `GetToken`, `UpdateTokenCredentials`, `RecordTokenFailure`, `UpdateTokenQuota`, `DisableToken` | the columns agree with one another after every interleaving of statements |
| Token manager | `internal/token/manager.go` | a mutex per row label, in memory; the rows; the refresh tokens the OAuth server accepts | `Donate`, `Borrow`, `Reauthenticate`, `refreshAndStore`, `ReportAuthFailure`, `ReportRateLimit`, `ReportUsage` | a refresh token is spent once and its successor is stored; nothing is refreshed without need; the mutex is always given back; failures are counted |
| Failover loop | `internal/proxy/handler.go` `callUpstream` | the attempted tokens, the last 429 | borrow, send, reauthenticate and resend, report, next token | every request ends; the answer that the client gets is the right one; limits are recorded and lifted for the right account |
| Request handler | `internal/proxy/handler.go` `ServeHTTP` | the answer, the request log entry | authenticate, limit the rate, patch the payload, call, relay, record | each request is answered once and logged once |
| SSE relay | `internal/proxy/sse.go` | the pending event, the text collected, the usage | read lines, remember, patch the terminal event, write frames or buffer | the client learns how the stream ended; nothing that was streamed is missing from the answer; streaming and buffering give the same answer |
| Payload patching | `internal/proxy/payload.go` | none | a function from body to body, of a dozen patches in a fixed order | what upstream requires is forced; the client's items, tools and instructions survive, each added once; a patched body of an ordinary model stays as it is |
| Rate limiter | `internal/ratelimit/limiter.go` | a token bucket per API key | `Allow`, `Cleanup` | no more than capacity plus rate times time is let through, also after a cleanup; a key of less than one request an hour may come to one an hour |
| API keys and request log | `internal/db/queries.go` | `api_keys`, `requests` | create, authenticate, revoke, record, clean up | a revoked key stops working; counts follow the log |
| Admin interface | `internal/admin/handler.go`, `static/dashboard.js` | a CSRF cookie in the browser, pages and polls on their way | pages and their data; forms or JSON that add and disable tokens, create and revoke keys | a new key is told exactly once; open pages keep usable forms; a page does not go back in time |
| Server and janitors | `cmd/server/main.go`, `internal/server/server.go` | the listener, two periodic goroutines | start, health, clean up, shut down | it serves only on a migrated database; shutdown lets running requests end |
| Migrations | `internal/db/migrations.go` | `schema_migrations`, an advisory lock | look up, apply and record each script, in one transaction | each script is applied once, in order, by whichever instance comes first; a version is there wholly or not at all |
| Configuration, secret box | `internal/config`, `internal/secretbox` | none | parse, encrypt, decrypt | a bad configuration stops the start; the rest is out of scope, see below |

**How they interact.** `ServeHTTP` authenticates a key, asks the limiter and
calls `callUpstream`, which calls the token manager (`Borrow`,
`Reauthenticate`, the reports); the manager calls the store and the OAuth
server. The admin interface calls `Donate` and `DisableToken` at any time and
takes no mutex of the manager. The requests of one process share the mutexes,
the buckets and the table; everything else they know is local to the goroutine.

**What is hard.** (1) A refresh is a remote call that spends the refresh token,
followed by a database write; requests, donations, a lost reply, a client that
hangs up (its context cancels both) and a crash may come between. (2) Rows are
read, a mutex or a network call is waited for, and the row is used. (3) `FOR
UPDATE SKIP LOCKED` and a snapshot decide which token a request gets, while
others commit. (4) The reports of one account arrive in another order than
upstream's answers. (5) `callUpstream` loops over a pool that it does not lock.
(6) A stream can break before, at or after its terminal event. (7) Instances of
several versions start on one database, die, or are cut off while their
transaction stays open. (8) Browser tabs share a cookie, answers are lost, and the
data of a page is polled while pages are loaded. `PROJECT.json`
lists these hazards at the lines where they bite, with the properties that
watch them.

## Modules

| Module | What it is |
|---|---|
| `TokenRows` | what each SQL statement does to `enabled`, `healthy` and `consecutive_failures`; shared by the two state machines |
| `CredentialCustody` | abstract: where the refresh token of each row is, and who may change that |
| `TokenManager` | the refresh protocol: requests, donors, mutexes, the OAuth server, crashes; shown to implement `CredentialCustody` |
| `TokenManagerProofs` | its theorems |
| `CallUpstream` | the failover loop over `SelectToken` and the quota columns |
| `CallUpstreamProofs` | its theorems |
| `CallUpstreamClaims` | `CallUpstream` with history variables, for what comments and messages say of the pool |
| `RequestRates` | rates of API keys and the capacity of a bucket |
| `RequestBudget` | abstract: the credit that a limiter promises each key |
| `RateLimiter` | the limiter's buckets, shown to implement `RequestBudget` |
| `RateLimiterProofs` | its theorems |
| `StreamRelay` | one upstream stream, relayed and buffered |
| `StreamRelayProofs` | its theorems |
| `PatchPayload` | what becomes of the body of a request |
| `PatchPayloadProofs` | its theorems |
| `ServeHTTP` | a request from its API key to its row in the log; shutdown and kill |
| `ServeHTTPProofs` | its theorems |
| `Startup` | instances from their start to their end: configuration, connection, migrations |
| `StartupProofs` | its theorems |
| `AdminPages` | the admin interface with its browser tabs and scripts |
| `AdminPagesProofs` | its theorems |
| `MC...`, one for each state machine and one for the claims | instances for TLC |

Definitions named as slips ("Slip: ...") are the mistakes that each property is
tried against; no action uses them.

### TokenManager

`rows` is the table (an absent row has no credentials and is not enabled),
`locks` the map `Manager.locks`, `valid` and `issued` the OAuth server; the other
variables are the locals of each Go call. A *worker* is a proxy request:

| Action | Code |
|---|---|
| `SelectToken`, `Acquire`, `GetToken`, `GetTokenFails` | `Borrow`: the selection, `lock.Lock()`, the second look at the row; `Reauthenticate` shares the last three |
| `OAuthRotates`, `OAuthRenews`, `OAuthRefuses`, `ReplyLost` | `doRefresh` and the server behind it; a reply without `refresh_token` keeps the old one |
| `RecordFailure`, `StoreCredentials`, `StoreFails` | `refreshAndStore`, each with the deferred `Unlock` |
| `UpstreamAnswers`, `UpstreamRejects`, `ReportAuthFailure` | what `callUpstream` does next with the token |

A *donor* is an `addToken` request of the admin interface: `DonateNew` (a
fresh login) or `DonateAgain` (the form is sent twice), the same OAuth actions,
then `DonateStore` (`UpsertToken`) or `DonateFails`. `DisableToken`, `Expire`
and `Crash` come at any time; a crash empties mutexes and locals and keeps the
table and the OAuth server.

Credentials are serial numbers. `fresh` is the outcome of comparing the expiry
with the clock and the refresh buffer, so that `Expire` is all that time does.
A worker uses `presented` to send to OAuth, so "the row's refresh token is the
presented one" compares a local with the table.

Some rows do go dead in this code: a reply is lost, or not stored, after the
server rotated the token; or a donation spends a refresh token that a request
is spending. The history variable `contested` holds exactly these rows, until a
donation with live credentials heals them, and `StoredCredentialLive` says that
no *other* row is ever dead. `overtaken` holds the workers whose row was donated
anew after they read it under the mutex.

`CredentialCustody` is what the manager promises the donors: the refresh token
of a row is `kept`, `lent` to a request that will bring back another, or
`disputed`, which it becomes only when that request fails, the process dies, or a
donation is under way for the row. It knows of no mutex, request or OAuth server.
`CustodySpec` says that `TokenManager` implements it, with this mapping: a row is
disputed if it is in `contested`, and otherwise kept or lent as the OAuth
server accepts its refresh token or not (`CustodyOf`); `Donating` are the rows of
donors on their way to or from the OAuth server. An OAuth grant that rotates a row's token is
`Lend`, and any grant `Dispute` if a donor and a request have the same token on their way; `StoreCredentials` is
`Refresh`, `DonateStore` is `Donate`, a dropped grant is `Lose`, `Crash` is
`LoseAll`, and all else, `RecordFailure` included, is a stutter or only a donor
who comes or goes. A lent row is never written with what was lent, a written
token is in no other row, and a disabled row is enabled by `Donate` alone, also when a
refresh was in flight.

### CallUpstream

`lru` is the order that `ORDER BY last_used_at NULLS FIRST, created_at` gives: `<<u, t>>`
is in it when `u` comes before `t`. `call.cand` are the rows of a request's
snapshot that it has not tried to lock yet, `call.order` the order they had then. `SelectToken` takes
three steps, because PostgreSQL takes a snapshot (`SelectSnapshot`, with `now()`),
then walks it, skipping rows that are locked and rechecking the row's own
columns (`SelectLock`), and releases the row lock at commit (`SelectCommit`).
What a snapshot said of *other* rows is not rechecked. `FindRetryAt` is the
second query, which decides between 429 and 503. `Borrow` and `Reauthenticate`
have here the outcomes that `TokenManager` gives them (`Borrow`,
`BorrowRefreshed`, `BorrowGone`, `BorrowFails`, `Reauthenticate`,
`ReauthenticateFails`), with the health statements each makes. `Send` is any
answer upstream may give; `ReportRateLimit` and `ReportUsage` write the limit of
every row of the account, and wait for row locks.

The clock counts ticks. `Recheck` is the 5 minutes of `SelectToken`'s
`interval`, in ticks, and `Limits` the lengths that `resets_at` or the retry
header announces.

### RateLimiter

`buckets` is the map of the limiter; a bucket keeps `tokens` and `updated` (`seen`
is always set together with it). `Allow` and `Cleanup` hold the mutex of the
limiter throughout and are one step each. Tokens are counted in parts of a request,
`Unit` of which make one, so that a rate below one a second is a whole number;
a tick is a second. `Level` is what `Allow` finds once it has filled the bucket.

`RequestBudget` is what a key's holder is promised: a credit that grows with every
second up to the capacity, and that is forgotten, for a full one, only of a key that
nobody has asked for during `MaxIdle` (an hour in `RunJanitors`). `RateLimiter` fills
its buckets only when it looks at them and drops the idle ones, and refines it with
`credit` mapped to `Level` and `asked` to `updated` (`BudgetSpec`): `Allow` is `Admit`
or `Refuse`, `Tick` is `Pass`, `Cleanup` is `Forget`, and `OpenWindow` a stutter.

`CreateAPIKey` accepts every rate above 0 (the admin form asks for 0.1 a second, the
JSON request for nothing), and so do the modules. A key that earns its capacity within an
hour has a full bucket when it is dropped, so that being forgotten gives it nothing:
it comes to no more than its rate. A slower key, one of less than one request an
hour, gets a full bucket each time it has been idle for more than an hour, and
comes to one request an hour in place of its rate. `Earned` is the greater of the two,
and `WithinBudget` says that no window of time lets a key come to more than its
capacity and what it so earns; `OpenWindow` lets the observer begin to count anew at
any moment, so that it speaks of every window.

### StreamRelay

A request takes one of `RelaySSE` and `BufferSSE`; in the model both read one
stream in step, so that an invariant can compare what the two clients are told.
`upstream` and `pending` are `iterateSSE`: `ReadLines` reads the lines of an event,
`Dispatch` is the empty line or, after `EndOfBody`, the last call of `dispatch`;
`ReadError` forgets the pending event, as `scanner.Err` does. `relay` and `buffer`
are the two `streamState`s, `outbox` the frames that the relay still has to write
for an event: its client may leave before each of them (`ClientLeaves`), after
which a write is lost or fails (`WriteFails`).

| Action | Code |
|---|---|
| `RelayPasses` | an event handed on as it is, malformed ones included |
| `RelayPatches` | a terminal event: `patchTerminal`, the frame of the message made from the text, the frame of the response |
| `RelayRefuses`, `RelayPanics` | a response that is no object, and one that is `null`: the nil map of `patchTerminal` |
| `RelayReturns`, `RelayCutShort` | the end of `RelaySSE`, without and with its error frame |
| `BufferCollects`, `BufferRefuses`, `BufferReturns` | `BufferSSE`: each event, a malformed one, the checks after the last |

Text is a number of deltas, an item its kind and its place in the stream, a
response its output; `EventsAt` lists the events. `seen` is a history variable.

### PatchPayload

`PatchPayload` is a pure function, and so are the operators that stand for its
helpers, of the same names and in the same order (`Patched`). The one step,
`Patch`, applies them to a body; `Reject` is the 400 for a body that is no JSON
object. A body is a record of the fields that the function looks at, any of which
may be absent or of a wrong type; texts are values ("own", "default"), elements
of arrays are their types, and an item also holds the tools or instructions in it.

A client may send items of the two kinds that the proxy makes for a Lite model,
additional tools and developer messages, because it knows the format or has its
body from another proxy. The code does not look for them: they are passed on
like any other item, after the proxy's own, and upstream hears both. `AddedOnce`
therefore speaks of what the proxy adds. For the same reason a Lite body is not
left alone by a second patch: it finds neither tools nor instructions at the top, and puts
an empty list of tools and the default instructions before those in the input;
`PatchedTwice` says that this is all that it does. A body for an ordinary model
stays as it is.

### ServeHTTP

One action per way on through `ServeHTTP`, each a database statement, a call or
an answer with the early return after it: `Arrive`, `ArriveUnfit`, `Authenticate`, `LimitAllows`,
`LimitRefuses`, `ReadBody`, `BodyUnfit`, then the outcomes of `callUpstream`
(`NoToken`, `CallFails`, `PassOn`, `StartStream`, `StartBuffer`), the ends of
the streams (`EndStream`, `EndBuffer`, `Panic`) and `WriteRow` or `WriteRowFails`
for the deferred `h.record`. The modules above model the insides of these calls; here only
their outcomes count. `record` is the `db.RequestRecord` in the making, `answer`
the status that was sent, `log` the table `requests`. Around the handlers,
clients leave, an administrator creates and revokes keys, the janitor deletes old
rows, and `main` goes from `Signal` through `Drained` or `GiveUp` (the 15
seconds of `Shutdown`) to `Exit`, or is killed.

The history variable `excused` names what may go missing: a request whose row cannot be
written, that panics, that is killed or that outlasts the grace period.
The properties hold for every other request; a shutdown that waits excuses none.

### Startup

Each process that is ever started is an instance, so that a restart is another
instance. `Version[i]` is the number of scripts it brings along; script `n` is the
`n`-th file by name.

| Action | Code |
|---|---|
| `StartRefused`, `Start` | `main`: `config.Load`, the secret box, `db.Connect` |
| `Begin`, `Lock` | `pool.Begin`, and `pg_advisory_xact_lock`, which waits |
| `Skip`, `Check`, `Apply`, `Record` | the loop over the scripts: `SELECT EXISTS`, the script, `INSERT` |
| `Commit` | the transaction is committed, and the instance serves or, when the answer is lost, ends |
| `Fails` | any statement that errs, the 30 seconds of the start: the deferred `Rollback` |
| `End`, `SessionEnds` | the process is killed, cut off or stopped; later the database notices, rolls back and lets go of the lock |

`schema` and `recorded` are what is committed, of the tables and of
`schema_migrations`; `applied` and `noted` what each open transaction did
to them. A script fails on a schema that has its changes, or has not the tables of the
first one (`Fits`), as `CREATE`, `RENAME` and `ADD COLUMN` do. The older instances
may have left any older whole version.

### AdminPages

A tab has one request at a time: `Visit` and `Submit` send it with the browser's
cookie; `Refuse`, `Change` and `LoadPage` are the handler (`validCSRF`, the statement,
`issueCSRFToken` and the page); `Redirect`, `PageArrives` and `LoadFails` are the
browser. A key is created by a form whose answer is the page itself, so that a page
that fails to load loses the key. `Poll` and `EndPoll` are `refresh` of
`dashboard.js` and `dashboardData`. Scripts send JSON without a cookie: their
change, and a change whose client is gone when it is committed, are `ChangeAlone`.
`Expire` ends the cookie's seven days at any time. `told` and `unseen` are
history variables: how often each key was told to somebody, and the keys whose answer
failed or was lost.

## Runs

| Run | Instance | What it shows |
|---|---|---|
| `token_manager` | 2 rows, 2 workers, 1 donor, 3 credentials, threshold 2 | `MutexHolder`, `RefreshIsCurrent`, `NoRedundantRefresh`, `StoredCredentialLive`, `RetryUsesNewCredential`, `HealthFollowsFailures`, `CustodySpec`: the manager implements `CredentialCustody`, and `BorrowReturns`: whoever waits for a mutex returns |
| `call_upstream` | 2 requests, 2 tokens of 2 accounts, one of which may move to the other's, one may be disabled; threshold 2; limits of one tick | `RowLockHolder`, `Kept429Returned`, `OnlySuccessLiftsLimits` |
| `call_upstream_live` | 2 requests, 2 tokens of one account | `EveryRequestEnds`: the loop is finite |
| `rate_limiter` | keys with a quarter, half, and one and a half of a request a second; 5 seconds, buckets idle after 2 | `WithinBudget`, and `BudgetSpec`: the limiter implements the credit |
| `stream_relay` | every stream of up to 3 of the 18 events | `ClientLearnsEnd`, `MessageMadeOnce`, `NothingStreamedIsLost`, `SameAnswer` |
| `serve_http` | 2 requests, 2 keys, 1 token | `UseIsLogged`, `LogTellsTheAnswer`, `RevokedKeyIsRefused`, `EveryoneIsAnswered` |
| `payload` | bodies with up to 3 items, which may be additional tools and developer messages, 2 tools and 2 includes, or fields of a wrong type; every combination of the other fields | `ClientIsHeard`, `AddedOnce`, `PatchedTwice` |
| `startup` | one instance with 2 scripts, two with 3; the database has any number of the scripts of one of them | `ScriptsFit`, `AllOrNothing`, `ServesMigrated`, and `LockIsPassedOn` |
| `admin_pages` | 2 tabs and scripts, 1 key, 1 label, 2 cookies | `KeyToldOnce`, `FormsStayValid`, `RevokedStaysRevoked` |
| `claim_rejected` | 1 token, 2 requests | violated, see Findings |
| `claim_probe` | 2 tokens, 2 requests, 1 account | violated |
| `claim_older_limits` | 2 tokens, 2 requests, 1 account | violated |

Every passing run but `call_upstream_live` checks `TypeOK` as well.

**Bounds.** `MaxIssued` caps the OAuth server; 3 credentials are a donation
(one refresh token), its exchange and one refresh, which is what the double spend
needs: the second request presents what the first one spent. At the bound the server
can only refuse. (The invariants of the proofs, which hold for every bound, were
also checked with 4.) Two rows show that one row's mutex is not another's; two
workers and a donor are the three parties that can meet on a row, and one
worker can be overtaken at the mutex by the other again and again. In
`CallUpstream` two requests are enough for every pairwise overlap of statements,
two tokens for failover and for accounts that share a limit, `Threshold = 2`
separates "failed" from "unhealthy", and with `Recheck = 1` and `MaxClock = 2` a
limit saved in the first tick ends in the second, and one saved in the second
outlasts the recheck interval, so that its account is probed. In `RateLimiter` two
seconds of idleness fill the buckets of two keys, of one of them just, and half of
the third's, which stands for a key of less than a request an hour; five
seconds hold a burst, a cleanup and the burst after it. Three events are a terminal
event, repeated, after a delta, or a delta and an item before it; the properties
also hold for four (7.2 million states), which takes too long for every run. In `ServeHTTP` requests meet only in the log, the keys
and the process, so that two are enough to find what one does to another; two keys
let one be revoked while the other is not. In `Startup` the older instance meets two newer ones: one
that holds the lock and one that waits behind it, with a script that the older does
not know. In `AdminPages` two tabs share the cookie, and a second cookie lets
an expired one be replaced; keys do not meet but in the list of a page.
Symmetry (of requests in `CallUpstream`, of tabs and of cookies in `AdminPages`, of requests in
`ServeHTTP`) is used in runs without liveness only. `CHECK_DEADLOCK FALSE` is set for
`CallUpstream`, where the bounded clock and the finite set of requests really
end, and for all others but
`TokenManager`, whose clock, stream, body, processes and cookies come to an end;
`TokenManager` never stops.

**Fairness.** `LiveSpec` of `TokenManager` is strongly fair to `Acquire`: a Go
`sync.Mutex` hands itself to a waiter that has starved for a millisecond, and the
holder always gives it back. It is weakly fair to the read of the row (the
database answers or errs), to the OAuth server's answer (the OAuth client has a
timeout, which is `OAuthRefuses`) and to the write that follows. Nothing is
assumed of clients, upstream, donors, administrators or time. `LiveSpec` of
`CallUpstream` is weakly fair to each request's next step: the database and
upstream answer, or the request's context or the upstream timeout ends the wait
with an error, which is one of the step's outcomes. `LiveSpec` of `Startup` is weakly
fair to each instance's next statement and to `SessionEnds`: the database answers,
and TCP keepalive tells it of a session that nobody is behind. That the 30 seconds
of the start end a wait is not assumed, so that `LockIsPassedOn` says
that nobody needs them.

## Findings

Each is a run in which TLC shows the code doing other than its own words.

* `claim_rejected`: `callUpstream` says "Tokens that failed auth stay in the pool
  until they hit the failure threshold". A token that upstream rejects even
  after a refresh is counted once (`ReportAuthFailure`), and the next request's
  refresh sets the count to zero again (`UpdateTokenCredentials`). With a
  threshold of two or more it never leaves the pool.
* `claim_probe`: `SelectToken` says "An account out of quota still gets one
  request every 5 minutes". Two overlapping statements read the same
  `last_used_at` in their snapshots; the second skips the row that the first has
  locked and takes another of the account.
* `claim_older_limits`: `ReportUsage` says "Upstream accepted a request, so
  whatever limit we had saved is over". It clears also a limit that upstream
  announced after it accepted the request whose report comes late.

## Proofs

Each state machine has a module of theorems, which state every property that a
passing run checks but the three on liveness; all of them hold for
every value of the constants (the pool of `CallUpstream` is a sequence and so finite; other sets need not be), and rest on the modules' named `ASSUME`s only.

`TokenManagerProofs`, for every set of rows, workers and donors and every threshold
and bound:

| Theorem | Property | Argument |
|---|---|---|
| `TypeCorrect` | `TypeOK` | with `PlacesOK` (a request that is not idle has a row; donors never hold or wait for a mutex), preserved action by action |
| `MutexSafe` | `MutexHolder` | `MutexKept` for steps that do not cross the critical section, `MutexReleased` for those that leave it, `Acquire` by its guard |
| `RefreshSafe` | `RefreshIsCurrent` | from the inductive invariant `Holding` |
| `RefreshNeeded` | `NoRedundantRefresh` | the same |
| `HealthSafe` | `HealthFollowsFailures` | every step leaves the table alone or applies one of five statements to one row (`StatementsOnly`), and each of them keeps the two columns in step (`RowOperatorsInStep`) |
| `StoredLive` | `StoredCredentialLive` | from the inductive invariant `Chained`, below |
| `RetryIsNew` | `RetryUsesNewCredential` | from `Renewed`: access tokens are numbered as they are issued, and a grant that follows a rejection is newer than the rejected token (`Newer`), so what the retry holds is another (`RetryNewer`) |
| `ManagerKeepsCustody` | `CustodySpec` | `StepCustody`: under `Custodial` (`Chained`, `Newer` and `Grounded`) every step is one of `CredentialCustody` or changes nothing of it, below |

`CallUpstreamProofs`, for any pool, accounts, requests, threshold and limits:

| Theorem | Property | Argument |
|---|---|---|
| `CallTyped` | `TypeOK` | with the other two below, which are inductive only together (`IInv`) |
| `RowLockSafe` | `RowLockHolder` | `LocksStay` for the steps away from `SelectToken`, then its three steps |
| `Kept429` | `Kept429Returned` | `Moved`: a request that keeps a 429 ends with it or goes on |
| `LimitsLifted` | `OnlySuccessLiftsLimits` | `LiftsLimits` of each step; limits grow or stay but in `ReportUsage` |

`StreamRelayProofs`, for streams of any length (the bound `MaxEvents` is any number):

| Theorem | Property | Argument |
|---|---|---|
| `RelayTyped` | `TypeOK` | from `Sized`: the lengths of text and output follow the number of events |
| `EndIsTold` | `ClientLearnsEnd` | from `Told`: a running relay that has remembered the end of the answer has the event among its frames, sent or not |
| `MadeOnce` | `MessageMadeOnce` | from `Once`: a message that waits is the first of the frames and counts the deltas so far (`Waiting`); one that was sent is alone, and no other will come (`Delivered`, `Counted`) |
| `AnswersAgree` | `SameAnswer` | from `InStep`: until an event ends the answer the two readers are in one state; from then on the relay has handed over (`Handed`) what the buffer owes (`Owed`) |
| `AllIsKept` | `NothingStreamedIsLost` | from `Whole`: the output that the relay collects lists every item so far (`Listed`), has the message once it was made, and so does every frame that was made of it (`Complete`) |

`StartupProofs`, for any instances of any versions:

| Theorem | Property | Argument |
|---|---|---|
| `StartTyped` | `TypeOK` | from `IInv`, which is `TypeOK` and `Staged`: scripts 1 to `k` are committed, and what an instance that holds the lock has changed are those from `k + 1` to where it is |
| `ScriptsInOrder`, `WholeVersions`, `MigratedServes` | `ScriptsFit`, `AllOrNothing`, `ServesMigrated` | read off `Staged`; for `AllOrNothing`, which speaks of steps, only `Commit` changes the tables, and what its instance has changed are all scripts from `k + 1` to its last |

`AdminPagesProofs`, for any keys, labels, tabs and cookies:

| Theorem | Property | Argument |
|---|---|---|
| `PagesTyped` | `TypeOK` | from `Settled`, which all four rest on |
| `KeysToldOnce` | `KeyToldOnce` | `Fate`: a key is not made, told, lost, or on one tab's page; `Placed` ties a request's key to where the request is |
| `FormsValid` | `FormsStayValid` | `Placed`: a page keeps the cookie that its request brought |
| `RevokedStays` | `RevokedStaysRevoked` | `Revoked`: a page, a request and a poll that know of a revocation are never followed by an older view, as a tab has one poll at a time (`OnePoll`) |

`RateLimiterProofs`, for every set of keys and all rates:

| Theorem | Property | Argument |
|---|---|---|
| `LimiterTyped` | `TypeOK` | from the inductive invariant `Sound`: types, and `BucketBounded` (no bucket above its capacity or from the future) |
| `LimiterImplementsBudget` | `BudgetSpec` | `StepImplements`: every step of the limiter is a step of the budget or leaves `Level` alone; `CleanupLevels` maps the dropped buckets to forgotten keys, `TickLevels` uses the linear growth below the cap |
| `LimiterWithinBudget` | `WithinBudget` | from `Accounted`: what a key got through plus what it may still spend (`Worth`: its bucket, filled by what it earns) is within capacity plus `Earned` times time |
| `SteadyKeysKeepRate` | `WithinRate` (of the proofs) | from `WithinBudget`: a key that earns its capacity within `MaxIdle` (`Steady`) earns what its rate yields and no more |

`PatchPayloadProofs`, for bodies with inputs, tools and includes of any length:

| Theorem | Property | Argument |
|---|---|---|
| `PayloadTyped` | `TypeOK` | `Inv`: what is sent is `Patched(raw)`; `PatchedBody` follows the patches one by one |
| `ClientHeard` | `ClientIsHeard` | `FilteredPlaces`: the item in place `i` goes to the place that counts the kept items up to `i`; `SentInput`: the Lite prefix shifts all of them alike |
| `NothingElseAdded` | `AddedOnce` | `TellingTyped`, `SentInput`: the two items of the Lite prefix come first; `PassedItems`: behind them are as many as the client's that pass |
| `PatchTwice` | `PatchedTwice` | `PatchedAgain`: each patch finds its work done, as no later one undoes it; `LitePreparedAgain`, `LitePatchedAgain`: of a Lite body only the instructions are missing, so that a second prefix is all that is added |

The loop of `stripReasoningItems` is a recursive function (`Filtered`). What it
computes is shown by an induction over its turns that is carried out in the
module: `Induction` is the principle as a fact about a set of numbers, from the
library's `WFMin`; `LoopExists` that the recursion defines a function; and
`FilteredLoops` that `Filtered` is its last value.

`ServeHTTPProofs`, for any number of requests, keys and tokens:

| Theorem | Property |
|---|---|
| `ServeTyped` | `TypeOK` |
| `UseLogged` | `UseIsLogged` |
| `LogTrue` | `LogTellsTheAnswer` |
| `RevokedRefused` | `RevokedKeyIsRefused` |
| `Answered` | `EveryoneIsAnswered` |

All follow from one inductive invariant, `Handled`: what is known of a request at
each place of the handler (`Place`), of a record that has its status
(`Concluded`), of a request with a revoked key (`LateRefused`) and of the rows
(`RowsMatch`, `Logged`), and that a process that is about to end has excused
all its active requests (`StopExcuses`). `LocalKeeps` says that a step of one request
leaves all this alone for the others; `RefuseKeeps`, `ConcludeKeeps` and
`GoOnKeeps` are the three shapes of a handler's step.

The assumptions are the modules' named `ASSUME`s: workers and donors are
disjoint and do not contain `NoProc` (`ProcsAssumption`), `NoToken` is no row
(`NoTokenAssumption`), and the threshold is a natural number of at least one
(`ThresholdAssumption`, which `config.go` enforces); that `MaxIssued` is a natural
number (`MaxIssuedAssumption`) is about the model's own bound. TLC evaluates them in every
run. `RateLimiter` assumes a positive `Unit`, positive rates and a positive `MaxIdle`
(`RateAssumption`, `IdleAssumption`), and nothing of how they relate; `ServeHTTP` that `None` is neither key nor token; `CallUpstream` a
threshold and limits that are positive numbers, and that `None` is none of its sets;
`StreamRelay` a number of events; `Startup` that every version has a script;
`AdminPages` that keys and labels are different rows; `PatchPayload` that the bodies
of clients have the fields that its header names (`BodiesAssumption`) and that the names
which the proxy looks for are among those of tools and includes
(`NamesAssumption`). A client's items may be of any types, those that the proxy
makes included.

**Why `Holding` is needed.** `RefreshIsCurrent` is not inductive: nothing in it
stops a second worker from writing the row. `Holding` adds the types, that the
mutex is held by exactly the worker in its critical section, and both facts
that this worker knows of its row (`Knows`). Writes of credentials are then
three: by the holder itself, by a worker on a row that, by `HolderIsAlone`, is
another one, and by a donation, which puts the worker in `overtaken`. All other
statements leave credentials alone and can only make a row less fresh
(`SameCredentials`).

**Why `Chained` is needed.** `StoredCredentialLive` says that the refresh token of a
row that is not contested is one the OAuth server accepts. A step can break this
far from the row: a refresh spends the token it presents, wherever else that token is. So
`Chained` says where tokens are. A token is in one row, or on its way to or from that
row, only (`Has`, `Apart`), and was issued (`Issued`), so that a new one is nowhere
yet; what a request was granted is live (`GrantLive`) and known to nobody else
until it is stored (`GrantUnshared`); the mutex makes the request that presents a token the
only one to do so. Steps are sorted by what they do to refresh tokens:
submit a donated one, lose some, store a grant, change the table only, or nothing
(`Submits`, `Loses`, `Stores`, `TableOnly`, `Quiet`), and each shape keeps
`Chained`.

**The steps of `CustodySpec`.** The refinement goes by shapes as well: `CustodyShapes` sorts
the steps of `Next` by what they do to rows, `valid` and `contested`, and one lemma
maps each shape (`QuietCustody`, `SubmitCustody`, `GrantCustody`, `LoseCustody`,
`CrashCustody`, `DisableCustody`, `RefreshCustody`, `DonateCustody`). Two things
must be shown again and again. A step that touches one row must leave the
custody of the others alone although `valid` is shared: by `Chained`, what is
spent is in no other row. And a refresh must write another token than the
lent one, in no row and within the bound: by `Newer`, and by `Grounded`, which adds what
neither says: no more is issued than `MaxIssued`, an absent row has no
credential and is not enabled, requests work on rows that exist (so that a
refresh is never the first write of a row), and nothing is granted for no
token.

## Model-checked only

* Liveness (`BorrowReturns`, `EveryRequestEnds`, `LockIsPassedOn`) is out of the
  prover's reach.
* The claims are violated, and the runs show how.

## What the models leave out

* `TokenManager`: one manager, as `docker-compose.yml` deploys it; the mutexes are
  in memory, so two processes on one database would not exclude each other. A
  refresh token is donated under one label (two labels with one refresh token
  would spend each other's). A refresh keeps its row's account. A failing decryption is a
  failing query.
* `CallUpstream`: how `rateLimit` makes a time of resets, windows and the retry header; plan names and percentages, response headers and the token
  credited with a kept 429; overlapping selections are ordered in `lru` by their
  commits. The limit reason "usage" stands for `usage_limit_reached`, "temporary"
  for the others.
* `RateLimiter`: the rounding of float64; a change of a key's rate, which no
  statement of `internal/db` makes.
* `StreamRelay`: lines without a meaning, the fields that `setDefault` fills in,
  the wording of frames; the numbers that `responseDetailsFrom` reads are the
  response that they are read from (`Details`).
* `ServeHTTP`: copied headers, the counters of a key, statistics and the health page; a
  restart, since nothing but the table outlives the process.
* `PatchPayload`: texts and the fields that pass unchanged; the elements of an item
  but for the tools and instructions that the proxy puts there.
* `Startup`: what a script does but whether it fits; what an older instance that still
  serves finds renamed; the parsing of the configuration; the access log.
* `AdminPages`: basic authentication, statistics, layout.
  A page reads its lists in one step. The buttons of tokens are offered for any
  row, as only keys are compared with what a page shows.
* Not modelled: the numbers of the configuration (read once at the start; its checks are the
  assumptions), the secret box (a cipher; taken to return what was stored or to
  fail), templates and static files.

## Plan

1. **Done:** `TokenRows`, `TokenManager`, its run with liveness, and the theorems on
   all its invariants.
2. **Done:** `CallUpstream`, the claims, and the theorems on its invariants. Open: the
   token that a kept 429 is credited to.
3. **Done:** `RequestBudget` and `RateLimiter`, with the refinement proved.
4. **Done:** `StreamRelay`, and its theorems.
5. **Done:** `ServeHTTP` with API keys, the request log and the shutdown, and its
   theorems.
6. **Done:** `PatchPayload`, `Startup` and `AdminPages`, with their theorems.
7. **Done:** `CredentialCustody`, the abstract specification of each row's
   refresh token, and `TokenManager` shown to implement it.
8. Open: the columns `plan` and the percentages with the summary of the health page, and
   the counters of a key against the request log.
