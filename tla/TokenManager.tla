---------------------------- MODULE TokenManager ----------------------------
(***************************************************************************)
(* The token manager of internal/token/manager.go over the tokens table.   *)
(*                                                                         *)
(* A worker is a proxy request: it borrows a token (Borrow), sends with    *)
(* its access token, and when upstream rejects that has it refreshed       *)
(* (Reauthenticate).  A donor is an administrator's request that inserts   *)
(* or replaces a row (Donate).  Workers serialise the refresh of one row   *)
(* through an in-memory mutex per row; donors and DisableToken do not take *)
(* it.  A refresh is a call to the OAuth server followed by a write of the *)
(* credentials it returned, and the server may spend the refresh token it  *)
(* was given, so a grant that is not written back leaves the row dead.     *)
(*                                                                         *)
(* Access tokens and refresh tokens are serial numbers drawn from one      *)
(* counter; NoCredential is the empty string.                              *)
(***************************************************************************)
EXTENDS TokenRows, FiniteSets

CONSTANTS
    Tokens,       \* the rows that may exist, by label
    Workers,      \* proxy requests in flight
    Donors,       \* donation requests in flight
    NoProc,       \* the holder of a mutex nobody holds
    NoToken,      \* the row of a request that works on none
    Threshold,    \* TOKEN_FAILURE_THRESHOLD
    MaxIssued     \* bound: credentials the OAuth server ever issues

Procs == Workers \cup Donors

ASSUME ProcsAssumption     == Workers \cap Donors = {} /\ NoProc \notin Procs
ASSUME NoTokenAssumption   == NoToken \notin Tokens
ASSUME ThresholdAssumption == Threshold \in Nat /\ Threshold >= 1
ASSUME MaxIssuedAssumption == MaxIssued \in Nat

NoCredential == 0
Credentials  == Nat

VARIABLES
    rows,       \* the tokens table: label -> health, credentials, expiry
    locks,      \* Manager.locks: label -> the worker holding its mutex
    pc,         \* where each request is
    tok,        \* the row each request works on
    rejected,   \* worker: the access token upstream rejected, if any
    held,       \* worker: the access token it sends with
    presented,  \* the refresh token in the request's OAuth call
    reply,      \* the credentials the OAuth call returned
    valid,      \* OAuth server: refresh tokens it would accept
    issued,     \* OAuth server: serial number of the last credential
    donated,    \* donors: the refresh token last submitted for each label
    contested,  \* history: rows whose refresh token was spent and its
                \* successor dropped, or was given to a donor's OAuth call
                \* while another call had it
    overtaken   \* history: workers whose row was donated anew since they
                \* read it under the mutex

serverVars  == <<valid, issued>>
historyVars == <<contested, overtaken>>
vars == <<rows, locks, pc, tok, rejected, held, presented, reply,
          serverVars, donated, historyVars>>

-----------------------------------------------------------------------------
\* An absent row is one whose credentials are empty and that is not enabled.
AbsentRow == [enabled |-> FALSE, healthy |-> TRUE, failures |-> 0,
              access |-> NoCredential, refresh |-> NoCredential,
              fresh |-> FALSE]
Present(row) == row.access # NoCredential

NoReply == [access |-> NoCredential, refresh |-> NoCredential]

\* needsRefresh: fresh is the outcome of the comparison of the row's expiry
\* with the clock plus the refresh buffer.
NeedsRefresh(row) == row.access = NoCredential \/ ~row.fresh

\* What a request may use without a refresh of its own: credentials that are
\* fresh and not the ones upstream rejected (Borrow has none rejected).
\* Slips: the check after Lock forgotten; the comparison with rejected
\* forgotten.
NothingReusable(row, refused) == FALSE
AnyFreshReusable(row, refused) == ~NeedsRefresh(row)
Reusable(row, refused) == row.access # refused /\ ~NeedsRefresh(row)

\* Slip: the new refresh token is not written.
WithAccessOnly(row, r) == [row EXCEPT !.access = r.access, !.fresh = TRUE]

\* The row with the credentials of an OAuth reply written to it.
WithReply(row, r) ==
    [row EXCEPT !.access = r.access, !.refresh = r.refresh, !.fresh = TRUE]

\* The places of a worker that holds the mutex of its row.
Critical == {"locked", "refresh", "granted", "refused"}

\* The requests on row t that have read a refresh token and not yet written
\* back what the OAuth server made of it.
Refreshing(t) == {p \in Procs : tok[p] = t /\ pc[p] \in {"refresh", "granted"}}

Init ==
    /\ rows = [t \in Tokens |-> AbsentRow]
    /\ locks = [t \in Tokens |-> NoProc]
    /\ pc = [p \in Procs |-> "idle"]
    /\ tok = [p \in Procs |-> NoToken]
    /\ rejected = [p \in Procs |-> NoCredential]
    /\ held = [p \in Procs |-> NoCredential]
    /\ presented = [p \in Procs |-> NoCredential]
    /\ reply = [p \in Procs |-> NoReply]
    /\ valid = {}
    /\ issued = 0
    /\ donated = [t \in Tokens |-> NoCredential]
    /\ contested = {}
    /\ overtaken = {}

-----------------------------------------------------------------------------
\* The request p is over: its Go call returned and its locals are gone.
Reset(p) ==
    /\ pc' = [pc EXCEPT ![p] = "idle"]
    /\ tok' = [tok EXCEPT ![p] = NoToken]
    /\ rejected' = [rejected EXCEPT ![p] = NoCredential]
    /\ held' = [held EXCEPT ![p] = NoCredential]
    /\ presented' = [presented EXCEPT ![p] = NoCredential]
    /\ reply' = [reply EXCEPT ![p] = NoReply]

Finish(p) == Reset(p) /\ overtaken' = overtaken \ {p}

\* The deferred Unlock.
Release(w) == locks' = [locks EXCEPT ![tok[w]] = NoProc]

\* Borrow or Reauthenticate returns a token with this access token.
Return(w, access) ==
    /\ pc' = [pc EXCEPT ![w] = "have"]
    /\ held' = [held EXCEPT ![w] = access]
    /\ presented' = [presented EXCEPT ![w] = NoCredential]
    /\ reply' = [reply EXCEPT ![w] = NoReply]
    /\ overtaken' = overtaken \ {w}

\* The row the grant of p would have saved, when p drops it: the row still has
\* the refresh token p presented, and the server no longer accepts that.
DroppedBy(p) ==
    {t \in Tokens : /\ pc[p] = "granted" /\ tok[p] = t
                    /\ rows[t].refresh = presented[p]
                    /\ presented[p] \notin valid}

-----------------------------------------------------------------------------
\* Borrow: SelectToken returns a usable row (which one is the subject of
\* CallUpstream), and the row is used as it is unless it needs a refresh.
SelectToken(w, t) ==
    /\ pc[w] = "idle"
    /\ Usable(rows[t])
    /\ tok' = [tok EXCEPT ![w] = t]
    /\ IF NeedsRefresh(rows[t])
         THEN pc' = [pc EXCEPT ![w] = "want"] /\ UNCHANGED held
         ELSE /\ pc' = [pc EXCEPT ![w] = "have"]
              /\ held' = [held EXCEPT ![w] = rows[t].access]
    /\ UNCHANGED <<rows, locks, rejected, presented, reply, serverVars,
                   donated, historyVars>>

\* Slip: a mutex of its own for every call.
AcquireOwnMutex(w) ==
    /\ pc[w] = "want"
    /\ locks' = [locks EXCEPT ![tok[w]] = w]
    /\ pc' = [pc EXCEPT ![w] = "locked"]
    /\ UNCHANGED <<rows, tok, rejected, held, presented, reply, serverVars,
                   donated, historyVars>>

\* lock.Lock() on the row's mutex, in Borrow and in Reauthenticate.
Acquire(w) ==
    /\ pc[w] = "want"
    /\ locks[tok[w]] = NoProc
    /\ locks' = [locks EXCEPT ![tok[w]] = w]
    /\ pc' = [pc EXCEPT ![w] = "locked"]
    /\ UNCHANGED <<rows, tok, rejected, held, presented, reply, serverVars,
                   donated, historyVars>>

\* GetToken finds a usable row.  If its credentials can be reused they
\* are returned, otherwise its refresh token is taken to OAuth.
GetToken(w) ==
    LET row == rows[tok[w]] IN
    /\ pc[w] = "locked"
    /\ Usable(row)
    /\ \/ /\ Reusable(row, rejected[w])
          /\ Return(w, row.access)
          /\ Release(w)
       \/ /\ ~Reusable(row, rejected[w])
          /\ pc' = [pc EXCEPT ![w] = "refresh"]
          /\ presented' = [presented EXCEPT ![w] = row.refresh]
          /\ UNCHANGED <<locks, held, reply, overtaken>>
    /\ UNCHANGED <<rows, tok, rejected, serverVars, donated, contested>>

\* GetToken finds no enabled and healthy row, or the query fails.
GetTokenFails(w) ==
    /\ pc[w] = "locked"
    /\ Release(w)
    /\ Finish(w)
    /\ UNCHANGED <<rows, serverVars, donated, contested>>

-----------------------------------------------------------------------------
\* The OAuth server as refresh and doRefresh see it.

\* Another call has the refresh token of p, one of the two for a donor.
SharedWithDonor(p) ==
    \E q \in Refreshing(tok[p]) \ {p} :
        presented[q] = presented[p] /\ {p, q} \cap Donors # {}

Granted(p, refresh) ==
    /\ pc[p] = "refresh"
    /\ presented[p] \in valid
    /\ issued < MaxIssued
    /\ issued' = issued + 1
    /\ reply' = [reply EXCEPT ![p] = [access |-> issued', refresh |-> refresh]]
    /\ pc' = [pc EXCEPT ![p] = "granted"]
    /\ contested' = IF SharedWithDonor(p) THEN contested \cup {tok[p]}
                                          ELSE contested
    /\ UNCHANGED <<rows, locks, tok, rejected, held, presented, donated,
                   overtaken>>

\* A reply with a new refresh token: the server accepts only the new one.
OAuthRotates(p) ==
    /\ Granted(p, issued + 1)
    /\ valid' = (valid \ {presented[p]}) \cup {issued + 1}

\* A reply without refresh_token: the caller keeps the one it presented.
OAuthRenews(p) ==
    /\ Granted(p, presented[p])
    /\ UNCHANGED valid

\* The server refuses, answers without an access token, or is out of reach.
OAuthRefuses(p) ==
    /\ pc[p] = "refresh"
    /\ pc' = [pc EXCEPT ![p] = "refused"]
    /\ UNCHANGED <<rows, locks, tok, rejected, held, presented, reply,
                   serverVars, donated, historyVars>>

\* The server granted, and the caller sees a timeout, a cancelled context or
\* a response it cannot read.
ReplyLost(p) ==
    /\ pc[p] = "granted"
    /\ pc' = [pc EXCEPT ![p] = "refused"]
    /\ reply' = [reply EXCEPT ![p] = NoReply]
    /\ contested' = contested \cup DroppedBy(p)
    /\ UNCHANGED <<rows, locks, tok, rejected, held, presented, serverVars,
                   donated, overtaken>>

-----------------------------------------------------------------------------
\* Slip: a return without the Unlock.
RecordFailureKeepsLock(w) ==
    /\ pc[w] = "refused"
    /\ rows' = [rows EXCEPT ![tok[w]] = FailureRecorded(@, Threshold)]
    /\ Finish(w)
    /\ UNCHANGED <<locks, serverVars, donated, contested>>

\* refreshAndStore after a failed refresh: the failure is recorded, unless
\* that write fails too (its error is ignored), and the caller gets an error.
RecordFailure(w) ==
    /\ pc[w] = "refused"
    /\ rows' \in {rows, [rows EXCEPT ![tok[w]] = FailureRecorded(@, Threshold)]}
    /\ Release(w)
    /\ Finish(w)
    /\ UNCHANGED <<serverVars, donated, contested>>

\* refreshAndStore after a grant: UpdateTokenCredentials, by id alone.
StoreCredentials(w) ==
    /\ pc[w] = "granted"
    /\ rows' = [rows EXCEPT ![tok[w]] = HealthRestored(WithReply(@, reply[w]))]
    /\ Return(w, reply[w].access)
    /\ Release(w)
    /\ UNCHANGED <<tok, rejected, serverVars, donated, contested>>

\* refreshAndStore after a grant, when UpdateTokenCredentials fails.
StoreFails(w) ==
    /\ pc[w] = "granted"
    /\ contested' = contested \cup DroppedBy(w)
    /\ Release(w)
    /\ Finish(w)
    /\ UNCHANGED <<rows, serverVars, donated>>

-----------------------------------------------------------------------------
\* Upstream answers the request with something other than 401 or 403, or the
\* request fails: nothing of this module changes but the worker.
UpstreamAnswers(w) ==
    /\ pc[w] = "have"
    /\ Finish(w)
    /\ UNCHANGED <<rows, locks, serverVars, donated, contested>>

\* Upstream answers 401 or 403 to the first send: Reauthenticate.
UpstreamRejects(w) ==
    /\ pc[w] = "have"
    /\ rejected[w] = NoCredential
    /\ pc' = [pc EXCEPT ![w] = "want"]
    /\ rejected' = [rejected EXCEPT ![w] = held[w]]
    /\ held' = [held EXCEPT ![w] = NoCredential]
    /\ UNCHANGED <<rows, locks, tok, presented, reply, serverVars, donated,
                   historyVars>>

\* Upstream answers 401 or 403 to the second send as well.
ReportAuthFailure(w) ==
    /\ pc[w] = "have"
    /\ rejected[w] # NoCredential
    /\ rows' \in {rows, [rows EXCEPT ![tok[w]] = FailureRecorded(@, Threshold)]}
    /\ Finish(w)
    /\ UNCHANGED <<locks, serverVars, donated, contested>>

-----------------------------------------------------------------------------
\* Donate: the refresh token submitted for label t, a new one from a login
\* at the OAuth server or the one last submitted for that label, is taken to
\* the OAuth server without the row's mutex.
DonateSubmit(d, t, refresh) ==
    /\ pc[d] = "idle"
    /\ pc' = [pc EXCEPT ![d] = "refresh"]
    /\ tok' = [tok EXCEPT ![d] = t]
    /\ presented' = [presented EXCEPT ![d] = refresh]
    /\ donated' = [donated EXCEPT ![t] = refresh]
    /\ UNCHANGED <<rows, locks, rejected, held, reply, historyVars>>

DonateNew(d, t) ==
    /\ issued < MaxIssued
    /\ issued' = issued + 1
    /\ valid' = valid \cup {issued'}
    /\ DonateSubmit(d, t, issued + 1)

DonateAgain(d, t) ==
    /\ donated[t] # NoCredential
    /\ DonateSubmit(d, t, donated[t])
    /\ UNCHANGED serverVars

\* Donate after a grant: UpsertToken.  It heals a contested row if the
\* credentials are live and nobody else is about to write the row.
DonateStore(d) ==
    LET t == tok[d] IN
    /\ pc[d] = "granted"
    /\ rows' = [rows EXCEPT ![t] = Donated(WithReply(@, reply[d]))]
    /\ Reset(d)
    /\ overtaken' = overtaken \cup {w \in Workers :
                        tok[w] = t /\ pc[w] \in {"refresh", "granted", "refused"}}
    /\ contested' = IF reply[d].refresh \in valid /\ Refreshing(t) = {d}
                      THEN contested \ {t} ELSE contested
    /\ UNCHANGED <<locks, serverVars, donated>>

\* Donate gives up: the refresh failed, the grant names no account, or the
\* upsert failed.
DonateFails(d) ==
    /\ pc[d] \in {"granted", "refused"}
    /\ contested' = contested \cup DroppedBy(d)
    /\ Finish(d)
    /\ UNCHANGED <<rows, locks, serverVars, donated>>

-----------------------------------------------------------------------------
\* An administrator disables the row.
DisableToken(t) ==
    /\ Present(rows[t])
    /\ rows' = [rows EXCEPT ![t] = Disabled(@)]
    /\ UNCHANGED <<locks, pc, tok, rejected, held, presented, reply,
                   serverVars, donated, historyVars>>

\* Time reaches the row's expiry less the refresh buffer.
Expire(t) ==
    /\ rows[t].fresh
    /\ rows' = [rows EXCEPT ![t].fresh = FALSE]
    /\ UNCHANGED <<locks, pc, tok, rejected, held, presented, reply,
                   serverVars, donated, historyVars>>

\* The process dies and starts again: requests and mutexes are gone, the
\* table and the OAuth server stay.
Crash ==
    /\ locks' = [t \in Tokens |-> NoProc]
    /\ pc' = [p \in Procs |-> "idle"]
    /\ tok' = [p \in Procs |-> NoToken]
    /\ rejected' = [p \in Procs |-> NoCredential]
    /\ held' = [p \in Procs |-> NoCredential]
    /\ presented' = [p \in Procs |-> NoCredential]
    /\ reply' = [p \in Procs |-> NoReply]
    /\ contested' = contested \cup UNION {DroppedBy(p) : p \in Procs}
    /\ overtaken' = {}
    /\ UNCHANGED <<rows, serverVars, donated>>

-----------------------------------------------------------------------------
OAuthAnswers(p) == OAuthRotates(p) \/ OAuthRenews(p) \/ OAuthRefuses(p)
Write(w) == RecordFailure(w) \/ StoreCredentials(w) \/ StoreFails(w)

WorkerStep(w) ==
    \/ \E t \in Tokens : SelectToken(w, t)
    \/ Acquire(w)
    \/ GetToken(w) \/ GetTokenFails(w)
    \/ OAuthAnswers(w) \/ ReplyLost(w)
    \/ Write(w)
    \/ UpstreamAnswers(w) \/ UpstreamRejects(w) \/ ReportAuthFailure(w)

DonorStep(d) ==
    \/ \E t \in Tokens : DonateNew(d, t) \/ DonateAgain(d, t)
    \/ OAuthAnswers(d) \/ ReplyLost(d)
    \/ DonateStore(d) \/ DonateFails(d)

Next ==
    \/ \E w \in Workers : WorkerStep(w)
    \/ \E d \in Donors : DonorStep(d)
    \/ \E t \in Tokens : DisableToken(t) \/ Expire(t)
    \/ Crash

\* sync.Mutex hands a starved waiter the lock in turn, so Acquire is strongly
\* fair.  The OAuth client has a timeout, and the database answers or errs.
Fairness ==
    \A w \in Workers :
        /\ SF_vars(Acquire(w))
        /\ WF_vars(GetToken(w) \/ GetTokenFails(w))
        /\ WF_vars(OAuthAnswers(w))
        /\ WF_vars(Write(w))

Spec == Init /\ [][Next]_vars
LiveSpec == Spec /\ Fairness

-----------------------------------------------------------------------------
RowType == [enabled : BOOLEAN, healthy : BOOLEAN, failures : Nat,
            access : Credentials, refresh : Credentials, fresh : BOOLEAN]
ReplyType == [access : Credentials, refresh : Credentials]

TypeOK ==
    /\ rows \in [Tokens -> RowType]
    /\ locks \in [Tokens -> Workers \cup {NoProc}]
    /\ pc \in [Procs -> {"idle", "want", "have"} \cup Critical]
    /\ tok \in [Procs -> Tokens \cup {NoToken}]
    /\ rejected \in [Procs -> Credentials]
    /\ held \in [Procs -> Credentials]
    /\ presented \in [Procs -> Credentials]
    /\ reply \in [Procs -> ReplyType]
    /\ valid \in SUBSET Credentials
    /\ issued \in Nat
    /\ donated \in [Tokens -> Credentials]
    /\ contested \in SUBSET Tokens
    /\ overtaken \in SUBSET Workers

\* The mutex of a row is held by exactly the worker that is between its Lock
\* and its deferred Unlock, on every path through Borrow and Reauthenticate.
MutexHolder ==
    \A w \in Workers, t \in Tokens :
        locks[t] = w <=> pc[w] \in Critical /\ tok[w] = t

\* From the read under the mutex to the write of the reply, the row keeps the
\* refresh token the worker took to the OAuth server, unless a donation
\* replaced it: no two workers spend one refresh token.
RefreshIsCurrent ==
    \A w \in Workers \ overtaken :
        pc[w] \in {"refresh", "granted", "refused"}
            => presented[w] = rows[tok[w]].refresh

\* A worker refreshes only a row that needs it or whose access token upstream
\* rejected: what another request refreshed meanwhile is used as it is.
NoRedundantRefresh ==
    \A w \in Workers \ overtaken :
        pc[w] = "refresh" => \/ NeedsRefresh(rows[tok[w]])
                             \/ rows[tok[w]].access = rejected[w]

\* The refresh token in a row is one the OAuth server accepts, or the request
\* that spent it still has the successor to write; the exceptions are the
\* rows of contested.
StoredCredentialLive ==
    \A t \in Tokens \ contested :
        Present(rows[t]) =>
            \/ rows[t].refresh \in valid
            \/ \E p \in Procs : /\ pc[p] = "granted" /\ tok[p] = t
                                /\ presented[p] = rows[t].refresh

\* Reauthenticate never returns the access token that upstream rejected.
RetryUsesNewCredential ==
    \A w \in Workers :
        pc[w] = "have" /\ rejected[w] # NoCredential => held[w] # rejected[w]

\* healthy and consecutive_failures stay two views of one thing, whichever
\* statements of the workers and donors interleave.
HealthFollowsFailures ==
    \A t \in Tokens : rows[t].healthy <=> rows[t].failures < Threshold

\* The rows that a donor is taking a refresh token to the OAuth server for.
Donating ==
    {t \in Tokens : \E d \in Donors : tok[d] = t /\ pc[d] \in {"refresh", "granted"}}

CustodyOf(t) ==
    IF t \in contested THEN "disputed"
    ELSE IF ~Present(rows[t]) THEN "none"
    ELSE IF rows[t].refresh \in valid THEN "kept"
    ELSE "lent"

Custody == INSTANCE CredentialCustody
             WITH Rows <- Tokens,
                  Credentials <- 1 .. MaxIssued,
                  None <- NoCredential,
                  credential <- [t \in Tokens |-> rows[t].refresh],
                  custody <- [t \in Tokens |-> CustodyOf(t)],
                  enabled <- [t \in Tokens |-> rows[t].enabled],
                  donating <- Donating

\* The manager keeps the custody of each row's credential as CredentialCustody
\* promises: a refresh token that was spent is replaced or lost with the one
\* request that spent it, whatever happens to other rows; and a row taken out of
\* rotation comes back only by a donation for its label, not by a refresh that
\* was in flight when it was disabled.
CustodySpec == Custody!Spec

\* Every Borrow and Reauthenticate that waits for a mutex returns.
BorrowReturns ==
    \A w \in Workers : pc[w] = "want" ~> pc[w] \in {"idle", "have"}

=============================================================================
