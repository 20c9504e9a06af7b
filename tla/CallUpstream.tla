---------------------------- MODULE CallUpstream ----------------------------
(***************************************************************************)
(* The failover loop callUpstream of internal/proxy/handler.go, with the   *)
(* selection of a token from the pool and the quota columns of the tokens  *)
(* table (internal/db/queries.go) and the reports of internal/token.       *)
(*                                                                         *)
(* A request borrows the least recently used selectable token, sends with  *)
(* it, and on 401/403 refreshes it and sends once more; on 429 it records  *)
(* the limit for the account and tries the next token, as it does when the *)
(* token failed.  It ends when upstream answered, when the pool is empty   *)
(* or hands a token back to it, or on an error.                            *)
(*                                                                         *)
(* The refresh itself (mutex, OAuth, stored credentials) is the subject of *)
(* TokenManager; here Borrow and Reauthenticate have its outcomes.  Time   *)
(* is a clock in ticks; a tick is one recheck interval divided by Recheck. *)
(***************************************************************************)
EXTENDS TokenRows, Sequences, FiniteSets

CONSTANTS
    Requests,     \* requests in flight, each one call of callUpstream
    Tokens,       \* the rows of the tokens table
    Accounts,     \* the ChatGPT accounts they belong to
    None,         \* no token, no request
    Pool,         \* the tokens in order of created_at
    AccountOf,    \* the account of each token at the start
    Removable,    \* the tokens that an administrator may disable
    Donations,    \* <<token, account>> that an administrator may donate anew
    Threshold,    \* TOKEN_FAILURE_THRESHOLD
    Recheck,      \* the 5 minutes between two requests of a spent account
    Limits,       \* lengths of the limits upstream announces
    MaxClock      \* bound: the last tick

ASSUME PoolAssumption ==
    /\ Pool \in Seq(Tokens)
    /\ Len(Pool) = Cardinality(Tokens)
    /\ {Pool[i] : i \in DOMAIN Pool} = Tokens
ASSUME AccountAssumption ==
    /\ AccountOf \in [Tokens -> Accounts]
    /\ Removable \subseteq Tokens
    /\ Donations \subseteq Tokens \X Accounts
ASSUME NoneAssumption == None \notin Tokens \cup Requests
ASSUME NumberAssumption ==
    /\ {Threshold, Recheck} \subseteq Nat \ {0}
    /\ MaxClock \in Nat /\ MaxClock >= Recheck
    /\ Limits \subseteq Nat \ {0}

VARIABLES
    clock,      \* now()
    rows,       \* the tokens table: health, account, last use, limit
    lru,        \* <<u, t>>: u comes before t by last_used_at, created_at
    rowLock,    \* the request whose SelectToken has locked the row
    pc,         \* where each request is, and how it ended
    call        \* the locals of each request's callUpstream

vars == <<clock, rows, lru, rowLock, pc, call>>

\* The locals of a call: the token it works with, now() of its SelectToken
\* statement, the rows that found and their order, callUpstream's attempted,
\* and the token behind lastRateLimit.
NewCall == [tok |-> None, began |-> 0, cand |-> {}, order |-> {},
            attempted |-> {}, limitedBy |-> None]

Tok(r) == call[r].tok

\* How callUpstream and ServeHTTP end: an upstream response is relayed, 503
\* "no token accounts are available", 429 "all token accounts have reached
\* their usage limits", or 502.
Ended == {"relayed", "unavailable", "limits", "failed"}

-----------------------------------------------------------------------------
\* limited_until > now(); an expired limit and none are the same.
Limited(row, now) == row.until > now

\* The NOT EXISTS of SelectToken: a row of the account has a limit that is
\* temporary, or that is the usage limit and was tried within Recheck.
Blocked(t, now) ==
    \E u \in Tokens :
        /\ rows[u].account = rows[t].account
        /\ Limited(rows[u], now)
        /\ \/ rows[u].reason # "usage"
           \/ rows[u].lastUsed + Recheck > now

Selectable(t, now) == Usable(rows[t]) /\ ~Blocked(t, now)

\* UpdateTokenQuota is for every row of the account of t, and waits for the
\* row locks of SelectToken statements.
Siblings(t) == {u \in Tokens : rows[u].account = rows[t].account}

Unlocked(S) == \A u \in S : rowLock[u] = None

WithLimit(row, until, reason) ==
    [row EXCEPT !.until = until, !.reason = reason]

\* UpdateTokenQuota without a new limit: the old one goes when it is cleared
\* or has expired.
LimitReviewed(row, clear) ==
    IF clear \/ row.until <= clock THEN WithLimit(row, 0, "none") ELSE row

Goto(r, place) ==
    /\ pc' = [pc EXCEPT ![r] = place]
    /\ UNCHANGED call

\* callUpstream returns; what is left of it is the 429 it may have kept.
End(r, how) ==
    /\ pc' = [pc EXCEPT ![r] = how]
    /\ call' = [call EXCEPT ![r] = [NewCall EXCEPT !.limitedBy =
                                      call[r].limitedBy]]

\* callUpstream ends because the pool has no token for it: with the 429 it
\* kept, or else as otherwise says.
EndWithoutToken(r, otherwise) ==
    End(r, IF call[r].limitedBy # None THEN "relayed" ELSE otherwise)

Init ==
    /\ clock = Recheck
    /\ rows = [t \in Tokens |->
                 [enabled |-> TRUE, healthy |-> TRUE, failures |-> 0,
                  account |-> AccountOf[t], lastUsed |-> 0,
                  until |-> 0, reason |-> "none"]]
    /\ lru = {p \in Tokens \X Tokens :
                \E i, j \in DOMAIN Pool : i < j /\ p = <<Pool[i], Pool[j]>>}
    /\ rowLock = [t \in Tokens |-> None]
    /\ pc = [r \in Requests |-> "borrow"]
    /\ call = [r \in Requests |-> NewCall]

-----------------------------------------------------------------------------
\* SelectToken, the statement's snapshot: the candidates and now().
SelectSnapshot(r) ==
    LET cand == {t \in Tokens : Selectable(t, clock)} IN
    /\ pc[r] = "borrow"
    /\ pc' = [pc EXCEPT ![r] = "scan"]
    /\ call' = [call EXCEPT ![r].began = clock, ![r].cand = cand,
                            ![r].order = lru \cap (cand \X cand)]
    /\ UNCHANGED <<clock, rows, lru, rowLock>>

\* FOR UPDATE SKIP LOCKED LIMIT 1: the first candidate that no other
\* statement has locked and that, as it is now, is still usable.
Lockable(t) == rowLock[t] = None /\ Usable(rows[t])

\* r locks the row of t; the statement is done with its candidates.
LockRow(r, t) ==
    /\ pc[r] = "scan"
    /\ rowLock' = [rowLock EXCEPT ![t] = r]
    /\ pc' = [pc EXCEPT ![r] = "chosen"]
    /\ call' = [call EXCEPT ![r].tok = t, ![r].cand = {}, ![r].order = {}]
    /\ UNCHANGED <<clock, rows, lru>>

\* Slip: the row locks of other statements do not count.
SelectLockIgnored(r) == \E t \in call[r].cand : LockRow(r, t)

SelectLock(r) ==
    \E t \in call[r].cand :
        /\ Lockable(t)
        /\ \A u \in call[r].cand : <<u, t>> \in call[r].order => ~Lockable(u)
        /\ LockRow(r, t)

\* The UPDATE of last_used_at commits and the row lock goes.  Statements
\* that overlap are ordered by their commits.
SelectCommit(r) ==
    LET t == Tok(r) IN
    /\ pc[r] = "chosen"
    /\ rows' = [rows EXCEPT ![t].lastUsed = call[r].began]
    /\ lru' = {p \in lru : p[1] # t} \cup ((Tokens \ {t}) \X {t})
    /\ rowLock' = [rowLock EXCEPT ![t] = None]
    /\ pc' = [pc EXCEPT ![r] = "borrowed"]
    /\ call' = [call EXCEPT ![r].began = 0]
    /\ UNCHANGED clock

\* The statement found nothing; a second query looks for the earliest end of
\* a limit and decides between 429 and 503.
FindRetryAt(r) ==
    /\ pc[r] = "scan"
    /\ \A t \in call[r].cand : ~Lockable(t)
    /\ EndWithoutToken(r, IF \E t \in Tokens : /\ Usable(rows[t])
                                               /\ Limited(rows[t], clock)
                            THEN "limits" ELSE "unavailable")
    /\ UNCHANGED <<clock, rows, lru, rowLock>>

\* Either query of SelectToken fails.
SelectFails(r) ==
    /\ pc[r] = "scan"
    /\ End(r, "failed")
    /\ UNCHANGED <<clock, rows, lru, rowLock>>

-----------------------------------------------------------------------------
\* A statement about one row waits for the row lock, and its error is logged
\* or ignored: the write happens, or nothing does.
MayWrite(t, row) ==
    \/ rowLock[t] = None /\ rows' = [rows EXCEPT ![t] = row]
    \/ UNCHANGED rows

\* The request goes to upstream with the token that it has.
GoSend(r, attempted) ==
    /\ pc' = [pc EXCEPT ![r] = "send"]
    /\ call' = [call EXCEPT ![r].attempted = attempted]

\* Slips: an attempted token is used again; the 429 that was kept is
\* forgotten.
TakeAgain(r) == GoSend(r, call[r].attempted \cup {Tok(r)})
TakeForgets429(r) ==
    IF Tok(r) \in call[r].attempted
      THEN End(r, "unavailable")
      ELSE GoSend(r, call[r].attempted \cup {Tok(r)})

\* callUpstream has a token from Borrow: one that it has tried before ends
\* the loop.
Take(r) ==
    IF Tok(r) \in call[r].attempted
      THEN EndWithoutToken(r, "unavailable")
      ELSE GoSend(r, call[r].attempted \cup {Tok(r)})

\* Borrow returns the row as it was selected.
Borrow(r) ==
    /\ pc[r] = "borrowed"
    /\ Take(r)
    /\ UNCHANGED <<clock, rows, lru, rowLock>>

\* GetToken, in Borrow and in Reauthenticate, reads a usable row.
GetToken(r) ==
    /\ pc[r] \in {"borrowed", "rejected"}
    /\ Usable(rows[Tok(r)])
    /\ \/ pc[r] = "borrowed" /\ Goto(r, "renewing")
       \/ pc[r] = "rejected" /\ Goto(r, "reauthenticating")
    /\ UNCHANGED <<clock, rows, lru, rowLock>>

\* Borrow returns credentials that it refreshed and stored, or that another
\* request did.
BorrowRefreshed(r) ==
    /\ pc[r] = "renewing"
    /\ MayWrite(Tok(r), HealthRestored(rows[Tok(r)]))
    /\ Take(r)
    /\ UNCHANGED <<clock, lru, rowLock>>

\* Borrow needs a refresh, and GetToken no longer finds the row: the error is
\* ErrNoAvailableTokens without a RetryAt, which ServeHTTP answers with 502.
BorrowGone(r) ==
    /\ pc[r] = "borrowed"
    /\ ~Usable(rows[Tok(r)])
    /\ EndWithoutToken(r, "failed")
    /\ UNCHANGED <<clock, rows, lru, rowLock>>

\* GetToken or the refresh in Borrow fails: the request ends, whatever other
\* tokens there are.
BorrowFails(r) ==
    /\ \/ pc[r] = "borrowed" /\ UNCHANGED rows
       \/ /\ pc[r] = "renewing"
          /\ MayWrite(Tok(r), FailureRecorded(rows[Tok(r)], Threshold))
    /\ End(r, "failed")
    /\ UNCHANGED <<clock, lru, rowLock>>

-----------------------------------------------------------------------------
\* send: upstream gets the request and answers, or the send fails.
\* accepted is 2xx, throttled 429, rejected 401 or 403, other the rest.
Send(r) ==
    /\ pc[r] \in {"send", "resend"}
    /\ \/ End(r, "failed")
       \/ \E answer \in {"accepted", "other", "throttled",
                         IF pc[r] = "send" THEN "rejected" ELSE "refused"} :
             Goto(r, answer)
    /\ UNCHANGED <<clock, rows, lru, rowLock>>

\* The loop goes round.
NextToken(r) ==
    /\ pc' = [pc EXCEPT ![r] = "borrow"]
    /\ call' = [call EXCEPT ![r].tok = None]

\* After the first 401 or 403, Reauthenticate returns refreshed credentials,
\* its own or another request's, and the request is sent again.
Reauthenticate(r) ==
    /\ pc[r] = "reauthenticating"
    /\ MayWrite(Tok(r), HealthRestored(rows[Tok(r)]))
    /\ Goto(r, "resend")
    /\ UNCHANGED <<clock, lru, rowLock>>

\* Reauthenticate returns an error: GetToken found no usable row or failed,
\* the refresh failed and is recorded, or its result could not be stored.
ReauthenticateFails(r) ==
    /\ \/ pc[r] = "rejected" /\ UNCHANGED rows
       \/ /\ pc[r] = "reauthenticating"
          /\ MayWrite(Tok(r), FailureRecorded(rows[Tok(r)], Threshold))
    /\ NextToken(r)
    /\ UNCHANGED <<clock, lru, rowLock>>

\* The second 401 or 403.
ReportAuthFailure(r) ==
    /\ pc[r] = "refused"
    /\ MayWrite(Tok(r), FailureRecorded(rows[Tok(r)], Threshold))
    /\ NextToken(r)
    /\ UNCHANGED <<clock, lru, rowLock>>

\* 429: the limit is saved for the account, and the loop keeps the response.
ReportRateLimit(r) ==
    /\ pc[r] = "throttled"
    /\ Unlocked(Siblings(Tok(r)))
    /\ \E length \in Limits, reason \in {"usage", "temporary"} :
          rows' = [u \in Tokens |->
                     IF u \in Siblings(Tok(r))
                       THEN WithLimit(rows[u], clock + length, reason)
                       ELSE rows[u]]
    /\ pc' = [pc EXCEPT ![r] = "borrow"]
    /\ call' = [call EXCEPT ![r].tok = None, ![r].limitedBy = Tok(r)]
    /\ UNCHANGED <<clock, lru, rowLock>>

\* 429, and its body cannot be read, or the limit cannot be saved.
ReportRateLimitFails(r) ==
    /\ pc[r] = "throttled"
    /\ End(r, "failed") \/ End(r, "relayed")
    /\ UNCHANGED <<clock, rows, lru, rowLock>>

\* Slip: whatever upstream answers clears the limit.
UsageClears(r) == TRUE

\* ReportUsage clears the account's limit after a 2xx.
UsageClearsLimit(r) == pc[r] = "accepted"

\* Any other answer: the account's limit is reviewed, errors are logged.
ReportUsage(r) ==
    /\ pc[r] \in {"accepted", "other"}
    /\ \/ /\ Unlocked(Siblings(Tok(r)))
          /\ rows' = [u \in Tokens |->
                        IF u \in Siblings(Tok(r))
                          THEN LimitReviewed(rows[u], UsageClearsLimit(r))
                          ELSE rows[u]]
       \/ UNCHANGED rows
    /\ End(r, "relayed")
    /\ UNCHANGED <<clock, lru, rowLock>>

-----------------------------------------------------------------------------
\* An administrator disables a token, or donates it anew for an account; the
\* limit that the row has stays in it.
DisableToken(t) ==
    /\ rowLock[t] = None
    /\ rows' = [rows EXCEPT ![t] = Disabled(@)]
    /\ UNCHANGED <<clock, lru, rowLock, pc, call>>

Donate(t, a) ==
    /\ rowLock[t] = None
    /\ rows' = [rows EXCEPT ![t] = [Donated(@) EXCEPT !.account = a]]
    /\ UNCHANGED <<clock, lru, rowLock, pc, call>>

Tick ==
    /\ clock < MaxClock
    /\ clock' = clock + 1
    /\ UNCHANGED <<rows, lru, rowLock, pc, call>>

-----------------------------------------------------------------------------
Step(r) ==
    \/ SelectSnapshot(r) \/ SelectLock(r) \/ SelectCommit(r)
    \/ FindRetryAt(r) \/ SelectFails(r)
    \/ Borrow(r) \/ GetToken(r) \/ BorrowRefreshed(r)
    \/ BorrowGone(r) \/ BorrowFails(r)
    \/ Send(r)
    \/ Reauthenticate(r) \/ ReauthenticateFails(r)
    \/ ReportRateLimit(r) \/ ReportRateLimitFails(r)
    \/ ReportUsage(r) \/ ReportAuthFailure(r)

Next ==
    \/ \E r \in Requests : Step(r)
    \/ \E t \in Removable : DisableToken(t)
    \/ \E d \in Donations : Donate(d[1], d[2])
    \/ Tick

\* The database and upstream answer, or the request's context ends.
Spec == Init /\ [][Next]_vars
LiveSpec == Spec /\ \A r \in Requests : WF_vars(Step(r))

-----------------------------------------------------------------------------
RowType == [enabled : BOOLEAN, healthy : BOOLEAN, failures : Nat,
            account : Accounts, lastUsed : Nat, until : Nat,
            reason : {"none", "usage", "temporary"}]
CallType == [tok : Tokens \cup {None}, began : 0 .. MaxClock,
             cand : SUBSET Tokens, order : SUBSET (Tokens \X Tokens),
             attempted : SUBSET Tokens, limitedBy : Tokens \cup {None}]

\* The places where a request has a token.
WithToken == {"chosen", "borrowed", "renewing", "send", "accepted", "other",
              "throttled", "rejected", "reauthenticating", "resend", "refused"}

TypeOK ==
    /\ clock \in Recheck .. MaxClock
    /\ rows \in [Tokens -> RowType]
    /\ lru \subseteq Tokens \X Tokens
    /\ rowLock \in [Tokens -> Requests \cup {None}]
    /\ pc \in [Requests -> {"borrow", "scan"} \cup WithToken \cup Ended]
    /\ call \in [Requests -> CallType]
    /\ \A r \in Requests : pc[r] \in WithToken <=> Tok(r) \in Tokens

\* A row is locked by exactly the statement that has chosen it, so that no
\* two requests take one row in overlapping statements.
RowLockHolder ==
    \A r \in Requests, t \in Tokens :
        rowLock[t] = r <=> pc[r] = "chosen" /\ Tok(r) = t

\* A client whose request met a 429 that was recorded gets that answer, or
\* one of upstream, or an error, but not the proxy's own word that the pool
\* is empty or limited.
Kept429Returned ==
    \A r \in Requests :
        call[r].limitedBy # None => pc[r] \notin {"unavailable", "limits"}

\* The limit of a row is lifted only when it has run out or a request that
\* upstream accepted reports its usage.
OnlySuccessLiftsLimits ==
    [][\A t \in Tokens :
          Limited(rows[t], clock) /\ rows'[t].until = 0 =>
              \E r \in Requests : /\ pc[r] = "accepted"
                                  /\ Tok(r) \in Siblings(t)]_vars

\* Every request ends: the loop over the pool is finite.
EveryRequestEnds == \A r \in Requests : <>(pc[r] \in Ended)

=============================================================================
