------------------------- MODULE CallUpstreamClaims -------------------------
(***************************************************************************)
(* What comments of the repository say about the pool, stated over         *)
(* CallUpstream with history variables that its steps do not read.      *)
(***************************************************************************)
EXTENDS CallUpstream

VARIABLES
    rejections, \* per token: recorded rejections after a refresh, in a row
    spent,      \* per request: accounts under a usage limit at its snapshot
    earlier,    \* per throttled request: those upstream had accepted before
    overtaken   \* accepted requests that a limit saved since is newer than

history == <<rejections, spent, earlier, overtaken>>
hvars == <<vars, history>>

HInit ==
    /\ Init
    /\ rejections = [t \in Tokens |-> 0]
    /\ spent = [r \in Requests |-> {}]
    /\ earlier = [r \in Requests |-> {}]
    /\ overtaken = {}

\* The request r goes from one of the places in before to one in after.
Moves(r, before, after) == pc[r] \in before /\ pc'[r] \in after

AnsweredOtherwise(t) ==
    \E r \in Requests : Tok(r) = t /\ Moves(r, {"send", "resend"},
                                  {"accepted", "other", "throttled"})

RejectionRecorded(t) ==
    \E r \in Requests :
        /\ Tok(r) = t
        /\ Moves(r, {"refused"}, {"borrow"})
        /\ rows'[t].failures > rows[t].failures

CountRejections ==
    rejections' = [t \in Tokens |->
        IF AnsweredOtherwise(t) \/ \E a \in Accounts :
                                      <<t, a>> \in Donations /\ Donate(t, a)
          THEN 0
        ELSE IF RejectionRecorded(t) /\ rejections[t] < Threshold
          THEN rejections[t] + 1
        ELSE rejections[t]]

NoteSpentAccounts ==
    spent' = [r \in Requests |->
        IF Moves(r, {"borrow"}, {"scan"})
          THEN {rows[t].account : t \in {u \in Tokens :
                  Limited(rows[u], clock) /\ rows[u].reason = "usage"}}
        ELSE IF pc'[r] \in {"scan", "chosen"} THEN spent[r]
        ELSE {}]

\* r was accepted on the account that q works with.
AcceptedBeside(r, q) ==
    pc[r] = "accepted" /\ Tok(r) # None /\ Tok(r) \in Siblings(Tok(q))

NoteOrderOfAnswers ==
    /\ earlier' = [q \in Requests |->
          IF Moves(q, {"send", "resend"}, {"throttled"})
            THEN {r \in Requests : AcceptedBeside(r, q)}
          ELSE IF pc'[q] = "throttled" THEN earlier[q]
          ELSE {}]
    /\ overtaken' = {r \in Requests :
          /\ pc'[r] = "accepted"
          /\ \/ r \in overtaken
             \/ \E q \in Requests : r \in earlier[q]
                                    /\ Moves(q, {"throttled"}, {"borrow"})}

HNext == /\ Next
         /\ CountRejections
         /\ NoteSpentAccounts
         /\ NoteOrderOfAnswers

HSpec == HInit /\ [][HNext]_hvars

-----------------------------------------------------------------------------
\* A token that upstream keeps rejecting leaves the pool once it has failed
\* Threshold times in a row: "Tokens that failed auth stay in the pool until
\* they hit the failure threshold" (callUpstream).
RejectedTokensLeavePool ==
    \A t \in Tokens : rejections[t] >= Threshold => ~rows[t].healthy

\* "An account out of quota still gets one request every 5 minutes"
\* (SelectToken): when a request takes a token of an account that was under a
\* usage limit, no token of it has been taken within the interval.
OneProbePerInterval ==
    [][\A r \in Requests :
          Moves(r, {"chosen"}, {"borrowed"}) /\ rows[Tok(r)].account \in spent[r]
          => \A u \in Siblings(Tok(r)) :
                rows[u].lastUsed + Recheck <= call[r].began]_hvars

\* "Upstream accepted a request, so whatever limit we had saved is over"
\* (ReportUsage): what an accepted request clears is no limit that upstream
\* announced after it accepted the request.
OnlyOlderLimitsCleared ==
    [][\A r \in overtaken :
          pc'[r] # "accepted" =>
              \A u \in Siblings(Tok(r)) :
                  Limited(rows[u], clock) => rows'[u].until # 0]_hvars

=============================================================================
