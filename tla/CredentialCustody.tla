-------------------------- MODULE CredentialCustody --------------------------
(***************************************************************************)
(* What the token manager promises the donor of a row: the row's refresh   *)
(* token, which can be spent once, is kept, or lent to one request that    *)
(* will bring back its successor.  A row's token is lost only when that    *)
(* request fails or the process dies, and is disputed only while somebody  *)
(* donates for the row; only a donation settles a dispute, and only one    *)
(* puts a disabled row back into rotation.                                 *)
(*                                                                         *)
(* A step concerns one row, but for the death of the process.              *)
(***************************************************************************)
CONSTANTS
    Rows,         \* the rows of the table
    Credentials,  \* refresh tokens
    None          \* the credential of an absent row

VARIABLES
    credential,   \* the refresh token in each row
    custody,      \* whether it can be used
    enabled,      \* whether the row is in rotation
    donating      \* the rows that somebody donates for

vars == <<credential, custody, enabled, donating>>

Init ==
    /\ credential = [t \in Rows |-> None]
    /\ custody = [t \in Rows |-> "none"]
    /\ enabled = [t \in Rows |-> FALSE]
    /\ donating = {}

-----------------------------------------------------------------------------
\* A request spends the refresh token of the row.
Lend(t) ==
    /\ custody[t] = "kept"
    /\ custody' = [custody EXCEPT ![t] = "lent"]
    /\ UNCHANGED <<credential, enabled>>

\* Another refresh token is written to the row, one that no other row has; for
\* one that was lent, never the spent one.
Written(t, c) ==
    /\ \A u \in Rows \ {t} : credential[u] # c
    /\ custody[t] = "lent" => c # credential[t]
    /\ credential' = [credential EXCEPT ![t] = c]

\* By a refresh, which creates no row and settles no dispute.
Refresh(t, c) ==
    /\ custody[t] # "none"
    /\ Written(t, c)
    /\ custody' = [custody EXCEPT ![t] = IF @ = "disputed" THEN @ ELSE "kept"]
    /\ UNCHANGED enabled

\* By a donation.  It may leave a dispute, if another call is still under way.
Donate(t, c) ==
    /\ t \in donating
    /\ Written(t, c)
    /\ \/ custody' = [custody EXCEPT ![t] = "kept"]
       \/ custody[t] = "disputed" /\ UNCHANGED custody
    /\ enabled' = [enabled EXCEPT ![t] = TRUE]

\* Two calls have one refresh token, one of them a donor's.
Dispute(t) ==
    /\ t \in donating
    /\ custody' = [custody EXCEPT ![t] = "disputed"]
    /\ UNCHANGED <<credential, enabled>>

\* What was lent is not brought back.
Lose(t) ==
    /\ custody[t] = "lent"
    /\ custody' = [custody EXCEPT ![t] = "disputed"]
    /\ UNCHANGED <<credential, enabled>>

Disable(t) ==
    /\ custody[t] # "none"
    /\ enabled' = [enabled EXCEPT ![t] = FALSE]
    /\ UNCHANGED <<credential, custody>>

\* The process dies, and with it all that was lent.
LoseAll ==
    /\ custody' = [t \in Rows |->
                     IF custody[t] = "lent" THEN "disputed" ELSE custody[t]]
    /\ UNCHANGED <<credential, enabled>>

\* Donors come and go in any step.
Next ==
    /\ donating' \in SUBSET Rows
    /\ \/ \E t \in Rows : \/ Lend(t) \/ Lose(t) \/ Dispute(t) \/ Disable(t)
                          \/ \E c \in Credentials : Refresh(t, c) \/ Donate(t, c)
       \/ LoseAll
       \/ UNCHANGED <<credential, custody, enabled>>

Spec == Init /\ [][Next]_vars

=============================================================================
