------------------------------ MODULE TokenRows ------------------------------
(***************************************************************************)
(* The health columns of one row of the tokens table, and what the single  *)
(* SQL statements of internal/db/queries.go do to them.  Each statement is *)
(* atomic in PostgreSQL, so each is one operator from the old row to the   *)
(* new one.  A row is a record with at least the fields enabled, healthy   *)
(* and failures; the modules that use this one add fields of their own.    *)
(***************************************************************************)
EXTENDS Naturals

\* WHERE enabled = true AND healthy = true, in SelectToken and GetToken.
Usable(row) == row.enabled /\ row.healthy

\* Slips: the counter goes the wrong way; the old count is compared.
FailureCountedDown(row, threshold) == [row EXCEPT !.failures = @ - 1]
FailureOffByOne(row, threshold) ==
    [row EXCEPT !.failures = @ + 1, !.healthy = @ /\ row.failures < threshold]

\* RecordTokenFailure: one more consecutive failure, and unhealthy from the
\* threshold on.
FailureRecorded(row, threshold) ==
    [row EXCEPT !.failures = @ + 1,
                !.healthy  = @ /\ row.failures + 1 < threshold]

\* Slip: a refresh also puts the row back into rotation.
RestoredAndEnabled(row) ==
    [row EXCEPT !.healthy = TRUE, !.failures = 0, !.enabled = TRUE]

\* The health columns as UpdateTokenCredentials leaves them; enabled is kept.
HealthRestored(row) == [row EXCEPT !.healthy = TRUE, !.failures = 0]

\* The health columns as UpsertToken leaves them, inserted or updated.
Donated(row) == [HealthRestored(row) EXCEPT !.enabled = TRUE]

\* DisableToken: an administrator takes the row out of rotation.
Disabled(row) == [row EXCEPT !.enabled = FALSE]

=============================================================================
