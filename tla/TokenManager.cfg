\* Two requests and one donor on two rows: the refresh protocol, and its progress.
SPECIFICATION LiveSpec
CONSTANTS
    Tokens = {t1, t2}
    Workers = {w1, w2}
    Donors = {d1}
    NoProc = NoProc
    NoToken = NoToken
    Threshold = 2
    MaxIssued = 3
INVARIANTS
    TypeOK
    MutexHolder
    RefreshIsCurrent
    NoRedundantRefresh
    StoredCredentialLive
    RetryUsesNewCredential
    HealthFollowsFailures
PROPERTIES
    CustodySpec
    BorrowReturns
