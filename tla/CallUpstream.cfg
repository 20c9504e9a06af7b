\* Two requests over two tokens of two accounts, one of which may move: safety.
SPECIFICATION Spec
CONSTANTS
    t1 = t1
    t2 = t2
    a1 = a1
    a2 = a2
    Requests = {r1, r2}
    Tokens = {t1, t2}
    Accounts = {a1, a2}
    None = None
    Pool <- MCPool
    AccountOf <- TwoAccounts
    Removable = {t1}
    Donations <- SecondMoves
    Threshold = 2
    Recheck = 1
    Limits = {1}
    MaxClock = 2
SYMMETRY RequestSymmetry
INVARIANTS
    TypeOK
    RowLockHolder
    Kept429Returned
PROPERTY
    OnlySuccessLiftsLimits
CHECK_DEADLOCK FALSE
