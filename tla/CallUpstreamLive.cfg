\* Progress: every request over two tokens of one account ends.
SPECIFICATION LiveSpec
CONSTANTS
    t1 = t1
    t2 = t2
    a1 = a1
    a2 = a2
    Requests = {r1, r2}
    Tokens = {t1, t2}
    Accounts = {a1, a2}
    None = None
    Pool <- MCPool
    AccountOf <- OneAccount
    Removable = {}
    Donations <- NoDonation
    Threshold = 2
    Recheck = 1
    Limits = {1}
    MaxClock = 2
PROPERTY
    EveryRequestEnds
CHECK_DEADLOCK FALSE
