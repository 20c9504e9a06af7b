\* Two requests probe a spent account at once.
SPECIFICATION HSpec
CONSTANTS
    t1 = t1
    t2 = t2
    a1 = a1
    Requests = {r1, r2}
    Tokens = {t1, t2}
    Accounts = {a1}
    None = None
    Pool <- TwoTokens
    AccountOf <- OneAccount
    Removable = {}
    Donations = {}
    Threshold = 2
    Recheck = 1
    Limits = {2}
    MaxClock = 2
PROPERTY
    OneProbePerInterval
CHECK_DEADLOCK FALSE
