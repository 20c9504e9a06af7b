\* Two requests that may share a key, while the process may stop.
SPECIFICATION Spec
CONSTANTS
    None = None
    Requests = {r1, r2}
    Keys = {k1, k2}
    Tokens = {t1}
SYMMETRY RequestSymmetry
INVARIANTS
    TypeOK
    UseIsLogged
    LogTellsTheAnswer
    RevokedKeyIsRefused
    EveryoneIsAnswered
CHECK_DEADLOCK FALSE
