\* Over five seconds: a key that does not earn a request before it is forgotten,
\* one that just does, and one with more than a request a second.
SPECIFICATION Spec
CONSTANTS
    rare = rare
    slow = slow
    fast = fast
    Keys = {rare, slow, fast}
    Rate <- Rates
    Unit = 4
    MaxIdle = 2
    MaxTime = 5
INVARIANTS
    TypeOK
    WithinBudget
PROPERTY
    BudgetSpec
CHECK_DEADLOCK FALSE
