\* An instance of an older version and two of a newer, on any older schema.
SPECIFICATION LiveSpec
CONSTANTS
    i1 = i1
    i2 = i2
    i3 = i3
    Instances = {i1, i2, i3}
    NoInstance = NoInstance
    Version <- OneUpgrade
INVARIANTS
    TypeOK
    ScriptsFit
    ServesMigrated
PROPERTIES
    AllOrNothing
    LockIsPassedOn
CHECK_DEADLOCK FALSE
