\* Every stream of up to 3 events, with a client that may leave and a body
\* that may break off anywhere.
SPECIFICATION Spec
CONSTANT
    MaxEvents = 3
INVARIANTS
    TypeOK
    ClientLearnsEnd
    MessageMadeOnce
    NothingStreamedIsLost
    SameAnswer
CHECK_DEADLOCK FALSE
