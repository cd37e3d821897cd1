SPECIFICATION LiveSpec
CONSTANTS
    MaxMsgs = 4
    MaxTimers = 2
INVARIANTS
    TypeOK
    InOrder
    TimerHasWork
    AckedIsLive
PROPERTIES
    ImplementsFifo
    Drains
