SPECIFICATION FairSpec
CONSTANTS
    t1 = t1
    t2 = t2
    t3 = t3
    Timers <- ThreeTimers
    ErrorDelay = 5
    DiagDelay = 2
INVARIANTS TypeOK OwnTimer
PROPERTIES NotCutShort GoesAway
