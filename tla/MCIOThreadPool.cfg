SPECIFICATION FairSpec
CONSTANTS
    IOThread = {t1, t2}
    IOTask = {k1, k2}
    NoThread = NoThread
INVARIANTS IOJoinDrains IOSettled
PROPERTY IOCallsReturn
CHECK_DEADLOCK FALSE
