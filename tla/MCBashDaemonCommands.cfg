CONSTANTS
    prewarm = prewarm
    first = first
    c1 = c1
    c2 = c2
    Client = {c1, c2}
    Prewarm = {prewarm}
    Session = {prewarm, first}
    FaultKinds = {"crash", "start", "late", "presync", "alone"}
    MaxFaults = 2
SPECIFICATION FairSpec
INVARIANTS TypeOK NoCommandDropped RepeatedOnlyIfExcused
PROPERTIES EveryClientEnds StopIsFinal
CHECK_DEADLOCK FALSE
