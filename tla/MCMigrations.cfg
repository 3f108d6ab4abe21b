CONSTANTS
    b1 = b1
    b2 = b2
    SchemaVersion = 6
    Last = 4
    Guarded = {3}
    Optional = {4}
    Lacking = {4}
    Table = 2
    Boot = {b1, b2}
    FaultKinds = {"statement", "unlock", "connection"}
    MaxPolls = 2
    MaxFaults = 2
    MaxReboots = 1
SPECIFICATION FairSpec
INVARIANTS TypeOK OneMigrator StampedMeansComplete DoneMeansMigrated NoNeedlessWait
PROPERTIES LockIsReleased EveryBootEnds KeepsPromise
CHECK_DEADLOCK FALSE
