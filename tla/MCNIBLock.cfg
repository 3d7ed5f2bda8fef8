CONSTANTS
    r1 = r1
    r2 = r2
    dev = dev
    config_lock = config_lock
    device_lock = device_lock
    Controllers <- MCControllers
    Subjects <- MCSubjects
    LockTypes <- MCLockTypes
    TTLs <- MCTTLs
    MaxTime = 3
    MaxLocks = 2
    None = None
    OldRows <- MCOldRows
    Retention = 1
    BatchSize = 1
SPECIFICATION RSpec
INVARIANTS LeasesExclusive
PROPERTIES ReportIsComplete GrantOnlyIfFree LocksAreTimeBounded CleanupEnds
CHECK_DEADLOCK FALSE
