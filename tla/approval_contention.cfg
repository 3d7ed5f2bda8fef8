CONSTANTS
    p1 = p1
    p2 = p2
    d1 = d1
    l1 = l1
    r1 = r1
    r2 = r2
    GC = gc
    None = None
    Proposals = {p1, p2}
    Devices = {d1}
    LCs = {l1}
    RCs = {r1, r2}
    DeviceOf <- OneDevice
    OriginOf <- OneOrigin
    TargetOf <- TwoTargets
    LCSens <- AllMedium
    RCSens <- MediumHigh
    GCSens <- MediumHigh
    Wirings = {{r1, r2}, {r1}}
    LockTTL = 2
    RCTokenTTL = 1
    GCTokenTTL = 1
    ApprovalTimeout = 1
    HandlerTime = 1
    MaxTime = 3
    MaxSends = 1
    MaxCrashes = 0
SPECIFICATION Spec
INVARIANTS DeviceExclusive AppliedWithAuthority ExecutedIsTrue DenialReasonTells ExecutionIsLocked
CHECK_DEADLOCK FALSE
