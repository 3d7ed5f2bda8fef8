CONSTANTS
    p1 = p1
    p2 = p2
    d1 = d1
    l1 = l1
    r1 = r1
    r2 = r2
    GC = gc
    None = None
    Proposals = {p1}
    Devices = {d1}
    LCs = {l1}
    RCs = {r1}
    DeviceOf <- OneDevice
    OriginOf <- OneOrigin
    TargetOf <- OneTarget
    LCSens <- AllMedium
    RCSens <- AllHigh
    GCSens <- AllHigh
    Wirings = {{r1}}
    LockTTL = 2
    RCTokenTTL = 1
    GCTokenTTL = 0
    ApprovalTimeout = 0
    HandlerTime = 1
    MaxTime = 1
    MaxSends = 2
    MaxCrashes = 1
SPECIFICATION Spec
INVARIANTS AppliedOnce HighIsAudited
PROPERTIES ProposalsWorkedOff
CHECK_DEADLOCK FALSE
