CONSTANTS
    d1 = d1
    d2 = d2
    c1 = c1
    c2 = c2
    c3 = c3
    Devices = {d1, d2}
    Changes = {c1, c2, c3}
    DeviceOf <- Targets
    MaxConnections = 1
    SessionTimeout = 0
    MaxCalls = 4
SPECIFICATION Spec
INVARIANTS PoolBounded NoLeakedConnection  RefusedLeavesNoTrace
