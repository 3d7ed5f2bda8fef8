CONSTANTS
    None = None
    Torn = Torn
    DeviceIds = {"d1"}
    ApiKeyIds = {"k1"}
    Expiries = {None, 0}
    ApiKeyLimit = 1
    MaxTime = 1
    MaxVersion = 3
    MaxKeys = 2
    MaxFaults = 2
SPECIFICATION StoreSpec
INVARIANT StoredIsKept
PROPERTIES LatestOrNothing ExpiryOutlivesRotation
CHECK_DEADLOCK FALSE
