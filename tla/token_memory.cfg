CONSTANTS
    r1 = r1
    l1 = l1
    l2 = l2
    Issuers = {r1}
    Verifiers = {l1, l2}
    Devices = {d1, d2}
    SecretOf <- Regions
    Lifetimes = {1, 2}
    CleanupAt = 2
    MaxTime = 2
    MaxTokens = 3
    MaxVerifies = 3
    MaxCrashes = 1
SPECIFICATION Spec
INVARIANTS OncePerMemory ReplayIsReal
CHECK_DEADLOCK FALSE
