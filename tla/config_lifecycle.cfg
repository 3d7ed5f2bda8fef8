CONSTANTS
    None = None
    c1 = c1
    c2 = c2
    Configs = {c1, c2}
    DeviceOf <- SameDevice
    SensitivityOf <- Sensitivity
    OneEngine = {c2}
    KeepCounts = {1, 2}
    MaxBackups = 3
    MaxRollbacks = 2
SPECIFICATION LifecycleSpec
INVARIANTS ExecutedWasApproved NewestSurvives AuditExplainsState
CHECK_DEADLOCK FALSE
