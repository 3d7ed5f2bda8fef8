CONSTANTS
    None = None
    Clients = {"u1"}
    Cost = 2
    Capacity = 3
    MaxIdle = 3
    LockoutThreshold = 2
    LockoutDuration = 3
    UserRoles = {"admin", "viewer"}
    AssignedRoles = {"global_controller", "regional_controller", "local_controller", "regional_admin"}
    MaxFailed = 2
    SessionLifetime = 1
    MaxTime = 4
    MaxRestarts = 1
    MaxResets = 1
    MaxTokens = 2
SPECIFICATION ASpec
INVARIANTS SessionSound AuthoritiesAgree
PROPERTIES MeterImplemented
CHECK_DEADLOCK FALSE
