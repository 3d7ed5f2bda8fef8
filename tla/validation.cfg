CONSTANTS
    c1 = c1
    c2 = c2
    c3 = c3
    r1 = r1
    GC = gc
    None = None
    Candidates = {c1, c2, c3}
    RCs = {r1}
    TypeOf <- MCTypes
    ParentOf <- MCParents
    RegionOf <- ZoneA
    ScopeOf <- ScopeA
    ValidRegions = {"zone-A"}
    Skew <- NoSkew
    FreshnessWindow = 0
    ChallengeTimeout = 0
    MaxTime = 1
    MaxTries <- MCTries
    MaxSeq = 2
    MaxCrashes = 1
SPECIFICATION Spec
INVARIANTS IdentitiesUnique ValidatedIsRecorded
PROPERTIES CallsReturn
CHECK_DEADLOCK FALSE
