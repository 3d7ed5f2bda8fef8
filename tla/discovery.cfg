CONSTANTS
    LCs = {l1, l2}
    Macs = {d1, d2}
    Snapshots = {s1, s2}
    Absent = Absent
    None = None
    MaxChanges = 3
    MaxCrashes = 1
SPECIFICATION Spec
INVARIANTS SoleWriterInSync CollisionsReal
PROPERTIES SoleObserverConverges
CHECK_DEADLOCK FALSE
