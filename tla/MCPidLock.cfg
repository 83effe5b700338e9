SPECIFICATION LockSpec
CONSTANTS
    p1 = p1  p2 = p2  p3 = p3  p4 = p4
    Procs = {p1, p2, p3, p4}
    None = None
CHECK_DEADLOCK FALSE
INVARIANT ExclusiveUntilRemoved
PROPERTY RefusedOnlyByRunning
