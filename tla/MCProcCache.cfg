SPECIFICATION Spec
CONSTANTS
    p2 = p2  p3 = p3  p4 = p4
    Pids = {p2, p3, p4}
    Swapper = Swapper
    MaxEntries = 2
    MaxReap = 1
    Grace = 1
    MaxBirths = 3
    MaxRoots = 2
    MaxSkips = 1
    MaxTime = 2
SYMMETRY AnyPid
CHECK_DEADLOCK FALSE
INVARIANTS TypeOK MarkIsRight ChainIsTrue
PROPERTY LeavesForCause
