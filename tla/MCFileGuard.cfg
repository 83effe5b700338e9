SPECIFICATION Spec
CONSTANTS
    p1 = p1  p2 = p2
    i1 = i1  i2 = i2
    u1 = u1  u2 = u2
    c1 = c1  c2 = c2
    Paths = {p1, p2}
    Inodes = {i1, i2}
    Contents = {c1, c2}
    Users = {u1, u2}
    None = None
    FirstInode <- TwoFiles
    FirstPolicy <- Leftover
    FirstContent <- SameContent
    FirstWatch = {p1}
    WatchLists = {{p1}, {p1, p2}}
    FifoSize = 1
    QueueSize = 1
    MaxCalls = 2
    MaxMoves = 2
CHECK_DEADLOCK FALSE
INVARIANTS StaysWatched LockRefuses BaselineIntact SighupNotLost
PROPERTY EventsHandled
