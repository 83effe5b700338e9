SPECIFICATION FairSpec
CONSTANTS
    i1 = i1  i2 = i2  i3 = i3
    a = a  b = b  d = d
    wd = wd  wa = wa
    Keys = {i1, i2, i3}
    Paths = {a, b, d}
    Dirs = {d}
    None = None
    Cap = 2
    Hash <- Collide
    FirstInode <- Files
    Watches = {wd, wa}
    Under <- Covers
    FirstWatch = {wd}
    MaxPolicies = 2
    RingSize = 1
    DedupSlots = {0, 1}
    DedupHash <- ByOp
    MaxMoves = 3
    MaxReloads = 1
CHECK_DEADLOCK FALSE
INVARIANTS CacheSound PolicyNamed NoStranger StaysGuarded
PROPERTIES  ShutsDown
