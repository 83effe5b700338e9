SPECIFICATION FairSpec
CONSTANTS
    r1 = r1  r2 = r2 
    s1 = s1
    a = a  b = b
    Requests = {r1, r2}
    Sessions = {s1}
    Pins = {a, b}
    None = None
    lockoutLimit = 2
    Capacity = 2
    BurstLimit = 2
    MaxCalls = 4
    MaxEvents = 3
CHECK_DEADLOCK FALSE
INVARIANTS GuessesBounded FeedSound
PROPERTIES PinStays SessionsGoOn
