SPECIFICATION FairSpec
CONSTANTS
    s1 = s1
    s2 = s2
    s3 = s3
    Sessions = {s1, s2}
    NoSession = NoSession
    MaxRest = 1
    MaxDbErrors = 1
    MaxAdmin = 1
CHECK_DEADLOCK FALSE
INVARIANTS SerialSound
PROPERTIES LiveIsOnline RefusedIsInert SerialOffline
