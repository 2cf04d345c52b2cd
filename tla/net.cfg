SPECIFICATION Spec
CONSTANTS
    Hosts = {ntp, github}
    NtpHost = ntp
    Addresses = {a}
    Nothing = Nothing
    Period = 16
    Deadline = 1
    Negative = 2
    Lifetimes <- OneOrThree
    Retry = 3
    Resync = 5
    QueueSize = 2
    CacheSize = 2
    LastTime = 14
INVARIANT FreshInTime
CHECK_DEADLOCK FALSE
