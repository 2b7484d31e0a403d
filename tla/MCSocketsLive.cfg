CONSTANTS
    s1 = s1  s2 = s2  s3 = s3
    NoSocket = NoSocket
    Sockets = {s1, s2}
    MaxFd = 2
    MaxBatch = 1
    Uses <- LiveUses
SPECIFICATION FairSpec
PROPERTIES EventuallyReleased DelayedShutdown
