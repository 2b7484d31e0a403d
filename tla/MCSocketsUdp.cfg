CONSTANTS
    s1 = s1  s2 = s2  s3 = s3
    NoSocket = NoSocket
    Sockets = {s1}
    MaxFd = 1
    MaxBatch = 1
    Uses <- Impatient
SPECIFICATION Spec
INVARIANTS NoDanglingTimer
