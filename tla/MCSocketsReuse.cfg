CONSTANTS
    s1 = s1  s2 = s2  s3 = s3
    NoSocket = NoSocket
    Sockets = {s1, s2, s3}
    MaxFd = 3
    MaxBatch = 2
    Uses <- ReuseUses
SPECIFICATION Spec
SYMMETRY Symmetry
INVARIANTS NoDanglingEvent OwnsDescriptor OwnInput
PROPERTIES QuietAfterDisconnect
