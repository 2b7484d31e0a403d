CONSTANTS
    s1 = s1  s2 = s2  s3 = s3
    NoSocket = NoSocket
    Sockets = {s1, s2}
    MaxFd = 2
    MaxBatch = 2
    Uses <- MostUses
SPECIFICATION Spec
SYMMETRY Symmetry
INVARIANTS TypeOK NoDangling EndsOnce
