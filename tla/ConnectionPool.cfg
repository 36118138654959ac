CONSTANTS
    Origins = {http, https}
    TlsOrigins = {https}
    Socks = {s1, s2, s3, s4}
    MaxPerHost = 2
    MaxIdleSeconds = 1
    MaxTime = 3
SPECIFICATION Spec
SYMMETRY Symmetry
INVARIANTS TypeOK Exclusive HeldIsOpen WithinCapacity AgeOrdered
PROPERTIES NothingExpiredBehindAHit
CHECK_DEADLOCK FALSE
