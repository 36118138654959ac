CONSTANTS
    Origins = {http, https}
    TlsOrigins = {https}
    Socks = {s1, s2, s3}
    MaxPerHost = 2
    MaxIdleSeconds = 1
    MaxTime = 3
SPECIFICATION Spec
SYMMETRY Symmetry
INVARIANTS NoSocketLost
CHECK_DEADLOCK FALSE
