CONSTANTS
    Origins = {http, https}
    TlsOrigins = {https}
    Socks = {s1, s2}
    MaxPerHost = 1
    MaxIdleSeconds = 1
    MaxTime = 2
    Calls = {c1, c2, c3}
    NoSock = NoSock
    NoCall = NoCall
    MaxStray = 1
    LateThreads = FALSE
SPECIFICATION Spec
SYMMETRY Symmetry
INVARIANTS TypeOK NoCrossTalk KeepsNoAnnouncedHangup NothingOpenAfterClose
PROPERTIES PoolIsUsedCorrectly
CHECK_DEADLOCK FALSE
