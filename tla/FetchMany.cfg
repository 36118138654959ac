CONSTANTS
    NumUrls = 4
    Concurrencies = {0, 1, 2, 3}
    Workers = 2
    MayInterrupt = TRUE
SPECIFICATION FairSpec
INVARIANTS TypeOK AtMostConcurrency BatchIsAccountedFor
PROPERTIES NothingAfterStop BatchEnds
CHECK_DEADLOCK FALSE
