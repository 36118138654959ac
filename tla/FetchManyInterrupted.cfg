CONSTANTS
    NumUrls = 3
    Concurrencies = {2}
    Workers = 2
    MayInterrupt = TRUE
SPECIFICATION Spec
INVARIANT InterruptedIsNotSuccess
CHECK_DEADLOCK FALSE
