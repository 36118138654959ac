CONSTANTS
    Timeouts = {0, 1, 2}
    Totals = {None, 0, 1, 3}
    None = None
    MaxAddresses = 3
    Horizon = 12
SPECIFICATION Spec
INVARIANTS TypeOK NoLateResponse DeadlineHolds
PROPERTY CallEnds
CHECK_DEADLOCK FALSE
