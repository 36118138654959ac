CONSTANTS
    Timeouts = {1, 2}
    Totals = {None, 3}
    None = None
    MaxAddresses = 3
    Horizon = 12
SPECIFICATION Spec
INVARIANT HardDeadline
CHECK_DEADLOCK FALSE
