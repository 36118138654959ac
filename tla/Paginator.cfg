CONSTANTS
    Pages = {p1, p2, p3}
    First = p1
    Null = Null
    Odd = Odd
    Unhashable = Unhashable
    MaxPagesValues = {0, 1, 2, 3, 4}
SPECIFICATION Spec
INVARIANTS TypeOK NoPageTwice AtMostMaxPages EndsForAReason
CHECK_DEADLOCK FALSE
