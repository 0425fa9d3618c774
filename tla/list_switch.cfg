\* The tracker whose parent passes another borrowerAddress while the
\* previous call is in flight.
CONSTANTS
    b1 = b1  b2 = b2  None = None
    Borrowers <- TwoBorrowers
    HasRefresh = FALSE
    MaxFetches = 3
    MaxLoans = 1
    MaxTime = 2
    DayLen = 2
SPECIFICATION Spec
CHECK_DEADLOCK FALSE
INVARIANT ShowsCurrentBorrower
