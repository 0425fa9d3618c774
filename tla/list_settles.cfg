\* The tracker whose parent changes borrowerAddress while calls are in
\* flight, and whose user retries and switches tabs while time passes: the
\* spinner still ends.
CONSTANTS
    b1 = b1  b2 = b2  None = None
    Borrowers <- TwoBorrowers
    HasRefresh = FALSE
    MaxFetches = 4
    MaxLoans = 1
    MaxTime = 2
    DayLen = 2
SPECIFICATION Spec
CHECK_DEADLOCK FALSE
PROPERTY LoadingSettles
