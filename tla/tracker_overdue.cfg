\* The tracker for one borrower, with a clock of two ticks a day: a
\* response, time passing and a click on the Overdue tab.
CONSTANTS
    b1 = b1  b2 = b2  None = None
    Borrowers <- OneBorrower
    HasRefresh = FALSE
    MaxFetches = 2
    MaxLoans = 1
    MaxTime = 2
    DayLen = 2
SPECIFICATION Spec
CHECK_DEADLOCK FALSE
INVARIANT OverdueTabConsistent
