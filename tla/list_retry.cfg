\* The dashboard for one borrower: the mount call, Retry after failures and
\* Refresh of a shown list.  A page left alone makes no call, so the model
\* may stop.
CONSTANTS
    b1 = b1  b2 = b2  None = None
    Borrowers <- OneBorrower
    HasRefresh = TRUE
    MaxFetches = 20
    MaxLoans = 1
    MaxTime = 2
    DayLen = 2
SPECIFICATION Spec
CHECK_DEADLOCK FALSE
INVARIANT TypeOK
INVARIANT ErrorMatchesLastResponse
PROPERTY ScreenRefined
