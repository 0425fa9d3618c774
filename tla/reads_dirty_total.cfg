\* One poll chain on a pool of ONE connection, reliable RPC, transient INSERT faults, and one
\* getBorrowerEvents request.
CONSTANTS
    t1 = t1  t2 = t2  c1 = c1  c2 = c2  r1 = r1
    None = None  Undefined = Undefined
    Int4Max <- MCInt4Max
    Tasks <- OneTask
    Clients <- OneClient
    Readers <- OneReader
    LoanIds <- SmallLoanIds
    BatchSize = 2
    MaxEvents = 2
    MaxLedger = 1
    StateRowInit = FALSE
    RpcFaults = FALSE
    DbFaults = TRUE
SPECIFICATION SpecR
INVARIANT PageWithinTotal
