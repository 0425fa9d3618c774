\* One poll chain on a pool of two connections, and one
\* API request that may read on either connection at any point of a batch.
CONSTANTS
    t1 = t1  t2 = t2  c1 = c1  c2 = c2  r1 = r1
    None = None  Undefined = Undefined
    Int4Max <- MCInt4Max
    Tasks <- OneTask
    Clients <- TwoClients
    Readers <- OneReader
    LoanIds <- SmallLoanIds
    BatchSize = 2
    MaxEvents = 2
    MaxLedger = 1
    StateRowInit = FALSE
    RpcFaults = FALSE
    DbFaults = TRUE
SPECIFICATION SpecR
INVARIANT TypeOKR
INVARIANT ReadsDistinct
