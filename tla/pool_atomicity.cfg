\* The same pool of two connections, asking whether a failed storeEvents
\* leaves none of its rows behind.
CONSTANTS
    t1 = t1  t2 = t2  c1 = c1  c2 = c2
    None = None  Undefined = Undefined
    Int4Max <- MCInt4Max
    Tasks <- OneTask
    Clients <- TwoClients
    LoanIds <- SmallLoanIds
    BatchSize = 2
    MaxEvents = 2
    MaxLedger = 1
    StateRowInit = FALSE
    RpcFaults = FALSE
    DbFaults = TRUE
SPECIFICATION Spec
INVARIANT NoPartialBatch
