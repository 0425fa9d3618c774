\* One poll chain on a pool of one connection: the indexer as booted by
\* startIndexer, with faults of the RPC and of INSERT.
CONSTANTS
    t1 = t1  t2 = t2  c1 = c1  c2 = c2
    None = None  Undefined = Undefined
    Tasks <- OneTask
    Clients <- OneClient
    LoanIds <- SmallLoanIds
    Int4Max <- MCInt4Max
    BatchSize = 2
    MaxEvents = 3
    MaxLedger = 2
    StateRowInit = FALSE
    RpcFaults = TRUE
    DbFaults = TRUE
SPECIFICATION Spec
INVARIANT TypeOK
INVARIANT NoPartialBatch
PROPERTY StopTakesEffect
