\* The database as the migration leaves it (one indexer_state row), a
\* reliable RPC and database, and the indexer kept running.
CONSTANTS
    t1 = t1  t2 = t2  c1 = c1  c2 = c2
    None = None  Undefined = Undefined
    Int4Max <- MCInt4Max
    Tasks <- OneTask
    Clients <- OneClient
    LoanIds <- SmallLoanIds
    BatchSize = 2
    MaxEvents = 1
    MaxLedger = 1
    StateRowInit = TRUE
    RpcFaults = FALSE
    DbFaults = FALSE
SPECIFICATION Spec
PROPERTY EventuallyIndexed
