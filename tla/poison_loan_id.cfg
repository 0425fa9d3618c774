\* No indexer_state row, one event per batch, and loan ids that may not
\* fit the signed 32-bit loan_id column; reliable RPC and database.
CONSTANTS
    t1 = t1  t2 = t2  c1 = c1  c2 = c2
    None = None  Undefined = Undefined
    Int4Max <- MCInt4Max
    Tasks <- OneTask
    Clients <- OneClient
    LoanIds <- OverflowLoanIds
    BatchSize = 2
    MaxEvents = 1
    MaxLedger = 1
    StateRowInit = FALSE
    RpcFaults = FALSE
    DbFaults = FALSE
SPECIFICATION Spec
PROPERTY EventuallyIndexed
