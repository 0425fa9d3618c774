\* One poll chain on a pool of two connections: BEGIN, each SELECT and
\* INSERT, and COMMIT may each land on either connection.
CONSTANTS
    t1 = t1  t2 = t2  c1 = c1  c2 = c2
    None = None  Undefined = Undefined
    Int4Max <- MCInt4Max
    Tasks <- OneTask
    Clients <- TwoClients
    LoanIds <- SmallLoanIds
    BatchSize = 2
    MaxEvents = 3
    MaxLedger = 2
    StateRowInit = FALSE
    RpcFaults = FALSE
    DbFaults = TRUE
SPECIFICATION Spec
SYMMETRY Symmetry
INVARIANT NoDuplicateEvents
PROPERTY StoresOnlyLoanEvents
