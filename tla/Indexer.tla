------------------------------- MODULE Indexer -------------------------------
(***************************************************************************)
(* The EventIndexer poll loop of the backend (src/unnamed/part_000) with   *)
(* the collaborators it writes through: the PostgreSQL pool of             *)
(* src/unnamed/part_001 (each query() runs on whichever pooled connection  *)
(* is idle), the loan_events / indexer_state tables created by the         *)
(* migration, and the Stellar RPC getEvents call over a growing chain of   *)
(* contract events.                                                        *)
(*                                                                         *)
(* Every `await` of the code is one step: a task is one asynchronous chain *)
(* poll -> indexEvents -> setTimeout -> poll ...  Two chains exist at once *)
(* only when stop() and start() are called while a cycle is in flight.    *)
(***************************************************************************)
EXTENDS Naturals, Sequences, FiniteSets

CONSTANTS
    Tasks,        \* slots for concurrent poll chains (bound on overlap)
    Clients,      \* connections of the pg pool
    BatchSize,    \* config.batchSize, the getEvents limit
    MaxEvents,    \* bound: contract events emitted on chain
    MaxLedger,    \* bound: latest closed ledger
    LoanIds,      \* u32 loan ids that events may carry in topic[2]
    StateRowInit, \* TRUE: the migration inserted the indexer_state row
    RpcFaults,    \* TRUE: getEvents may fail transiently
    DbFaults,     \* TRUE: an INSERT may fail transiently
    None,         \* no timer handle / no indexer_state row
    Undefined     \* the JavaScript value undefined (NaN after + 1)

ASSUME TasksAssumption == Tasks # {} /\ None \notin Tasks
ASSUME ClientsAssumption == Clients # {}
ASSUME BatchSizeAssumption == BatchSize \in Nat \ {0}
ASSUME BoundsAssumption == MaxEvents \in Nat /\ MaxLedger \in Nat \ {0}
ASSUME LoanIdsAssumption == LoanIds \subseteq Nat
ASSUME FlagsAssumption == {StateRowInit, RpcFaults, DbFaults} \subseteq BOOLEAN
ASSUME ValuesAssumption == None \notin Nat /\ Undefined \notin Nat

(* loan_events.loan_id is a PostgreSQL "integer": a signed 32-bit column. *)
Int4Max == 2^31 - 1

VARIABLES
    \* the chain, as the RPC serves it
    chain,        \* contract events in emission order
    latest,       \* latest closed ledger
    oldest,       \* oldest ledger still retained by the RPC
    \* the database
    table,        \* committed rows of loan_events, in SERIAL id order
    progress,     \* indexer_state.last_indexed_ledger, or None if no row
    open,         \* connection c has a transaction in progress
    aborted,      \* that transaction is in the aborted state
    pending,      \* rows inserted by that transaction, not yet committed
    \* the EventIndexer instance
    isRunning,
    pollTimeout,  \* the task whose timer this.pollTimeout holds
    pc,           \* where each chain is suspended
    startLedger,  \* state.lastIndexedLedger + 1 of the current cycle
    lo, hi,       \* response.events = chain[lo..hi]
    k,            \* position of the storeEvents loop
    waitingOn,    \* the connection an INSERT is blocked on, or None
    \* history of the current cycle, for the properties
    ins,          \* events this cycle INSERTed successfully
    failed        \* storeEvents threw in this cycle

chainVars == <<chain, latest, oldest>>
dbVars == <<table, progress, open, aborted, pending>>
taskVars == <<pc, startLedger, lo, hi, k, waitingOn, ins, failed>>
vars == <<chainVars, dbVars, isRunning, pollTimeout, taskVars>>

Event == [ledger : Nat, loan : BOOLEAN, loanId : LoanIds]
Row == [event : Nat, by : Tasks]
PCs == {"idle", "timer", "getState", "getEvents", "begin", "select",
        "insert", "rollback", "update"}

-----------------------------------------------------------------------------
(* Helpers over the database state.                                        *)

RowIds(s) == {s[i].event : i \in 1 .. Len(s)}
Committed == RowIds(table)
(* What a statement on connection c sees: committed rows and its own txn. *)
Visible(c) == Committed \cup RowIds(pending[c])
(* A row another open transaction has inserted makes a unique-index insert *)
(* of the same event_id wait for that transaction to end.                  *)
LockedElsewhere(c, e) == \E d \in Clients \ {c} : e \in RowIds(pending[d])

(* A failing statement inside a transaction puts it in the aborted state. *)
Fail(c) == aborted' = [aborted EXCEPT ![c] = open[c]]

-----------------------------------------------------------------------------
(* The chain: the contract emits events into the latest ledger, ledgers   *)
(* close, and the RPC forgets the oldest ledgers.                         *)

Emit ==
    /\ Len(chain) < MaxEvents
    /\ \E loan \in BOOLEAN, id \in LoanIds :
          chain' = Append(chain, [ledger |-> latest, loan |-> loan, loanId |-> id])
    /\ UNCHANGED <<latest, oldest, dbVars, isRunning, pollTimeout, taskVars>>

CloseLedger ==
    /\ latest < MaxLedger
    /\ latest' = latest + 1
    /\ UNCHANGED <<chain, oldest, dbVars, isRunning, pollTimeout, taskVars>>

Prune ==
    /\ oldest < latest
    /\ oldest' = oldest + 1
    /\ UNCHANGED <<chain, latest, dbVars, isRunning, pollTimeout, taskVars>>

-----------------------------------------------------------------------------
(* start() and stop().                                                     *)

Start ==
    /\ ~isRunning
    /\ \E t \in Tasks :
          /\ pc[t] = "idle"
          /\ isRunning' = TRUE
          /\ pc' = [pc EXCEPT ![t] = "getState"]
    /\ UNCHANGED <<chainVars, dbVars, pollTimeout, startLedger, lo, hi, k, ins, failed, waitingOn>>

Stop ==
    /\ isRunning' = FALSE
    /\ pc' = IF pollTimeout # None /\ pc[pollTimeout] = "timer"
               THEN [pc EXCEPT ![pollTimeout] = "idle"]
               ELSE pc
    /\ UNCHANGED <<chainVars, dbVars, pollTimeout, startLedger, lo, hi, k, ins, failed, waitingOn>>

(* The process exits (SIGTERM, SIGINT or a crash): the instance is gone   *)
(* and the server aborts the transactions of the closed connections.       *)
Crash ==
    /\ pc' = [t \in Tasks |-> "idle"]
    /\ isRunning' = FALSE
    /\ pollTimeout' = None
    /\ open' = [c \in Clients |-> FALSE]
    /\ aborted' = [c \in Clients |-> FALSE]
    /\ pending' = [c \in Clients |-> <<>>]
    /\ waitingOn' = [t \in Tasks |-> None]
    /\ UNCHANGED <<chainVars, table, progress, startLedger, lo, hi, k, ins, failed>>

-----------------------------------------------------------------------------
(* One poll chain.                                                         *)

(* poll() after indexEvents() settles: this.pollTimeout = setTimeout(...). *)
ArmTimer(t) ==
    /\ pc' = [pc EXCEPT ![t] = "timer"]
    /\ pollTimeout' = t

(* Mutant: poll() without its `if (!this.isRunning) return;`. *)
FireUnchecked(t) ==
    /\ pc[t] = "timer"
    /\ pc' = [pc EXCEPT ![t] = "getState"]
    /\ UNCHANGED <<chainVars, dbVars, isRunning, pollTimeout, startLedger, lo, hi, k, ins, failed, waitingOn>>

(* The timer fires and poll() starts a cycle, or returns if stopped. *)
Fire(t) ==
    /\ pc[t] = "timer"
    /\ isRunning
    /\ pc' = [pc EXCEPT ![t] = "getState"]
    /\ UNCHANGED <<chainVars, dbVars, isRunning, pollTimeout, startLedger, lo, hi, k, ins, failed, waitingOn>>

FireStopped(t) ==
    /\ pc[t] = "timer"
    /\ ~isRunning
    /\ pc' = [pc EXCEPT ![t] = "idle"]
    /\ UNCHANGED <<chainVars, dbVars, isRunning, pollTimeout, startLedger, lo, hi, k, ins, failed, waitingOn>>

(* Mutant: startLedger is lastIndexedLedger, without the + 1. *)
GetStateNoIncrement(t) ==
    /\ pc[t] = "getState"
    /\ \E c \in Clients : ~aborted[c]
    /\ startLedger' = [startLedger EXCEPT ![t] = IF progress = None THEN 0 ELSE Undefined]
    /\ pc' = [pc EXCEPT ![t] = "getEvents"]
    /\ ins' = [ins EXCEPT ![t] = {}]
    /\ failed' = [failed EXCEPT ![t] = FALSE]
    /\ UNCHANGED <<chainVars, dbVars, isRunning, pollTimeout, lo, hi, k, waitingOn>>

(* getIndexerState(): r.rows[0] has the column names last_indexed_ledger  *)
(* and last_indexed_cursor, so state.lastIndexedLedger is undefined when   *)
(* the row exists; the default object is used only when it does not.      *)
GetState(t) ==
    /\ pc[t] = "getState"
    /\ \E c \in Clients : ~aborted[c]
    /\ startLedger' = [startLedger EXCEPT ![t] = IF progress = None THEN 0 + 1
                                                                  ELSE Undefined]
    /\ pc' = [pc EXCEPT ![t] = "getEvents"]
    /\ ins' = [ins EXCEPT ![t] = {}]
    /\ failed' = [failed EXCEPT ![t] = FALSE]
    /\ UNCHANGED <<chainVars, dbVars, isRunning, pollTimeout, lo, hi, k, waitingOn>>

(* The SELECT lands on a connection whose transaction is aborted: the     *)
(* query throws and poll() logs it and re-arms the timer.                  *)
GetStateError(t) ==
    /\ pc[t] = "getState"
    /\ \E c \in Clients : aborted[c]
    /\ ArmTimer(t)
    /\ UNCHANGED <<chainVars, dbVars, isRunning, startLedger, lo, hi, k, ins, failed, waitingOn>>

(* The RPC accepts a request whose startLedger lies in its retention      *)
(* window; the SDK drops a NaN startLedger from the request, which the     *)
(* RPC then rejects ("startLedger must be positive").                      *)
ValidStart(s) == s \in Nat /\ oldest <= s /\ s <= latest

(* The first index of the chain at or after ledger s (Len(chain)+1 if none). *)
FirstAtOrAfter(s, i) ==
    /\ i \in 1 .. Len(chain) + 1
    /\ \A j \in 1 .. i - 1 : chain[j].ledger < s
    /\ i <= Len(chain) => chain[i].ledger >= s

HasLoan(a, b) == \E i \in a .. b : chain[i].loan

(* getEvents answers with up to BatchSize events from startLedger on;     *)
(* processEvents keeps those with a loan kind; an empty answer ends the   *)
(* cycle, a batch with no loan event goes straight to updateIndexerState. *)
FetchOk(t) ==
    /\ pc[t] = "getEvents"
    /\ ValidStart(startLedger[t])
    /\ \E i \in 1 .. Len(chain) + 1 :
          /\ FirstAtOrAfter(startLedger[t], i)
          /\ LET j == IF i + BatchSize - 1 <= Len(chain) THEN i + BatchSize - 1
                                                        ELSE Len(chain)
             IN /\ lo' = [lo EXCEPT ![t] = i]
                /\ hi' = [hi EXCEPT ![t] = j]
                /\ k' = [k EXCEPT ![t] = i]
                /\ \/ /\ i > Len(chain)
                      /\ ArmTimer(t)
                   \/ /\ i <= Len(chain)
                      /\ pc' = [pc EXCEPT ![t] = IF HasLoan(i, j) THEN "begin"
                                                                  ELSE "update"]
                      /\ UNCHANGED pollTimeout
    /\ UNCHANGED <<chainVars, dbVars, isRunning, startLedger, ins, failed, waitingOn>>

FetchError(t) ==
    /\ pc[t] = "getEvents"
    /\ RpcFaults \/ ~ValidStart(startLedger[t])
    /\ ArmTimer(t)
    /\ UNCHANGED <<chainVars, dbVars, isRunning, startLedger, lo, hi, k, ins, failed, waitingOn>>

(* Mutant: storeEvents without query("BEGIN"): every INSERT autocommits. *)
BeginOmitted(t) ==
    /\ pc[t] = "begin"
    /\ pc' = [pc EXCEPT ![t] = "select"]
    /\ UNCHANGED <<chainVars, dbVars, isRunning, pollTimeout,
                   startLedger, lo, hi, k, ins, failed, waitingOn>>

(* storeEvents: query("BEGIN") runs on whichever connection is idle; on   *)
(* one already in a transaction it is only a warning, on an aborted one   *)
(* it throws.                                                              *)
Begin(t) ==
    /\ pc[t] = "begin"
    /\ \E c \in Clients :
          \/ /\ ~aborted[c]
             /\ open' = [open EXCEPT ![c] = TRUE]
             /\ pc' = [pc EXCEPT ![t] = "select"]
          \/ /\ aborted[c]
             /\ pc' = [pc EXCEPT ![t] = "rollback"]
             /\ UNCHANGED open
    /\ UNCHANGED <<chainVars, table, progress, aborted, pending, isRunning, pollTimeout,
                   startLedger, lo, hi, k, ins, failed, waitingOn>>

(* The loop walks chain[lo..hi]; events processEvents dropped (no loan    *)
(* kind) are not in the array and are passed over.                         *)
Skip(t) ==
    /\ pc[t] = "select"
    /\ k[t] <= hi[t]
    /\ ~chain[k[t]].loan
    /\ k' = [k EXCEPT ![t] = k[t] + 1]
    /\ UNCHANGED <<chainVars, dbVars, isRunning, pollTimeout, pc, startLedger, lo, hi, ins, failed, waitingOn>>

(* Mutant: processEvents without `if (!type) continue`: the loop also     *)
(* stores events of no loan kind.                                          *)
SelectNoFilter(t) ==
    /\ pc[t] = "select"
    /\ k[t] <= hi[t]
    /\ \E c \in Clients :
          \/ /\ aborted[c]
             /\ pc' = [pc EXCEPT ![t] = "rollback"]
             /\ UNCHANGED k
          \/ /\ ~aborted[c]
             /\ k[t] \in Visible(c)
             /\ k' = [k EXCEPT ![t] = k[t] + 1]
             /\ UNCHANGED pc
          \/ /\ ~aborted[c]
             /\ k[t] \notin Visible(c)
             /\ pc' = [pc EXCEPT ![t] = "insert"]
             /\ UNCHANGED k
    /\ UNCHANGED <<chainVars, dbVars, isRunning, pollTimeout, startLedger, lo, hi, ins, failed, waitingOn>>

(* SELECT id FROM loan_events WHERE event_id = $1: a row the connection   *)
(* sees means `continue`; an aborted transaction makes it throw.           *)
Select(t) ==
    /\ pc[t] = "select"
    /\ k[t] <= hi[t]
    /\ chain[k[t]].loan
    /\ \E c \in Clients :
          \/ /\ aborted[c]
             /\ pc' = [pc EXCEPT ![t] = "rollback"]
             /\ UNCHANGED k
          \/ /\ ~aborted[c]
             /\ k[t] \in Visible(c)
             /\ k' = [k EXCEPT ![t] = k[t] + 1]
             /\ UNCHANGED pc
          \/ /\ ~aborted[c]
             /\ k[t] \notin Visible(c)
             /\ pc' = [pc EXCEPT ![t] = "insert"]
             /\ UNCHANGED k
    /\ UNCHANGED <<chainVars, dbVars, isRunning, pollTimeout, startLedger, lo, hi, ins, failed, waitingOn>>

(* INSERT INTO loan_events: it throws on an aborted transaction, on a      *)
(* loan_id beyond the integer column and on an                            *)
(* event_id the connection already sees (unique index); it waits while     *)
(* another transaction holds an uncommitted row with that event_id.        *)
(* Mutant: loan_events.event_id without its unique index. *)
InsertFailsNoUnique(t, c) ==
    \/ aborted[c]
    \/ chain[k[t]].loanId > Int4Max

InsertFails(t, c) ==
    LET e == k[t] IN
    \/ aborted[c]
    \/ chain[e].loanId > Int4Max
    \/ e \in Visible(c)

(* The INSERT is sent on any connection, unless it is already blocked on *)
(* one: it then completes or fails there once the other transaction ends. *)
(* pg-pool's idle timeout, which closes a connection left idle for         *)
(* idleTimeoutMillis and so aborts a transaction left open on it, is not   *)
(* modelled: the model has no real time, so only safety is judged of runs  *)
(* where a transaction can be left open across connections.               *)
InsertConns(t) == IF waitingOn[t] = None THEN Clients ELSE {waitingOn[t]}

Wait(t) ==
    /\ pc[t] = "insert"
    /\ waitingOn[t] = None
    /\ \E c \in Clients :
          /\ ~InsertFails(t, c)
          /\ LockedElsewhere(c, k[t])
          /\ waitingOn' = [waitingOn EXCEPT ![t] = c]
    /\ UNCHANGED <<chainVars, dbVars, isRunning, pollTimeout, pc, startLedger, lo, hi, k, ins, failed>>

Insert(t) ==
    /\ pc[t] = "insert"
    /\ \E c \in InsertConns(t) :
          /\ ~InsertFails(t, c)
          /\ ~LockedElsewhere(c, k[t])
          /\ LET row == [event |-> k[t], by |-> t] IN
             \/ /\ open[c]
                /\ pending' = [pending EXCEPT ![c] = Append(@, row)]
                /\ UNCHANGED table
             \/ /\ ~open[c]
                /\ table' = Append(table, row)
                /\ UNCHANGED pending
    /\ ins' = [ins EXCEPT ![t] = @ \cup {k[t]}]
    /\ k' = [k EXCEPT ![t] = k[t] + 1]
    /\ pc' = [pc EXCEPT ![t] = "select"]
    /\ waitingOn' = [waitingOn EXCEPT ![t] = None]
    /\ UNCHANGED <<chainVars, progress, open, aborted, isRunning, pollTimeout,
                   startLedger, lo, hi, failed>>

(* ... and, with DbFaults, on a transient fault of the connection when   *)
(* it is sent; a blocked INSERT fails only once the lock is released.     *)
InsertError(t) ==
    /\ pc[t] = "insert"
    /\ \E c \in InsertConns(t) :
          /\ InsertFails(t, c) \/ (DbFaults /\ waitingOn[t] = None)
          /\ Fail(c)
    /\ pc' = [pc EXCEPT ![t] = "rollback"]
    /\ waitingOn' = [waitingOn EXCEPT ![t] = None]
    /\ UNCHANGED <<chainVars, table, progress, open, pending, isRunning, pollTimeout,
                   startLedger, lo, hi, k, ins, failed>>

(* query("COMMIT") after the loop: it commits the transaction of the      *)
(* connection it lands on (an aborted one is rolled back instead), or is   *)
(* only a warning on a connection with no transaction.                     *)
Commit(t) ==
    /\ pc[t] = "select"
    /\ k[t] > hi[t]
    /\ \E c \in Clients :
          /\ table' = IF open[c] /\ ~aborted[c] THEN table \o pending[c] ELSE table
          /\ open' = [open EXCEPT ![c] = FALSE]
          /\ aborted' = [aborted EXCEPT ![c] = FALSE]
          /\ pending' = [pending EXCEPT ![c] = <<>>]
    /\ pc' = [pc EXCEPT ![t] = "update"]
    /\ UNCHANGED <<chainVars, progress, isRunning, pollTimeout, startLedger, lo, hi, k, ins, failed, waitingOn>>

(* catch: query("ROLLBACK") on whichever connection, then rethrow: the    *)
(* indexer state is not updated and poll() re-arms the timer.             *)
Rollback(t) ==
    /\ pc[t] = "rollback"
    /\ \E c \in Clients :
          /\ open' = [open EXCEPT ![c] = FALSE]
          /\ aborted' = [aborted EXCEPT ![c] = FALSE]
          /\ pending' = [pending EXCEPT ![c] = <<>>]
    /\ failed' = [failed EXCEPT ![t] = TRUE]
    /\ ArmTimer(t)
    /\ UNCHANGED <<chainVars, table, progress, isRunning, startLedger, lo, hi, k, ins, waitingOn>>

(* updateIndexerState(last.ledger, cursor): the UPDATE targets the newest *)
(* indexer_state row and changes nothing when there is none.              *)
Update(t) ==
    /\ pc[t] = "update"
    /\ \E c \in Clients : ~aborted[c]
    /\ progress' = IF progress = None THEN None ELSE chain[hi[t]].ledger
    /\ ArmTimer(t)
    /\ UNCHANGED <<chainVars, table, open, aborted, pending, isRunning,
                   startLedger, lo, hi, k, ins, failed, waitingOn>>

UpdateError(t) ==
    /\ pc[t] = "update"
    /\ \E c \in Clients : aborted[c]
    /\ ArmTimer(t)
    /\ UNCHANGED <<chainVars, dbVars, isRunning, startLedger, lo, hi, k, ins, failed, waitingOn>>

-----------------------------------------------------------------------------

Init ==
    /\ chain = <<>>
    /\ latest = 1
    /\ oldest = 1
    /\ table = <<>>
    /\ progress = IF StateRowInit THEN 0 ELSE None
    /\ open = [c \in Clients |-> FALSE]
    /\ aborted = [c \in Clients |-> FALSE]
    /\ pending = [c \in Clients |-> <<>>]
    /\ isRunning = FALSE
    /\ pollTimeout = None
    /\ pc = [t \in Tasks |-> "idle"]
    /\ startLedger = [t \in Tasks |-> 1]
    /\ lo = [t \in Tasks |-> 0]
    /\ hi = [t \in Tasks |-> 0]
    /\ k = [t \in Tasks |-> 0]
    /\ waitingOn = [t \in Tasks |-> None]
    /\ ins = [t \in Tasks |-> {}]
    /\ failed = [t \in Tasks |-> FALSE]

TaskStep(t) ==
    \/ Fire(t) \/ FireStopped(t)
    \/ GetState(t) \/ GetStateError(t)
    \/ FetchOk(t) \/ FetchError(t)
    \/ Begin(t) \/ Skip(t) \/ Select(t)
    \/ Wait(t) \/ Insert(t) \/ InsertError(t)
    \/ Commit(t) \/ Rollback(t)
    \/ Update(t) \/ UpdateError(t)

Environment == Emit \/ CloseLedger \/ Prune

Next ==
    \/ Environment
    \/ Start \/ Stop \/ Crash
    \/ \E t \in Tasks : TaskStep(t)

(* The event loop runs every ready continuation and the RPC and database  *)
(* answer every call; start, stop, crashes and the chain are not forced.  *)
Fairness == \A t \in Tasks : WF_vars(TaskStep(t))

Spec == Init /\ [][Next]_vars /\ Fairness

-----------------------------------------------------------------------------
(* Properties.                                                             *)

TypeOK ==
    /\ chain \in Seq(Event)
    /\ latest \in Nat /\ oldest \in Nat
    /\ table \in Seq(Row)
    /\ progress \in Nat \cup {None}
    /\ open \in [Clients -> BOOLEAN]
    /\ aborted \in [Clients -> BOOLEAN]
    /\ pending \in [Clients -> Seq(Row)]
    /\ isRunning \in BOOLEAN
    /\ pollTimeout \in Tasks \cup {None}
    /\ pc \in [Tasks -> PCs]
    /\ startLedger \in [Tasks -> (Nat \ {0}) \cup {Undefined}]
    /\ lo \in [Tasks -> Nat] /\ hi \in [Tasks -> Nat] /\ k \in [Tasks -> Nat]
    /\ waitingOn \in [Tasks -> Clients \cup {None}]
    /\ ins \in [Tasks -> SUBSET Nat]
    /\ failed \in [Tasks -> BOOLEAN]

(* The unique index on loan_events.event_id keeps every event at most    *)
(* once in the table, however the pool routes BEGIN, the SELECT/INSERT     *)
(* pairs and COMMIT of overlapping cycles over its connections.            *)
NoDuplicateEvents ==
    \A i, j \in 1 .. Len(table) : i # j => table[i].event # table[j].event

(* The rows a step adds to loan_events are contract events of the chain   *)
(* that processEvents kept (a loan kind): the SELECT/INSERT loop inserts   *)
(* the event it is at, and whichever connection's COMMIT lands first,      *)
(* what it commits are rows such loops inserted.                           *)
LoanEventOnChain(e) == e \in 1 .. Len(chain) /\ chain[e].loan
NewRowsAreLoanEvents ==
    \A i \in 1 .. Len(table') : i > Len(table) => LoanEventOnChain(table'[i].event)
StoresOnlyLoanEvents == [][NewRowsAreLoanEvents]_vars

(* storeEvents promises a batch is stored whole or not at all: once it    *)
(* has thrown and rolled back, no row this cycle inserted is committed.    *)
NoPartialBatch ==
    \A t \in Tasks : failed[t] =>
        \A i \in 1 .. Len(table) : table[i].by = t => table[i].event \notin ins[t]

(* After stop(), unless start() is called again, every poll chain ends:   *)
(* the cycle in flight completes and its timer finds isRunning false.      *)
AllIdle == \A t \in Tasks : pc[t] = "idle"
StopTakesEffect == ~isRunning ~> (isRunning \/ AllIdle)

(* While the indexer keeps running, every loan event on chain is          *)
(* eventually in loan_events, unless the RPC pruned its ledger first.      *)
LoanEventAt(i) == IF i <= Len(chain) THEN chain[i].loan ELSE FALSE
PrunedAt(i) == IF i <= Len(chain) THEN chain[i].ledger < oldest ELSE FALSE
EventuallyIndexed ==
    <>[]isRunning =>
        \A i \in 1 .. MaxEvents :
            [](LoanEventAt(i) => <>(i \in Committed \/ PrunedAt(i)))

=============================================================================
