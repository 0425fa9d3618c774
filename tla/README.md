# TLA+ models of the remitlend event indexer

These modules model three parts of the system:

- the backend's Stellar event indexer and the database it writes to;
- the read API that shares the indexer's connection pool;
- the borrower UI components that call the read API.

TLC checks small instances of them. TLAPS proves these for every
instance:

- the type invariants of the indexer, of the indexer with its read API and
  of the loan list;
- no event is stored twice;
- every row committed to `loan_events` is a loan event of the chain;
- no read lists an event twice;
- with one poll chain on a pool of one connection, a batch whose
  `storeEvents` failed leaves none of its rows committed (with two
  connections TLC shows it can);
- with a fixed borrower address, the UI's error card matches the last
  response once loading ends, and the UI refines the abstract
  specification `FetchScreen` (spinner, then one outcome, then a new
  spinner).

## The system

| Part | Source | What it does |
|---|---|---|
| EventIndexer | `src/unnamed/part_000` | A self-scheduling poll chain: `poll` → `indexEvents` (`getIndexerState`, RPC `getEvents`, `processEvents`, `storeEvents`, `updateIndexerState`) → `setTimeout(poll)`. Also `start()` and `stop()`. |
| DB pool | `src/unnamed/part_001` | `query()` is `pool.query`. Each statement runs on whichever pooled connection is idle. |
| Schema | `src/backend/migrations/1771691269866_loan-events-schema.js` | Creates `loan_events` (`event_id` unique, `loan_id integer`) and `indexer_state`, and inserts one initial row with ledger 0. |
| Process | `src/backend/src/index.ts` | Calls `startIndexer()` at boot. On SIGTERM or SIGINT it calls `stopIndexer()` and then `process.exit`. |
| Manager | `src/backend/src/services/indexerManager.ts` | Holds the singleton instance. |
| Read API | `src/unnamed/part_004` (handlers), `part_003` and `part_002` (routers), `loanController.ts` | Express handlers that only read the two tables, through the same `query()` as the indexer. |
| Borrower UI | `src/frontend/.../borrower/LoanDashboard.tsx`, `ActiveLoansTracker.tsx` | React components that fetch `/api/loans/borrower/:address` and draw a spinner, an error card with Retry, or the list (the dashboard adds Refresh). |
| Request logger | `middleware/requestLogger.ts` | Logging. |

How the parts interact:

- The indexer is the only writer to the tables.
- The read API and the indexer share the pg pool.
- The indexer's statements can land on any pooled connection.

That last point is the crux of the model. The code writes
`BEGIN … COMMIT` through `pool.query`, so the statements of one batch
are not pinned to one connection.

## Modules

**`Indexer.tla`** models the indexer, the pool, the schema and process exit.

State:

- The chain served by the RPC:
  - `chain`: the contract's events;
  - `latest`: the latest closed ledger;
  - `oldest`: the oldest retained ledger.
- The database:
  - `table`: the committed `loan_events` rows;
  - `progress`: `indexer_state.last_indexed_ledger`, or `None` when the table has no row.
- Each pool connection:
  - `open` and `aborted`: the state of its transaction;
  - `pending`: the rows it inserted but has not committed.
- The instance:
  - `isRunning`;
  - `pollTimeout`: which chain's timer is armed.
- Each poll chain `t`:
  - `pc[t]`: the `await` it is suspended at;
  - `startLedger`, `lo..hi` (the batch) and `k` (the store loop's position);
  - `waitingOn`: the connection an INSERT is blocked on;
  - `ins` and `failed`: history of the current cycle, kept only for the properties.

Each `await` of the code is one step, and statements pick a connection
with `\E c \in Clients`.

| Code | Action |
|---|---|
| `start()` | `Start` |
| `stop()` | `Stop` |
| SIGTERM, SIGINT or a crash | `Crash` (the server aborts open transactions) |
| `poll` | `Fire` and `FireStopped`; `ArmTimer` re-arms the timer |
| `getIndexerState` | `GetState` and `GetStateError` |
| `getEvents` | `FetchOk` and `FetchError` |
| `processEvents` | `Skip` and `HasLoan` |
| `storeEvents` | `Begin`, `Select`, `Wait`, `Insert`, `InsertError`, `Commit`, `Rollback` |
| `updateIndexerState` | `Update` and `UpdateError` |

The chain moves through `Emit`, `CloseLedger` and `Prune`.

The model follows PostgreSQL's rules for statements on a connection:

- A BEGIN inside an open transaction only warns.
- Any statement except COMMIT or ROLLBACK throws on an aborted transaction.
- COMMIT of an aborted transaction rolls it back.
- An INSERT waits while another transaction holds the same `event_id` uncommitted. `Wait` pins the INSERT to its connection until that transaction ends; it then succeeds or fails there.

`getIndexerState` is modelled as the code behaves:

- The row's keys are snake_case, so when the row exists the resume ledger is `undefined`. The SDK then drops the NaN `startLedger` and the RPC rejects the request.
- Only with no row does the default `{lastIndexedLedger: 0}` apply.

**`MCIndexer.tla`** holds the model values and the small constant sets.
TLC integers are 32-bit, so the `integer` column bound `Int4Max` is
scaled to 1, and loan id 2 stands for an id ≥ 2^31.

**`IndexerProofs.tla`** holds the TLAPS proofs.

**`IndexerReads.tla`** extends `Indexer` with the read API's requests
(constant `Readers`). A statement of a handler runs on any pooled
connection, as the indexer's do. It sees the committed rows followed by the
rows of the transaction open on that connection (`VisibleRows`), and it
throws if that transaction is aborted.

| Code | Action |
|---|---|
| `getLoanEvents`, `getRecentEvents` (one SELECT) | `ReadEvents` |
| `getBorrowerLoans`, `getLoanDetails` (one SELECT, then arithmetic in memory) | `ReadLoans` |
| `getBorrowerEvents`: the page | `BorrowerEventsPage` |
| `getBorrowerEvents`: the `COUNT` for `pagination.total` | `BorrowerEventsCount` |
| SIGTERM, SIGINT or a crash | `CrashR`: `Crash`, which also ends the requests in flight |

The filters, orders and limits of the handlers only select part of the
rows, so they are abstracted away. `getIndexerStatus` is not modelled; see
below.

**`IndexerBatchProofs.tla`** extends `IndexerProofs` with the proof that a
failed batch is rolled back whole on a pool of one connection.

**`IndexerReadsProofs.tla`** holds the proof about the reads.

**`LoanList.tla`** models the borrower UI. Both components run the same
`fetchActiveLoans`, so one module covers them; the constant `HasRefresh`
selects the dashboard, which also has a Refresh button.

State: the `borrowerAddress` prop (`address`), the `loans`, `loading` and
`error` states, the calls awaiting a response (`inFlight`), a call counter
bounded by `MaxFetches`, and `lastOutcome`, a history variable for the
properties. A list is abstracted to the borrower it was fetched for and
the deadlines of its loans (`items`), which is all the render branches and
the tracker's stats look at. The API's default `status=active` filter
(`Responses`) means every loan in the list is active.

The tracker's view adds four variables: the browser clock `now` (advanced
by `Tick`, with `DayLen` ticks a day and bound `MaxTime`), `drawnAt`, the
clock at the last render, `stats` (its `overdueCount`) and the selected
tab `filter`. React renders only when state or props change, so every
action but `Tick` re-renders (`Render`: `drawnAt' = now`) and `Tick`
draws nothing: the screen keeps showing what was computed at `drawnAt`.
These operators compute what the tracker draws:

- `CalculateStats`: `overdueCount`, computed when the response arrives, as
  the number of list positions whose deadline has passed
  (`overdueLoans.length`);
- `FilteredLoans`: `getFilteredLoans()`, computed at render, so against
  `drawnAt`;
- `DaysUntil`: `getDaysUntilDeadline` at render, which is `Math.ceil`,
  written as `-((drawnAt - d) \div DayLen)`;
- `IsOverdueCard`: a card's `isOverdue`.

| Code | Action |
|---|---|
| `setLoading(true); setError(null); fetch(...)` | `StartFetch(b)`, part of the three below |
| `useEffect(..., [borrowerAddress])` after a prop change | `ChangeAddress` |
| Retry on the error card | `Retry` (guard: `!loading && error`) |
| Refresh on the dashboard's list | `Refresh` (guard: list shown and not empty) |
| `setLoans(data.data.loans \|\| [])`, then `finally` | `RespondOk` |
| `throw` or network error, `setError`, then `finally` | `RespondError` |
| `setLoans` and `calculateStats(fetchedLoans)` in the tracker | part of `RespondOk` |
| a click on a tab of the tracker | `SetFilter` (tabs are drawn only once loaded) |
| time passing; `new Date()` and `Date.now()` are read at the next render | `Tick` (no render) |

The code after an `await` up to the next `await` runs in one task, and
React batches its state updates, so each continuation is one step. The
prop change and the effect it triggers are one step as well. `Init` is the
mounted component with the mount call in flight.

**`FetchScreen.tla`** is the abstract specification of what the render
branches promise the user: the component opens on the spinner, the spinner
gives way to one outcome (the error card or the list), and an outcome
gives way to another only through the spinner of a new call. `LoanList`
instantiates it as `View == INSTANCE FetchScreen WITH screen <- Screen`.
The mapping `Screen` is the order of the branches: the spinner if
`loading`, else the error card if `error`, else the list or its empty card.
`ScreenRefined == View!Spec` is the property.

**`MCLoanList.tla`** holds the borrower model values.

**`LoanListProofs.tla`** holds the proofs about the loan list.

## Runs

| Run | Bounds | Checks | Result |
|---|---|---|---|
| `serial` | 1 chain, 1 connection, batch 2, 3 events, 2 ledgers; RPC and INSERT faults | `TypeOK`, `NoPartialBatch`, `StopTakesEffect` | pass |
| `pool_dedup` | 1 chain, 2 connections, 3 events, 2 ledgers, INSERT faults | `NoDuplicateEvents`, `StoresOnlyLoanEvents` | pass |
| `pool_atomicity` | 2 connections | `NoPartialBatch` | violated |
| `deployed_progress` | with the migration's state row | `EventuallyIndexed` | violated |
| `poison_loan_id` | a loan id above the column | `EventuallyIndexed` | violated |
| `reads_dedup` | 1 chain, 2 connections, 1 request, 2 events, INSERT faults | `TypeOKR`, `ReadsDistinct` | pass |
| `reads_dirty_total` | 1 chain, **1** connection, 1 request, INSERT faults | `PageWithinTotal` | violated |
| `list_retry` | dashboard, 1 borrower, 20 calls | `TypeOK`, `ErrorMatchesLastResponse`, `ScreenRefined` | pass |
| `list_settles` | tracker, 2 borrowers, 4 calls, 1 loan a list, clock to 2 | `LoadingSettles` | pass |
| `list_switch` | tracker, 2 borrowers, 3 calls | `ShowsCurrentBorrower` | violated |
| `tracker_overdue` | tracker, 1 borrower, 2 calls, 1 loan, 2 ticks a day | `OverdueTabConsistent` | violated |

What the violated runs show:

- **`pool_atomicity`:** BEGIN runs on one connection, and an INSERT autocommits on the other. The next INSERT fails and ROLLBACK runs, but the first row stays committed. The spec requires all-or-nothing (§4.3).
- `stop()` then `start()` on the same instance during an `await` gives two
  chains at once, although the spec promises a single worker (§5). The
  model reaches this with two chain slots. No run checks it, because the
  deployed program never restarts an instance: the manager starts it once
  and stops it only just before the process exits.
- **`deployed_progress`:** on the database the migration creates, every cycle fails and nothing is ever indexed.
- Without a state row (not the migration's database) the UPDATE matches nothing, so every cycle refetches the first batch. Events past it are never indexed. No run covers this, since the migration always inserts the row.
- **`poison_loan_id`:** a u32 loan id above the signed 32-bit `loan_id` column fails its batch on every retry.
- A COMMIT that lands on another connection than its BEGIN leaves the
  transaction open, holding its rows, and a later INSERT of one of those
  events on another connection waits for it (`Wait`). No run asks whether
  the wait ends: pg-pool closes a connection idle for `idleTimeoutMillis`
  (10 s by default, less than the 30 s poll gap), which aborts the
  transaction, and the model has no real time to tell an idle connection
  from one that read requests keep busy.
- **`reads_dirty_total`:** the trace has one pooled connection. The indexer's
  BEGIN and first INSERT run on it, and it goes back to the pool with the
  transaction open. `getBorrowerEvents`' page query lands there and returns
  the uncommitted row. The next INSERT fails and ROLLBACK runs. The COUNT
  then sees nothing, and the response has one event and `total: 0`. The
  client was shown an event that is never stored.
- **`list_switch`:** the parent changes `borrowerAddress` while the mount
  call is in flight. The old call answers first, its `finally` clears the
  spinner, and the previous borrower's loans are drawn under the new
  address. If the old call answers last, they stay there.
- The same missing guard lets a late failure of the old call set `error`
  after the new call succeeded. The error card then replaces the loaded
  list, because only the start of a call clears `error`. TLC finds this
  trace for `ErrorMatchesLastResponse` with two borrowers.

- **`tracker_overdue`:** a loan due at time 0 arrives at time 0, so it is
  not overdue and `overdueCount` is 0. Half a day passes (`Tick`, which
  draws nothing), and then the user opens the Overdue tab, which renders. Its title reads "Overdue (0)", because the count
  is the one computed when the response arrived. The tab lists the loan,
  because `getFilteredLoans` compares with the current time. The loan's
  card reads "Due Soon, 0 days left", because `Math.ceil` of −½ day is 0.
  The two defects are independent:
  - the count stays stale until the next fetch;
  - any loan less than a day late is listed as overdue but labelled Due
    Soon.

  `getBorrowerLoans` gives a loan without an approval the request time as
  its deadline, so such a loan is listed as overdue as soon as it is drawn.

`list_retry` shows why neither happens with a fixed address: Retry and
Refresh are rendered only when nothing is loading, so calls never overlap.
`list_settles` shows that the spinner still always ends with overlapping
calls.

Why these bounds are enough:

- Batch size 2 against a chain that grows one event at a time gives a
  short batch (while one event is out) and a full one (once two are).
  Without the state row `startLedger` stays 1, so every cycle starts at
  the first event and the third is never fetched: it only lets the chain
  hold more than a batch.
- Two ledgers let a batch straddle a ledger.
- Two connections are the least that can separate BEGIN from INSERT.
- The faults are flags, so every error path is reachable.
- For the UI, two borrowers and three calls give a prop change with a call
  in flight and a retry after it. `list_retry` runs 20 calls so that every
  pattern of failures and refreshes up to that length is explored.
- `pool_dedup` uses symmetry over connections and over chains. Both are
  interchangeable model values. Without the state row, `startLedger` stays
  1, so every cycle refetches the first batch, and a missing unique index
  would duplicate exactly that refetch.
- For the tracker, a clock of two ticks a day reaches a deadline that is
  half a day and one day past. One loan per list suffices because every
  property compares a count with the list or a label with a loan.

**Fairness.** `WF` is assumed on each chain's steps. Node's event loop
runs every ready continuation, and the RPC and database answer every call,
perhaps with an error. Start, stop, crashes and the chain's growth are not
forced. A transient INSERT fault is possible only when the INSERT is
sent, so fairness never forces a blocked INSERT to fail. `EventuallyIndexed` assumes the indexer is eventually left running.

In `LoanList`, `WF` is assumed on the responses: the browser settles every
`fetch`, with a response or a network error. The user and the parent
component are not forced to act.

## Proofs

`TypeCorrect` (`Spec => []TypeOK`) is proved for all constants that
satisfy the named `ASSUME`s. The proof strengthens `TypeOK` with
`BatchInChain`: while a chain is inside a batch, `hi` indexes the chain.
`Update` reads `chain[hi].ledger` and needs this.

The proof has three parts:

- `TypeInit` shows that `Init` implies the strengthened invariant.
- One lemma per action shows that the action preserves it.
- `TypeStep` combines those lemmas, and a PTL step concludes.

`NoDuplicates` (`Spec => []NoDuplicateEvents`) is proved for every
number of connections and chains. The proof uses the inductive invariant
`DupInv`, which conjoins `TypeInv` with three facts:

- the committed rows are distinct;
- each connection's uncommitted rows are distinct and share no
  `event_id` with the committed ones;
- no two connections' uncommitted rows share an `event_id`.

`ReadsNeverDuplicate` (`SpecR => []ReadsDistinct`) is proved in
`IndexerReadsProofs`. It holds for every pool size and every number of
requests. Its invariant `ReadInv` is `DupInv` plus this: every result a
request holds is a sequence of rows with distinct events. A read returns
`table \o pending[c]`, and `DupInv` says those two parts are each distinct
and disjoint. The lemma `DistinctConcat` gives the rest. Indexer steps keep
`DupInv` by `DupStep` (a step of the composed spec that is not a read is a
step of `Next`). Reads change no indexer variable.

`NoDuplicateEvents` alone is not inductive. An INSERT into one
connection's transaction, followed by a COMMIT, would break it unless
the invariant also constrains the uncommitted rows. The per-action
arguments are:

- **INSERT** keeps `DupInv` because its guard
  (`~InsertFails`, `~LockedElsewhere`) is the unique index's check:
  the row is not visible to the connection and no other transaction
  holds it.
- **COMMIT** appends rows that are disjoint from the table.
- **ROLLBACK, crashes and a COMMIT of an aborted transaction** only
  empty transactions.

The lemmas `RowIdsAppend`, `RowIdsConcat`, `DistinctAppend` and
`DistinctConcat` state what `Append` and `\o` do to the `event_id`s.
TLC checked `DupInv` as an invariant before the proof was written, with
one chain (69k states) and with two chains (3.2M states).

`OnlyLoanEventsStored` (`Spec => StoresOnlyLoanEvents`) is the action
property: every row a step adds to `loan_events` is an event of the chain
that `processEvents` kept. It holds for every pool size, number of chains
and batch size. It is not a fact about one statement. The loop reads
`chain[k]` in the SELECT and writes `k` in the INSERT several awaits later.
COMMIT may land on any connection and commit rows that another loop's
INSERTs put there. The proof therefore rests on the invariant `LoanRows`,
which TLC checked on `pool_dedup` (70k states) before the proof:

- `StoredLoans`: every committed row and every uncommitted row of every
  connection is a loan event on the chain;
- `CursorLoans`: a chain past BEGIN has `k >= 1`, and a chain at the
  INSERT has `k` at a loan event.

`BatchInChain` from `TypeInv` puts the SELECT's `k <= hi` inside the chain.
The lemmas `StoredInsert`, `StoredCommit`, `StoredClear` and `StoredEmit`
cover the changes to the rows. `CursorStep` covers a step that sets one
chain's label and index. Emit only appends to the chain, so a loan event
stays one (`ChainAppendLoan`). A step that changes the table is a step of
an INSERT or a COMMIT, which leave the chain alone. Together with
`LoanRows'`, that gives the action property.

`TypeCorrectR` (`SpecR => []TypeOKR`) adds to `ReadInv` the types of the
read state (`ReaderTypes`). A page size or a total is `Len` of
`table \o pending[c]`, a natural number because `VisibleDistinct` makes
that a sequence.

`ErrorMatchesForOneBorrower` proves `ErrorMatchesLastResponse` for every
bound on calls, loans and time, under the hypothesis `Borrowers = {b}`.
The hypothesis says the parent never changes `borrowerAddress`, which is
the case `list_retry` checks. It cannot be dropped: with two addresses TLC
finds the property violated in three steps (a late answer of the older
call). The inductive invariant `ErrorInv` adds two facts:

- `SpinnerHidesError`: loading implies no error;
- `OneCallAtATime`: one call is in flight exactly while loading, and
  never two. Retry and Refresh are drawn only when nothing is loading, and
  `ChangeAddress` has no other address to go to.

The answer to the one pending call then ends loading, and `error` says
how it ended.

`AtomicOnOneConnection` proves `NoPartialBatch` under the hypotheses
`Tasks = {t}` and `Clients = {c}`, for every batch size and bound, with
RPC and INSERT faults, stop/start and crashes. These are the constants of
`serial`. One chain is what `startIndexer` boots. One connection is the
case in which `query()` cannot spread a cycle's statements over the pool.
Neither hypothesis can be dropped. With two connections, `pool_atomicity`
shows a failed batch whose first row was autocommitted. With two chains on
one connection, TLC finds in 18 steps a chain's COMMIT that commits the
other's INSERTs before that batch fails. The inductive invariant `BatchInv` has four parts:

- `RestAfterFailure`: a chain whose `storeEvents` threw is at rest (idle,
  at the timer or in `getIndexerState`) until the next cycle resets
  `failed`;
- `NothingInsertedYet`: before BEGIN the cycle has inserted nothing;
- `LoopInTransaction`: during the SELECT/INSERT loop the connection has a
  transaction open, so each INSERT goes into it rather than autocommitting;
- `CycleUncommitted`: before COMMIT, and after a failure, no committed row
  of the chain carries an event it inserted this cycle.

An INSERT keeps the last part because its guard says the event is not
committed. ROLLBACK sets `failed` with the table unchanged. The lemmas
`BatchFrame`, `BatchRest`, `BatchQuiet`, `BatchLoop` and `BatchNoIns`
group the actions by what they change. TLC checked `BatchInv` on `serial`
(23k states) before the proof.

`LoanListTypeCorrect` (`Spec => []LoanList!TypeOK`) is proved for every
bound. Its only non-trivial part is `ResponseType`: a response holds at
most `MaxLoans` loans, and the overdue count is the size of a set of
positions of the list. `FS_Subset` and `FS_Interval` of
`FiniteSetTheorems` bound it by the list's length.

`ScreenRefinedForOneBorrower` (`Spec => ScreenRefined`) is the loan
list's refinement proof, under the same hypothesis `Borrowers = {b}`.
`Init` maps to the spinner. `ScreenStep` shows that under `ErrorInv`
every step maps to a `FetchScreen` step or a stutter:

- Retry and Refresh are guarded by `~loading`, so they are `Reload`.
- A response needs a call in flight, so by `OneCallAtATime` the spinner is
  on. By `SpinnerHidesError` no error is set, so it is `Settle`.
- `SetFilter` and `Tick` leave `loading` and `error` alone, so they are
  stutters.
- `ChangeAddress` has no other address to go to.

With two addresses TLC finds a list replaced directly by the error card,
when the older call fails after the newer one succeeded. The mutant that
draws Refresh while loading fails it in the same way on `list_retry`.

The following stay with TLC:

- the liveness properties (`StopTakesEffect`, `EventuallyIndexed`, `LoadingSettles`), since
  TLAPS does not prove liveness under fairness;
- what `getFilteredLoans()` (`FilteredLoans`, a `SelectSeq`) computes.
  `OverdueTabConsistent` compares it with the stored count. Any statement
  about the length of a `SelectSeq` is induction over a recursive
  definition, which the installed provers cannot do. That property is
  violated anyway (`tracker_overdue`).
- every violation.

## Plan

1. Model `loanController`'s arithmetic (interest, status) as operators checked against a reference. `ReadLoans` abstracts it today.
2. An abstract spec of one whole cycle (spec §4: events and progress move together), which only a repaired model could refine: the code fails it (`pool_atomicity`, `deployed_progress`).

## Not modelled

- Decoded field values other than the loan kind and the loan id.
- pg-pool's `idleTimeoutMillis`: a connection idle for 10 s is closed,
  which aborts a transaction left open on it. The model has no real time;
  the safety properties it checks hold or fail before any such timeout.
- Logging.
- The HTTP layer and the rendering, except the tracker's counts and overdue labels.
- `stats.totalActive`, `totalOwed` and `nextPaymentDue`. The first two are
  derived from the same list in the same batched update. `nextPaymentDue`
  is computed at the same moment as `overdueCount` and can likewise name
  a deadline that has passed by the next render.
- `indexerManager`. The server calls `startIndexer` once, in the
  `app.listen` callback, and calls `stopIndexer` only in the signal
  handlers, right before `process.exit(0)`. In the deployed program it is
  therefore `Start` of one instance, and `Crash`. A stop followed by a
  start through the manager is reachable only from tests. It builds a
  fresh instance while the old cycle is in flight, the same overlap as a
  restart of one instance (see the `stop()`/`start()` note under the runs).
- The request logger: it changes no state. The seed script in the same
  file is a one-off, sequential, hand-run loop over tables whose schema
  is not in the repository.
- No page of the repository renders the two components; `ChangeAddress` models the prop contract their effect is written for.
- The RPC's cursor, which the code never reads.
- `getIndexerStatus`. With the migration's state row the indexer never
  stores an event (`deployed_progress`). Without the row the handler stops
  at 404. So its three separate statements can never disagree in this code.
- The mid-ledger batch cut and progress regression. Both stay unreachable while `getIndexerState` never returns a stored ledger; see the hazards in `PROJECT.json`.
