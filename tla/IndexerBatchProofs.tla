------------------------- MODULE IndexerBatchProofs -------------------------
(***************************************************************************)
(* storeEvents wraps a batch in BEGIN ... COMMIT and answers a failure     *)
(* with ROLLBACK, but every statement goes through query(), which runs it  *)
(* on whichever pooled connection is idle.  On a pool of two connections   *)
(* TLC finds a failed batch whose first rows were autocommitted (run       *)
(* pool_atomicity).  This module proves the other half: with one poll     *)
(* chain, as startIndexer boots it, and one connection, every statement of *)
(* a cycle lands in the transaction its BEGIN opened, so a batch that      *)
(* failed leaves none of its rows committed, for every batch size and      *)
(* every bound.                                                            *)
(***************************************************************************)
EXTENDS IndexerProofs

(* The rows of loan_events that chain t committed for events it INSERTed *)
(* in its current cycle.                                                   *)
CycleRowCommitted(t) ==
    \E i \in 1 .. Len(table) : table[i].by = t /\ table[i].event \in ins[t]

(* A cycle whose storeEvents threw has re-armed its timer (or was stopped) *)
(* and stays at rest until getIndexerState starts the next cycle.          *)
RestAfterFailure(t) == failed[t] => pc[t] \in {"idle", "timer", "getState"}

(* Until storeEvents runs, the cycle has inserted nothing. *)
NothingInsertedYet(t) == pc[t] \in {"getEvents", "begin"} => ins[t] = {}

(* The SELECT/INSERT loop runs inside the transaction BEGIN opened on the *)
(* connection.                                                             *)
LoopInTransaction(t, c) == pc[t] \in {"select", "insert"} => open[c]

(* Before COMMIT, and after a failure, none of the cycle's rows is        *)
(* committed.                                                              *)
CycleUncommitted(t) ==
    (failed[t] \/ pc[t] \in {"getEvents", "begin", "select", "insert", "rollback"})
        => ~CycleRowCommitted(t)

BatchInv(t, c) ==
    /\ RestAfterFailure(t)
    /\ NothingInsertedYet(t)
    /\ LoopInTransaction(t, c)
    /\ CycleUncommitted(t)

Rest == {"idle", "timer", "getState"}

-----------------------------------------------------------------------------
(* How the steps of one chain on one connection keep BatchInv.             *)

(* A step that leaves the chain's label, history and transaction alone.   *)
LEMMA BatchFrame ==
    ASSUME NEW t, NEW c, BatchInv(t, c),
           pc'[t] = pc[t], failed'[t] = failed[t], ins'[t] = ins[t],
           open'[c] = open[c], table' = table
    PROVE  BatchInv(t, c)'
  BY DEF BatchInv, RestAfterFailure, NothingInsertedYet, LoopInTransaction,
         CycleUncommitted, CycleRowCommitted

(* A step of the timer or of start/stop, between two cycles. *)
LEMMA BatchRest ==
    ASSUME NEW t, NEW c, BatchInv(t, c), pc[t] \in Rest, pc'[t] \in Rest,
           failed'[t] = failed[t], ins'[t] = ins[t], table' = table
    PROVE  BatchInv(t, c)'
  BY DEF BatchInv, RestAfterFailure, NothingInsertedYet, LoopInTransaction,
         CycleUncommitted, CycleRowCommitted, Rest

(* A cycle that has not failed and is past storeEvents (or never got to  *)
(* it) constrains nothing.                                                 *)
LEMMA BatchQuiet ==
    ASSUME NEW t, NEW c, failed'[t] = FALSE, pc'[t] \in {"idle", "timer", "getState", "update"}
    PROVE  BatchInv(t, c)'
  BY DEF BatchInv, RestAfterFailure, NothingInsertedYet, LoopInTransaction,
         CycleUncommitted

(* A step of the SELECT/INSERT loop that commits nothing and inserts      *)
(* nothing: the loop goes on in the transaction, or leaves for ROLLBACK.   *)
LEMMA BatchLoop ==
    ASSUME NEW t, NEW c, BatchInv(t, c),
           pc[t] \in {"select", "insert"}, pc'[t] \in {"select", "insert", "rollback"},
           failed'[t] = failed[t], ins'[t] = ins[t], open'[c] = open[c], table' = table
    PROVE  BatchInv(t, c)'
  BY DEF BatchInv, RestAfterFailure, NothingInsertedYet, LoopInTransaction,
         CycleUncommitted, CycleRowCommitted

(* A cycle that is still before its INSERTs has nothing to commit. *)
LEMMA BatchNoIns ==
    ASSUME NEW t, NEW c, ins'[t] = {}, failed'[t] = FALSE,
           pc'[t] \in {"getEvents", "begin", "rollback"} \/ (pc'[t] = "select" /\ open'[c])
    PROVE  BatchInv(t, c)'
  BY DEF BatchInv, RestAfterFailure, NothingInsertedYet, LoopInTransaction,
         CycleUncommitted, CycleRowCommitted

(* The timer, getIndexerState and getEvents. *)
LEMMA BatchBeforeStore ==
    ASSUME NEW t \in Tasks, NEW c, TypeInv, BatchInv(t, c),
           Fire(t) \/ FireStopped(t) \/ GetState(t) \/ GetStateError(t)
           \/ FetchOk(t) \/ FetchError(t)
    PROVE  BatchInv(t, c)'
  <1>1. pc \in [Tasks -> PCs] /\ failed \in [Tasks -> BOOLEAN] /\ ins \in [Tasks -> SUBSET Nat]
    BY DEF TypeInv, TypeOK
  <1>2. CASE Fire(t) \/ FireStopped(t) \/ GetStateError(t)
    <2>1. pc[t] \in Rest /\ pc'[t] \in Rest
      BY <1>1, <1>2 DEF Fire, FireStopped, GetStateError, ArmTimer, Rest
    <2>2. failed' = failed /\ ins' = ins /\ table' = table
      BY <1>2 DEF Fire, FireStopped, GetStateError, dbVars
    <2>3. QED
      BY <2>1, <2>2, BatchRest
  <1>3. CASE GetState(t)
    <2>1. pc'[t] = "getEvents" /\ ins'[t] = {} /\ failed'[t] = FALSE
      BY <1>1, <1>3 DEF GetState
    <2>2. QED
      BY <2>1, BatchNoIns
  <1>4. CASE FetchError(t)
    <2>1. pc[t] = "getEvents" /\ pc'[t] = "timer" /\ failed' = failed
      BY <1>1, <1>4 DEF FetchError, ArmTimer
    <2>2. failed[t] = FALSE
      BY <1>1, <2>1 DEF BatchInv, RestAfterFailure
    <2>3. QED
      BY <2>1, <2>2, BatchQuiet
  <1>5. CASE FetchOk(t)
    <2>1. /\ pc[t] = "getEvents" /\ failed' = failed /\ ins' = ins
          /\ pc'[t] \in {"timer", "begin", "update"}
      BY <1>1, <1>5 DEF FetchOk, ArmTimer
    <2>2. failed[t] = FALSE /\ ins[t] = {}
      BY <1>1, <2>1 DEF BatchInv, RestAfterFailure, NothingInsertedYet
    <2>3. CASE pc'[t] = "begin"
      BY <2>1, <2>2, <2>3, BatchNoIns
    <2>4. CASE pc'[t] \in {"timer", "update"}
      BY <2>1, <2>2, <2>4, BatchQuiet
    <2>5. QED
      BY <2>1, <2>3, <2>4
  <1>6. QED
    BY <1>2, <1>3, <1>4, <1>5

(* storeEvents and updateIndexerState, on a pool whose one connection     *)
(* receives every statement of the cycle.                                  *)
LEMMA BatchStore ==
    ASSUME NEW t \in Tasks, NEW c, Clients = {c}, TypeInv, BatchInv(t, c),
           Begin(t) \/ Skip(t) \/ Select(t) \/ Wait(t) \/ InsertError(t)
           \/ Commit(t) \/ Rollback(t) \/ Update(t) \/ UpdateError(t)
    PROVE  BatchInv(t, c)'
  <1>1. pc \in [Tasks -> PCs] /\ failed \in [Tasks -> BOOLEAN] /\ ins \in [Tasks -> SUBSET Nat]
        /\ open \in [Clients -> BOOLEAN]
    BY DEF TypeInv, TypeOK
  <1>2. CASE Begin(t)
    <2>1. pc[t] = "begin" /\ failed' = failed /\ ins' = ins
      BY <1>2 DEF Begin
    <2>2. failed[t] = FALSE /\ ins[t] = {}
      BY <1>1, <2>1 DEF BatchInv, RestAfterFailure, NothingInsertedYet
    <2>3. pc'[t] = "rollback" \/ (pc'[t] = "select" /\ open'[c])
      BY <1>1, <1>2 DEF Begin
    <2>4. QED
      BY <2>1, <2>2, <2>3, BatchNoIns
  <1>3. CASE Skip(t) \/ Wait(t)
    <2>1. pc' = pc /\ failed' = failed /\ ins' = ins /\ open' = open /\ table' = table
      BY <1>3 DEF Skip, Wait, dbVars
    <2>2. QED
      BY <2>1, BatchFrame
  <1>4. CASE Select(t) \/ InsertError(t)
    <2>1. /\ pc[t] \in {"select", "insert"} /\ pc'[t] \in {"select", "insert", "rollback"}
          /\ failed' = failed /\ ins' = ins /\ open' = open /\ table' = table
      BY <1>1, <1>4 DEF Select, InsertError, dbVars
    <2>2. QED
      BY <2>1, BatchLoop
  <1>5. CASE Commit(t) \/ Update(t) \/ UpdateError(t)
    <2>1. /\ pc[t] \in {"select", "update"} /\ pc'[t] \in {"update", "timer"}
          /\ failed' = failed
      BY <1>1, <1>5 DEF Commit, Update, UpdateError, ArmTimer
    <2>2. failed[t] = FALSE
      BY <1>1, <2>1 DEF BatchInv, RestAfterFailure
    <2>3. QED
      BY <2>1, <2>2, BatchQuiet
  <1>6. CASE Rollback(t)
    <2>1. /\ pc[t] = "rollback" /\ pc'[t] = "timer" /\ failed'[t] = TRUE
          /\ ins' = ins /\ table' = table
      BY <1>1, <1>6 DEF Rollback, ArmTimer
    <2>2. ~CycleRowCommitted(t)'
      BY <2>1 DEF BatchInv, CycleUncommitted, CycleRowCommitted
    <2>3. QED
      BY <2>1, <2>2 DEF BatchInv, RestAfterFailure, NothingInsertedYet, LoopInTransaction,
                        CycleUncommitted
  <1>7. QED
    BY <1>2, <1>3, <1>4, <1>5, <1>6

(* An INSERT of the loop goes into the transaction of the one connection, *)
(* for an event that connection does not see committed.                    *)
LEMMA BatchInsert ==
    ASSUME NEW t \in Tasks, NEW c, Clients = {c}, TypeInv, BatchInv(t, c), Insert(t)
    PROVE  BatchInv(t, c)'
  <1>1. pc \in [Tasks -> PCs] /\ failed \in [Tasks -> BOOLEAN] /\ ins \in [Tasks -> SUBSET Nat]
        /\ open \in [Clients -> BOOLEAN] /\ TypeOK
    BY DEF TypeInv, TypeOK
  <1>2. PICK d \in InsertConns(t) :
          /\ ~InsertFails(t, d)
          /\ \/ open[d] /\ table' = table
             \/ ~open[d] /\ table' = Append(table, [event |-> k[t], by |-> t])
    BY DEF Insert
  <1>3. d = c
    BY <1>1, <1>2, InsertConnsClients, Zenon
  <1>4. pc[t] = "insert" /\ pc'[t] = "select"
    BY <1>1 DEF Insert
  <1>5. open[c] /\ ~failed[t] /\ ~CycleRowCommitted(t)
    BY <1>4 DEF BatchInv, LoopInTransaction, RestAfterFailure, CycleUncommitted
  <1>6. table' = table
    BY <1>2, <1>3, <1>5
  <1>7. k[t] \notin RowIds(table)
    BY <1>2, <1>3 DEF InsertFails, Visible, Committed
  <1>8. ins'[t] = ins[t] \cup {k[t]} /\ failed' = failed /\ open' = open
    BY <1>1 DEF Insert
  <1>9. ~CycleRowCommitted(t)'
    BY <1>5, <1>6, <1>7, <1>8 DEF CycleRowCommitted, RowIds
  <1>10. QED
    BY <1>4, <1>5, <1>8, <1>9 DEF BatchInv, RestAfterFailure, NothingInsertedYet,
                                  LoopInTransaction, CycleUncommitted

(* Every step of the system keeps BatchInv when there is one chain and    *)
(* one connection.                                                         *)
LEMMA BatchStep ==
    ASSUME NEW t, NEW c, Tasks = {t}, Clients = {c}, TypeInv, BatchInv(t, c), [Next]_vars
    PROVE  BatchInv(t, c)'
  <1>1. pc \in [Tasks -> PCs] /\ pollTimeout \in Tasks \cup {None}
    BY DEF TypeInv, TypeOK
  <1>2. CASE Environment \/ UNCHANGED vars
    <2>1. pc' = pc /\ failed' = failed /\ ins' = ins /\ open' = open /\ table' = table
      BY <1>2 DEF Environment, Emit, CloseLedger, Prune, vars, dbVars, taskVars
    <2>2. QED
      BY <2>1, BatchFrame
  <1>3. CASE Start
    <2>1. pc[t] = "idle" /\ pc'[t] = "getState"
      BY <1>1, <1>3 DEF Start
    <2>2. failed' = failed /\ ins' = ins /\ table' = table
      BY <1>3 DEF Start, dbVars
    <2>3. QED
      BY <2>1, <2>2, BatchRest DEF Rest
  <1>4. CASE Stop
    <2>1. failed' = failed /\ ins' = ins /\ open' = open /\ table' = table
      BY <1>4 DEF Stop, dbVars
    <2>2. pc'[t] = pc[t] \/ (pc[t] = "timer" /\ pc'[t] = "idle")
      BY <1>1, <1>4 DEF Stop
    <2>3. QED
      BY <2>1, <2>2, BatchFrame, BatchRest DEF Rest
  <1>5. CASE Crash
    <2>1. pc'[t] = "idle" /\ failed' = failed /\ ins' = ins /\ table' = table
      BY <1>5 DEF Crash
    <2>2. CASE pc[t] \in Rest
      BY <2>1, <2>2, BatchRest DEF Rest
    <2>3. CASE pc[t] \notin Rest
      <3>1. failed[t] = FALSE
        BY <2>3 DEF BatchInv, RestAfterFailure, Rest, TypeInv, TypeOK
      <3>2. failed'[t] = FALSE /\ pc'[t] = "idle"
        BY <2>1, <3>1
      <3>3. QED
        BY <3>2, BatchQuiet
    <2>4. QED
      BY <2>2, <2>3
  <1>6. ASSUME NEW u \in Tasks, TaskStep(u) PROVE BatchInv(t, c)'
    <2>1. TaskStep(t) /\ t \in Tasks
      BY <1>6
    <2>2. QED
      BY <2>1, BatchBeforeStore, BatchStore, BatchInsert DEF TaskStep
  <1>7. QED
    BY <1>2, <1>3, <1>4, <1>5, <1>6 DEF Next

LEMMA BatchInit ==
    ASSUME NEW t \in Tasks, NEW c PROVE Init => BatchInv(t, c)
  BY DEF Init, BatchInv, RestAfterFailure, NothingInsertedYet, LoopInTransaction,
         CycleUncommitted

(* storeEvents' promise holds on a pool of one connection: when the one   *)
(* poll chain startIndexer boots has had storeEvents throw and roll back,  *)
(* loan_events holds no row that cycle INSERTed, for every batch size and  *)
(* bound, across faults of the RPC and of INSERT, stop/start and crashes.  *)
(* Run pool_atomicity shows the hypothesis on Clients is needed.           *)
THEOREM AtomicOnOneConnection ==
    ASSUME NEW t, NEW c, Tasks = {t}, Clients = {c}
    PROVE  Spec => []NoPartialBatch
  <1>1. Init => TypeInv /\ BatchInv(t, c)
    BY TypeInit, BatchInit
  <1>2. TypeInv /\ BatchInv(t, c) /\ [Next]_vars => TypeInv' /\ BatchInv(t, c)'
    BY TypeStep, BatchStep
  <1>3. BatchInv(t, c) => NoPartialBatch
    BY DEF BatchInv, CycleUncommitted, CycleRowCommitted, NoPartialBatch
  <1>4. QED
    BY <1>1, <1>2, <1>3, PTL DEF Spec

=============================================================================
