---------------------------- MODULE IndexerProofs ----------------------------
(***************************************************************************)
(* Proofs about Indexer that hold for every pool size, every number of    *)
(* overlapping poll chains, every batch size and every bound.              *)
(***************************************************************************)
EXTENDS Indexer, TLAPS

(* A cycle that has a batch keeps it within the chain: hi indexes the     *)
(* event updateIndexerState reads the ledger of.                           *)
BatchInChain ==
    \A t \in Tasks :
        pc[t] \in {"begin", "select", "insert", "rollback", "update"} =>
            hi[t] \in 1 .. Len(chain)

TypeInv == TypeOK /\ BatchInChain

(* No two rows of a sequence of loan_events rows carry the same event_id. *)
DistinctEvents(s) == \A i, j \in 1 .. Len(s) : i # j => s[i].event # s[j].event

(* The unique index as the transactions of the pool see it: committed rows *)
(* are distinct, and so are each connection's uncommitted rows, which no   *)
(* committed row and no other connection's uncommitted row repeats.        *)
DupInv ==
    /\ TypeInv
    /\ DistinctEvents(table)
    /\ \A c \in Clients :
          /\ DistinctEvents(pending[c])
          /\ RowIds(pending[c]) \cap Committed = {}
    /\ \A c, d \in Clients :
          c # d => RowIds(pending[c]) \cap RowIds(pending[d]) = {}

(* The values the actions store are members of the sets TypeOK names. *)
LEMMA PCValues ==
    {"idle", "timer", "getState", "getEvents", "begin", "select",
     "insert", "rollback", "update"} \subseteq PCs
  BY DEF PCs

LEMMA RowValue ==
    ASSUME NEW e \in Nat, NEW t \in Tasks PROVE [event |-> e, by |-> t] \in Row
  BY DEF Row

(* Suspending a chain at a label keeps pc a map to labels. *)
LEMMA SetPC ==
    ASSUME NEW f \in [Tasks -> PCs], NEW u \in Tasks,
           NEW v \in {"idle", "timer", "getState", "getEvents", "begin", "select",
                      "insert", "rollback", "update"}
    PROVE  [f EXCEPT ![u] = v] \in [Tasks -> PCs]
  BY PCValues

LEMMA SetWaiting ==
    ASSUME NEW f \in [Tasks -> Clients \cup {None}], NEW u \in Tasks,
           NEW v \in Clients \cup {None}
    PROVE  [f EXCEPT ![u] = v] \in [Tasks -> Clients \cup {None}]
  OBVIOUS

(* An INSERT goes to a connection of the pool. *)
LEMMA InsertConnsClients ==
    ASSUME NEW t \in Tasks, TypeOK
    PROVE  InsertConns(t) \subseteq Clients
  BY DEF InsertConns, TypeOK

LEMMA AddIns ==
    ASSUME NEW f \in [Tasks -> SUBSET Nat], NEW u \in Tasks, NEW x \in Nat
    PROVE  [f EXCEPT ![u] = f[u] \cup {x}] \in [Tasks -> SUBSET Nat]
  OBVIOUS

(* What appending a row, or a transaction's rows, does to the event_ids. *)
LEMMA RowIdsAppend ==
    ASSUME NEW s \in Seq(Row), NEW r \in Row
    PROVE  RowIds(Append(s, r)) = RowIds(s) \cup {r.event}
  <1>1. ASSUME NEW x \in RowIds(Append(s, r)) PROVE x \in RowIds(s) \cup {r.event}
    BY <1>1 DEF RowIds
  <1>2. ASSUME NEW x \in RowIds(s) \cup {r.event} PROVE x \in RowIds(Append(s, r))
    <2>1. CASE x = r.event
      <3>1. Append(s, r)[Len(s) + 1].event = x
        BY <2>1
      <3>2. QED
        BY <3>1 DEF RowIds
    <2>2. CASE x \in RowIds(s)
      BY <2>2 DEF RowIds
    <2>3. QED
      BY <1>2, <2>1, <2>2
  <1>3. QED
    BY <1>1, <1>2

LEMMA DistinctAppend ==
    ASSUME NEW s \in Seq(Row), NEW r \in Row,
           DistinctEvents(s), r.event \notin RowIds(s)
    PROVE  DistinctEvents(Append(s, r))
  BY DEF DistinctEvents, RowIds

LEMMA RowIdsConcat ==
    ASSUME NEW s \in Seq(Row), NEW q \in Seq(Row)
    PROVE  RowIds(s \o q) = RowIds(s) \cup RowIds(q)
  <1>1. ASSUME NEW x \in RowIds(s \o q) PROVE x \in RowIds(s) \cup RowIds(q)
    <2>1. PICK i \in 1 .. Len(s \o q) : (s \o q)[i].event = x
      BY <1>1 DEF RowIds
    <2>2. CASE i <= Len(s)
      BY <2>1, <2>2 DEF RowIds
    <2>3. CASE i > Len(s)
      <3>1. i - Len(s) \in 1 .. Len(q) /\ q[i - Len(s)].event = x
        BY <2>1, <2>3
      <3>2. QED
        BY <3>1 DEF RowIds
    <2>4. QED
      BY <2>2, <2>3
  <1>2. ASSUME NEW x \in RowIds(s) PROVE x \in RowIds(s \o q)
    BY <1>2 DEF RowIds
  <1>3. ASSUME NEW x \in RowIds(q) PROVE x \in RowIds(s \o q)
    <2>1. PICK i \in 1 .. Len(q) : q[i].event = x
      BY <1>3 DEF RowIds
    <2>2. Len(s) + i \in 1 .. Len(s \o q) /\ (s \o q)[Len(s) + i].event = x
      BY <2>1
    <2>3. QED
      BY <2>2 DEF RowIds
  <1>4. QED
    BY <1>1, <1>2, <1>3

LEMMA DistinctConcat ==
    ASSUME NEW s \in Seq(Row), NEW q \in Seq(Row),
           DistinctEvents(s), DistinctEvents(q), RowIds(s) \cap RowIds(q) = {}
    PROVE  DistinctEvents(s \o q)
  <1> SUFFICES ASSUME NEW i \in 1 .. Len(s \o q), NEW j \in 1 .. Len(s \o q), i # j
               PROVE  (s \o q)[i].event # (s \o q)[j].event
    BY DEF DistinctEvents
  <1>1. CASE i <= Len(s) /\ j <= Len(s)
    BY <1>1 DEF DistinctEvents
  <1>2. CASE i > Len(s) /\ j > Len(s)
    <2>1. i - Len(s) \in 1 .. Len(q) /\ j - Len(s) \in 1 .. Len(q) /\ i - Len(s) # j - Len(s)
      BY <1>2
    <2>2. QED
      BY <1>2, <2>1 DEF DistinctEvents
  <1>3. CASE i <= Len(s) /\ j > Len(s)
    <2>1. (s \o q)[i].event \in RowIds(s)
      BY <1>3 DEF RowIds
    <2>2. (s \o q)[j].event \in RowIds(q)
      <3>1. j - Len(s) \in 1 .. Len(q) /\ (s \o q)[j] = q[j - Len(s)]
        BY <1>3
      <3>2. QED
        BY <3>1 DEF RowIds
    <2>3. QED
      BY <2>1, <2>2
  <1>4. CASE i > Len(s) /\ j <= Len(s)
    <2>1. (s \o q)[j].event \in RowIds(s)
      BY <1>4 DEF RowIds
    <2>2. (s \o q)[i].event \in RowIds(q)
      <3>1. i - Len(s) \in 1 .. Len(q) /\ (s \o q)[i] = q[i - Len(s)]
        BY <1>4
      <3>2. QED
        BY <3>1 DEF RowIds
    <2>3. QED
      BY <2>1, <2>2
  <1>5. QED
    BY <1>1, <1>2, <1>3, <1>4

LEMMA TypeInit == Init => TypeInv
<1> SUFFICES ASSUME Init PROVE TypeInv
  OBVIOUS
<1>1. pc \in [Tasks -> PCs]
  BY PCValues DEF Init
<1>2. table \in Seq(Row) /\ pending \in [Clients -> Seq(Row)] /\ chain \in Seq(Event)
  BY DEF Init
<1>3. startLedger \in [Tasks -> (Nat \ {0}) \cup {Undefined}]
  BY DEF Init
<1>4. progress \in Nat \cup {None}
  BY DEF Init
<1>5. /\ latest \in Nat /\ oldest \in Nat
      /\ open \in [Clients -> BOOLEAN] /\ aborted \in [Clients -> BOOLEAN]
      /\ isRunning \in BOOLEAN /\ pollTimeout \in Tasks \cup {None}
      /\ lo \in [Tasks -> Nat] /\ hi \in [Tasks -> Nat] /\ k \in [Tasks -> Nat]
      /\ ins \in [Tasks -> SUBSET Nat] /\ failed \in [Tasks -> BOOLEAN]
      /\ waitingOn \in [Tasks -> Clients \cup {None}]
  BY DEF Init
<1>6. BatchInChain
  BY <1>1 DEF Init, BatchInChain
<1>7. QED
  BY <1>1, <1>2, <1>3, <1>4, <1>5, <1>6 DEF TypeInv, TypeOK

LEMMA EmitType == TypeInv /\ Emit => TypeInv'
<1> SUFFICES ASSUME TypeInv, Emit PROVE TypeInv'
  OBVIOUS
<1> USE DEF TypeInv, TypeOK
<1>1. chain' \in Seq(Event)
  BY DEF Emit, Event
<1>2. UNCHANGED <<latest, oldest, table, progress, open, aborted, pending, isRunning, pollTimeout, pc, startLedger, lo, hi, k, ins, failed, waitingOn>>
  BY DEF Emit, chainVars, dbVars, taskVars
<1>3. BatchInChain'
  BY <1>2 DEF Emit, BatchInChain
<1>4. QED
  BY <1>1, <1>2, <1>3

LEMMA CloseLedgerType == TypeInv /\ CloseLedger => TypeInv'
<1> SUFFICES ASSUME TypeInv, CloseLedger PROVE TypeInv'
  OBVIOUS
<1> USE DEF TypeInv, TypeOK
<1>1. latest' \in Nat
  BY DEF CloseLedger
<1>2. UNCHANGED <<chain, oldest, table, progress, open, aborted, pending, isRunning, pollTimeout, pc, startLedger, lo, hi, k, ins, failed, waitingOn>>
  BY DEF CloseLedger, chainVars, dbVars, taskVars
<1>3. BatchInChain'
  BY <1>2 DEF CloseLedger, BatchInChain
<1>4. QED
  BY <1>1, <1>2, <1>3

LEMMA PruneType == TypeInv /\ Prune => TypeInv'
<1> SUFFICES ASSUME TypeInv, Prune PROVE TypeInv'
  OBVIOUS
<1> USE DEF TypeInv, TypeOK
<1>1. oldest' \in Nat
  BY DEF Prune
<1>2. UNCHANGED <<chain, latest, table, progress, open, aborted, pending, isRunning, pollTimeout, pc, startLedger, lo, hi, k, ins, failed, waitingOn>>
  BY DEF Prune, chainVars, dbVars, taskVars
<1>3. BatchInChain'
  BY <1>2 DEF Prune, BatchInChain
<1>4. QED
  BY <1>1, <1>2, <1>3

LEMMA StartType == TypeInv /\ Start => TypeInv'
<1> SUFFICES ASSUME TypeInv, Start PROVE TypeInv'
  OBVIOUS
<1> USE DEF TypeInv, TypeOK
<1>1. pc' \in [Tasks -> PCs]
  BY PCValues DEF Start
<1>2. isRunning' \in BOOLEAN
  BY DEF Start
<1>3. UNCHANGED <<chain, latest, oldest, table, progress, open, aborted, pending, pollTimeout, startLedger, lo, hi, k, ins, failed, waitingOn>>
  BY DEF Start, chainVars, dbVars, taskVars
<1>4. BatchInChain'
  BY <1>3 DEF Start, BatchInChain
<1>5. QED
  BY <1>1, <1>2, <1>3, <1>4

LEMMA StopType == TypeInv /\ Stop => TypeInv'
<1> SUFFICES ASSUME TypeInv, Stop PROVE TypeInv'
  OBVIOUS
<1> USE DEF TypeInv, TypeOK
<1>1. pc' \in [Tasks -> PCs]
  BY PCValues DEF Stop
<1>2. isRunning' \in BOOLEAN
  BY DEF Stop
<1>3. UNCHANGED <<chain, latest, oldest, table, progress, open, aborted, pending, pollTimeout, startLedger, lo, hi, k, ins, failed, waitingOn>>
  BY DEF Stop, chainVars, dbVars, taskVars
<1>4. BatchInChain'
  BY <1>3 DEF Stop, BatchInChain
<1>5. QED
  BY <1>1, <1>2, <1>3, <1>4

LEMMA CrashType == TypeInv /\ Crash => TypeInv'
<1> SUFFICES ASSUME TypeInv, Crash PROVE TypeInv'
  OBVIOUS
<1> USE DEF TypeInv, TypeOK
<1>1. pc' \in [Tasks -> PCs]
  BY PCValues DEF Crash
<1>2. pending' \in [Clients -> Seq(Row)]
  BY DEF Crash
<1>3. /\ isRunning' \in BOOLEAN /\ pollTimeout' \in Tasks \cup {None}
      /\ open' \in [Clients -> BOOLEAN] /\ aborted' \in [Clients -> BOOLEAN]
  BY DEF Crash
<1>4. waitingOn' \in [Tasks -> Clients \cup {None}]
  BY DEF Crash
<1>5. UNCHANGED <<chain, latest, oldest, table, progress, startLedger, lo, hi, k, ins, failed>>
  BY DEF Crash, chainVars, dbVars, taskVars
<1>6. BatchInChain'
  BY <1>5 DEF Crash, BatchInChain
<1>7. QED
  BY <1>1, <1>2, <1>3, <1>4, <1>5, <1>6

LEMMA FireType == ASSUME NEW t \in Tasks PROVE TypeInv /\ Fire(t) => TypeInv'
<1> SUFFICES ASSUME TypeInv, Fire(t) PROVE TypeInv'
  OBVIOUS
<1> USE DEF TypeInv, TypeOK
<1>1. pc' \in [Tasks -> PCs]
  BY PCValues DEF Fire
<1>2. UNCHANGED <<chain, latest, oldest, table, progress, open, aborted, pending, isRunning, pollTimeout, startLedger, lo, hi, k, ins, failed, waitingOn>>
  BY DEF Fire, chainVars, dbVars, taskVars
<1>3. BatchInChain'
  BY <1>2 DEF Fire, BatchInChain
<1>4. QED
  BY <1>1, <1>2, <1>3

LEMMA FireStoppedType == ASSUME NEW t \in Tasks PROVE TypeInv /\ FireStopped(t) => TypeInv'
<1> SUFFICES ASSUME TypeInv, FireStopped(t) PROVE TypeInv'
  OBVIOUS
<1> USE DEF TypeInv, TypeOK
<1>1. pc' \in [Tasks -> PCs]
  BY PCValues DEF FireStopped
<1>2. UNCHANGED <<chain, latest, oldest, table, progress, open, aborted, pending, isRunning, pollTimeout, startLedger, lo, hi, k, ins, failed, waitingOn>>
  BY DEF FireStopped, chainVars, dbVars, taskVars
<1>3. BatchInChain'
  BY <1>2 DEF FireStopped, BatchInChain
<1>4. QED
  BY <1>1, <1>2, <1>3

LEMMA GetStateType == ASSUME NEW t \in Tasks PROVE TypeInv /\ GetState(t) => TypeInv'
<1> SUFFICES ASSUME TypeInv, GetState(t) PROVE TypeInv'
  OBVIOUS
<1> USE DEF TypeInv, TypeOK
<1>1. pc' \in [Tasks -> PCs]
  BY PCValues DEF GetState
<1>2. startLedger' \in [Tasks -> (Nat \ {0}) \cup {Undefined}]
  BY DEF GetState
<1>3. ins' \in [Tasks -> SUBSET Nat] /\ failed' \in [Tasks -> BOOLEAN]
  BY DEF GetState
<1>4. UNCHANGED <<chain, latest, oldest, table, progress, open, aborted, pending, isRunning, pollTimeout, lo, hi, k, waitingOn>>
  BY DEF GetState, chainVars, dbVars, taskVars
<1>5. BatchInChain'
  BY <1>4 DEF GetState, BatchInChain
<1>6. QED
  BY <1>1, <1>2, <1>3, <1>4, <1>5

LEMMA GetStateErrorType == ASSUME NEW t \in Tasks PROVE TypeInv /\ GetStateError(t) => TypeInv'
<1> SUFFICES ASSUME TypeInv, GetStateError(t) PROVE TypeInv'
  OBVIOUS
<1> USE DEF TypeInv, TypeOK
<1>1. pc' \in [Tasks -> PCs] /\ pollTimeout' \in Tasks \cup {None}
  BY PCValues DEF GetStateError, ArmTimer
<1>2. UNCHANGED <<chain, latest, oldest, table, progress, open, aborted, pending, isRunning, startLedger, lo, hi, k, ins, failed, waitingOn>>
  BY DEF GetStateError, ArmTimer, chainVars, dbVars, taskVars
<1>3. BatchInChain'
  BY <1>2 DEF GetStateError, ArmTimer, BatchInChain
<1>4. QED
  BY <1>1, <1>2, <1>3

LEMMA FetchOkType == ASSUME NEW t \in Tasks PROVE TypeInv /\ FetchOk(t) => TypeInv'
<1> SUFFICES ASSUME TypeInv, FetchOk(t) PROVE TypeInv'
  OBVIOUS
<1> USE DEF TypeInv, TypeOK
<1> DEFINE J(i) == IF i + BatchSize - 1 <= Len(chain) THEN i + BatchSize - 1 ELSE Len(chain)
<1>1. PICK i \in 1 .. Len(chain) + 1 :
        /\ lo' = [lo EXCEPT ![t] = i]
        /\ hi' = [hi EXCEPT ![t] = J(i)]
        /\ k' = [k EXCEPT ![t] = i]
        /\ \/ /\ i > Len(chain)
              /\ pc' = [pc EXCEPT ![t] = "timer"] /\ pollTimeout' = t
           \/ /\ i <= Len(chain)
              /\ pc' \in {[pc EXCEPT ![t] = "begin"], [pc EXCEPT ![t] = "update"]}
              /\ pollTimeout' = pollTimeout
  BY DEF FetchOk, ArmTimer
<1>2. pc' \in [Tasks -> PCs] /\ pollTimeout' \in Tasks \cup {None}
  <2>1. CASE i > Len(chain)
    <3>1. pc' = [pc EXCEPT ![t] = "timer"] /\ pollTimeout' = t
      BY <1>1, <2>1
    <3>2. QED
      BY <3>1, SetPC
  <2>2. CASE i <= Len(chain)
    <3>1. /\ pc' \in {[pc EXCEPT ![t] = "begin"], [pc EXCEPT ![t] = "update"]}
          /\ pollTimeout' = pollTimeout
      BY <1>1, <2>2
    <3>2. [pc EXCEPT ![t] = "begin"] \in [Tasks -> PCs]
      BY SetPC
    <3>3. [pc EXCEPT ![t] = "update"] \in [Tasks -> PCs]
      BY SetPC
    <3>4. QED
      BY <3>1, <3>2, <3>3
  <2>3. QED
    BY <2>1, <2>2
<1>3. i <= Len(chain) => J(i) \in 1 .. Len(chain)
  BY BatchSizeAssumption
<1>4. lo' \in [Tasks -> Nat] /\ hi' \in [Tasks -> Nat] /\ k' \in [Tasks -> Nat]
  <2>1. J(i) \in Nat
    BY BatchSizeAssumption
  <2>2. QED
    BY <1>1, <2>1
<1>5. UNCHANGED <<chain, latest, oldest, table, progress, open, aborted, pending, isRunning, startLedger, ins, failed, waitingOn>>
  BY DEF FetchOk, chainVars, dbVars
<1>6. BatchInChain'
  <2> SUFFICES ASSUME NEW u \in Tasks,
                      pc'[u] \in {"begin", "select", "insert", "rollback", "update"}
               PROVE hi'[u] \in 1 .. Len(chain')
    BY DEF BatchInChain
  <2>1. CASE u = t
    BY <1>1, <1>3, <1>5, <2>1
  <2>2. CASE u # t
    BY <1>1, <1>5, <2>2 DEF BatchInChain
  <2>3. QED
    BY <2>1, <2>2
<1>7. QED
  BY <1>2, <1>4, <1>5, <1>6

LEMMA FetchErrorType == ASSUME NEW t \in Tasks PROVE TypeInv /\ FetchError(t) => TypeInv'
<1> SUFFICES ASSUME TypeInv, FetchError(t) PROVE TypeInv'
  OBVIOUS
<1> USE DEF TypeInv, TypeOK
<1>1. pc' \in [Tasks -> PCs] /\ pollTimeout' \in Tasks \cup {None}
  BY PCValues DEF FetchError, ArmTimer
<1>2. UNCHANGED <<chain, latest, oldest, table, progress, open, aborted, pending, isRunning, startLedger, lo, hi, k, ins, failed, waitingOn>>
  BY DEF FetchError, ArmTimer, chainVars, dbVars, taskVars
<1>3. BatchInChain'
  BY <1>2 DEF FetchError, ArmTimer, BatchInChain
<1>4. QED
  BY <1>1, <1>2, <1>3

LEMMA BeginType == ASSUME NEW t \in Tasks PROVE TypeInv /\ Begin(t) => TypeInv'
<1> SUFFICES ASSUME TypeInv, Begin(t) PROVE TypeInv'
  OBVIOUS
<1> USE DEF TypeInv, TypeOK
<1>1. pc' \in [Tasks -> PCs]
  BY PCValues DEF Begin
<1>2. open' \in [Clients -> BOOLEAN]
  BY DEF Begin
<1>3. UNCHANGED <<chain, latest, oldest, table, progress, aborted, pending, isRunning, pollTimeout, startLedger, lo, hi, k, ins, failed, waitingOn>>
  BY DEF Begin, chainVars, dbVars, taskVars
<1>4. BatchInChain'
  BY <1>3 DEF Begin, BatchInChain
<1>5. QED
  BY <1>1, <1>2, <1>3, <1>4

LEMMA SkipType == ASSUME NEW t \in Tasks PROVE TypeInv /\ Skip(t) => TypeInv'
<1> SUFFICES ASSUME TypeInv, Skip(t) PROVE TypeInv'
  OBVIOUS
<1> USE DEF TypeInv, TypeOK
<1>1. k' \in [Tasks -> Nat]
  BY DEF Skip
<1>2. UNCHANGED <<chain, latest, oldest, table, progress, open, aborted, pending, isRunning, pollTimeout, pc, startLedger, lo, hi, ins, failed, waitingOn>>
  BY DEF Skip, chainVars, dbVars, taskVars
<1>3. BatchInChain'
  BY <1>2 DEF Skip, BatchInChain
<1>4. QED
  BY <1>1, <1>2, <1>3

LEMMA SelectType == ASSUME NEW t \in Tasks PROVE TypeInv /\ Select(t) => TypeInv'
<1> SUFFICES ASSUME TypeInv, Select(t) PROVE TypeInv'
  OBVIOUS
<1> USE DEF TypeInv, TypeOK
<1>1. \/ pc' = [pc EXCEPT ![t] = "rollback"] /\ k' = k
      \/ pc' = pc /\ k' = [k EXCEPT ![t] = k[t] + 1]
      \/ pc' = [pc EXCEPT ![t] = "insert"] /\ k' = k
  BY DEF Select
<1>2. pc' \in [Tasks -> PCs] /\ k' \in [Tasks -> Nat]
  <2>1. CASE pc' = [pc EXCEPT ![t] = "rollback"] /\ k' = k
    BY <2>1, SetPC
  <2>2. CASE pc' = pc /\ k' = [k EXCEPT ![t] = k[t] + 1]
    BY <2>2
  <2>3. CASE pc' = [pc EXCEPT ![t] = "insert"] /\ k' = k
    BY <2>3, SetPC
  <2>4. QED
    BY <1>1, <2>1, <2>2, <2>3, Zenon
<1>3. UNCHANGED <<chain, latest, oldest, table, progress, open, aborted, pending, isRunning, pollTimeout, startLedger, lo, hi, ins, failed, waitingOn>>
  BY DEF Select, chainVars, dbVars
<1>4. BatchInChain'
  BY <1>1, <1>3 DEF Select, BatchInChain
<1>5. QED
  BY <1>2, <1>3, <1>4

LEMMA InsertType == ASSUME NEW t \in Tasks PROVE TypeInv /\ Insert(t) => TypeInv'
<1> SUFFICES ASSUME TypeInv, Insert(t) PROVE TypeInv'
  OBVIOUS
<1> USE DEF TypeInv, TypeOK
<1> DEFINE row == [event |-> k[t], by |-> t]
<1>1. row \in Row
  BY RowValue
<1>2. PICK c \in InsertConns(t) :
        \/ pending' = [pending EXCEPT ![c] = Append(@, row)] /\ table' = table
        \/ table' = Append(table, row) /\ pending' = pending
  BY DEF Insert
<1>3. c \in Clients
  BY InsertConnsClients
<1>4. table' \in Seq(Row) /\ pending' \in [Clients -> Seq(Row)]
  <2>1. CASE pending' = [pending EXCEPT ![c] = Append(@, row)] /\ table' = table
    BY <1>1, <1>3, <2>1
  <2>2. CASE table' = Append(table, row) /\ pending' = pending
    BY <1>1, <2>2
  <2>3. QED
    BY <1>2, <2>1, <2>2
<1>5. /\ pc' = [pc EXCEPT ![t] = "select"]
      /\ k' = [k EXCEPT ![t] = k[t] + 1]
      /\ ins' = [ins EXCEPT ![t] = @ \cup {k[t]}]
      /\ waitingOn' = [waitingOn EXCEPT ![t] = None]
  BY DEF Insert
<1>6. /\ pc' \in [Tasks -> PCs] /\ k' \in [Tasks -> Nat]
      /\ ins' \in [Tasks -> SUBSET Nat] /\ waitingOn' \in [Tasks -> Clients \cup {None}]
  <2>1. pc' \in [Tasks -> PCs]
    BY <1>5, SetPC
  <2>2. k' \in [Tasks -> Nat]
    BY <1>5
  <2>3. ins' \in [Tasks -> SUBSET Nat]
    BY <1>5, AddIns
  <2>4. waitingOn' \in [Tasks -> Clients \cup {None}]
    BY <1>5, SetWaiting
  <2>5. QED
    BY <2>1, <2>2, <2>3, <2>4
<1>7. UNCHANGED <<chain, latest, oldest, progress, open, aborted, isRunning, pollTimeout, startLedger, lo, hi, failed>>
  BY DEF Insert, chainVars
<1>8. BatchInChain'
  <2>1. pc[t] = "insert"
    BY DEF Insert
  <2>2. QED
    BY <1>5, <1>7, <2>1 DEF BatchInChain
<1>9. QED
  BY <1>4, <1>6, <1>7, <1>8

LEMMA InsertErrorType == ASSUME NEW t \in Tasks PROVE TypeInv /\ InsertError(t) => TypeInv'
<1> SUFFICES ASSUME TypeInv, InsertError(t) PROVE TypeInv'
  OBVIOUS
<1> USE DEF TypeInv, TypeOK
<1>1. pc' \in [Tasks -> PCs]
  BY PCValues DEF InsertError
<1>2. PICK c \in InsertConns(t) : aborted' = [aborted EXCEPT ![c] = open[c]]
  BY DEF InsertError, Fail
<1>3. c \in Clients
  BY InsertConnsClients
<1>4. aborted' \in [Clients -> BOOLEAN]
  BY <1>2, <1>3
<1>5. waitingOn' \in [Tasks -> Clients \cup {None}]
  BY SetWaiting DEF InsertError
<1>6. UNCHANGED <<chain, latest, oldest, table, progress, open, pending, isRunning, pollTimeout, startLedger, lo, hi, k, ins, failed>>
  BY DEF InsertError, Fail, chainVars, dbVars, taskVars
<1>7. BatchInChain'
  BY <1>6 DEF InsertError, Fail, BatchInChain
<1>8. QED
  BY <1>1, <1>4, <1>5, <1>6, <1>7

LEMMA WaitType == ASSUME NEW t \in Tasks PROVE TypeInv /\ Wait(t) => TypeInv'
<1> SUFFICES ASSUME TypeInv, Wait(t) PROVE TypeInv'
  OBVIOUS
<1> USE DEF TypeInv, TypeOK
<1>1. waitingOn' \in [Tasks -> Clients \cup {None}]
  BY SetWaiting DEF Wait
<1>2. UNCHANGED <<chain, latest, oldest, table, progress, open, aborted, pending, isRunning, pollTimeout, pc, startLedger, lo, hi, k, ins, failed>>
  BY DEF Wait, chainVars, dbVars
<1>3. BatchInChain'
  BY <1>2 DEF BatchInChain
<1>4. QED
  BY <1>1, <1>2, <1>3

LEMMA CommitType == ASSUME NEW t \in Tasks PROVE TypeInv /\ Commit(t) => TypeInv'
<1> SUFFICES ASSUME TypeInv, Commit(t) PROVE TypeInv'
  OBVIOUS
<1> USE DEF TypeInv, TypeOK
<1>1. pc' \in [Tasks -> PCs]
  BY PCValues DEF Commit
<1>2. table' \in Seq(Row) /\ pending' \in [Clients -> Seq(Row)]
  BY DEF Commit
<1>3. open' \in [Clients -> BOOLEAN] /\ aborted' \in [Clients -> BOOLEAN]
  BY DEF Commit
<1>4. UNCHANGED <<chain, latest, oldest, progress, isRunning, pollTimeout, startLedger, lo, hi, k, ins, failed, waitingOn>>
  BY DEF Commit, chainVars, dbVars, taskVars
<1>5. BatchInChain'
  BY <1>4 DEF Commit, BatchInChain
<1>6. QED
  BY <1>1, <1>2, <1>3, <1>4, <1>5

LEMMA RollbackType == ASSUME NEW t \in Tasks PROVE TypeInv /\ Rollback(t) => TypeInv'
<1> SUFFICES ASSUME TypeInv, Rollback(t) PROVE TypeInv'
  OBVIOUS
<1> USE DEF TypeInv, TypeOK
<1>1. pc' \in [Tasks -> PCs] /\ pollTimeout' \in Tasks \cup {None}
  BY PCValues DEF Rollback, ArmTimer
<1>2. pending' \in [Clients -> Seq(Row)]
  BY DEF Rollback
<1>3. open' \in [Clients -> BOOLEAN] /\ aborted' \in [Clients -> BOOLEAN] /\ failed' \in [Tasks -> BOOLEAN]
  BY DEF Rollback
<1>4. UNCHANGED <<chain, latest, oldest, table, progress, isRunning, startLedger, lo, hi, k, ins, waitingOn>>
  BY DEF Rollback, ArmTimer, chainVars, dbVars, taskVars
<1>5. BatchInChain'
  <2>1. pc' = [pc EXCEPT ![t] = "timer"]
    BY DEF Rollback, ArmTimer
  <2>2. QED
    BY <1>4, <2>1 DEF BatchInChain
<1>6. QED
  BY <1>1, <1>2, <1>3, <1>4, <1>5

LEMMA UpdateType == ASSUME NEW t \in Tasks PROVE TypeInv /\ Update(t) => TypeInv'
<1> SUFFICES ASSUME TypeInv, Update(t) PROVE TypeInv'
  OBVIOUS
<1> USE DEF TypeInv, TypeOK
<1>1. pc' \in [Tasks -> PCs] /\ pollTimeout' \in Tasks \cup {None}
  BY PCValues DEF Update, ArmTimer
<1>2. hi[t] \in 1 .. Len(chain)
  BY DEF Update, BatchInChain
<1>3. chain[hi[t]] \in Event
  BY <1>2
<1>8. chain[hi[t]].ledger \in Nat
  BY <1>3 DEF Event
<1>4. progress' \in Nat \cup {None}
  BY <1>8 DEF Update
<1>5. UNCHANGED <<chain, latest, oldest, table, open, aborted, pending, isRunning, startLedger, lo, hi, k, ins, failed, waitingOn>>
  BY DEF Update, chainVars
<1>6. BatchInChain'
  BY <1>5 DEF Update, ArmTimer, BatchInChain
<1>7. QED
  BY <1>1, <1>4, <1>5, <1>6

LEMMA UpdateErrorType == ASSUME NEW t \in Tasks PROVE TypeInv /\ UpdateError(t) => TypeInv'
<1> SUFFICES ASSUME TypeInv, UpdateError(t) PROVE TypeInv'
  OBVIOUS
<1> USE DEF TypeInv, TypeOK
<1>1. pc' \in [Tasks -> PCs] /\ pollTimeout' \in Tasks \cup {None}
  BY PCValues DEF UpdateError, ArmTimer
<1>2. UNCHANGED <<chain, latest, oldest, table, progress, open, aborted, pending, isRunning, startLedger, lo, hi, k, ins, failed, waitingOn>>
  BY DEF UpdateError, ArmTimer, chainVars, dbVars, taskVars
<1>3. BatchInChain'
  BY <1>2 DEF UpdateError, ArmTimer, BatchInChain
<1>4. QED
  BY <1>1, <1>2, <1>3

LEMMA TypeStep == TypeInv /\ [Next]_vars => TypeInv'
<1> SUFFICES ASSUME TypeInv, [Next]_vars PROVE TypeInv'
  OBVIOUS
<1>1. ASSUME NEW t \in Tasks, TaskStep(t) PROVE TypeInv'
  BY <1>1, FireType, FireStoppedType, GetStateType, GetStateErrorType, FetchOkType, FetchErrorType, BeginType, SkipType, SelectType, WaitType, InsertType, InsertErrorType, CommitType, RollbackType, UpdateType, UpdateErrorType DEF TaskStep
<1>2. CASE UNCHANGED vars
  BY <1>2 DEF vars, chainVars, dbVars, taskVars, TypeInv, TypeOK, BatchInChain
<1>3. QED
  BY <1>1, <1>2, EmitType, CloseLedgerType, PruneType, StartType, StopType, CrashType DEF Next, Environment

-----------------------------------------------------------------------------
(* No event is stored twice.                                               *)

(* A step that leaves the tables and the transactions alone keeps DupInv. *)
LEMMA DupUnchanged ==
    ASSUME DupInv, TypeInv', table' = table, pending' = pending
    PROVE  DupInv'
  <1>1. DistinctEvents(table')
    BY DEF DupInv
  <1>2. Committed' = Committed
    BY DEF Committed
  <1>3. QED
    BY <1>1, <1>2 DEF DupInv

(* The parts of DupInv the step lemmas below work with. *)
LEMMA DupParts ==
    ASSUME DupInv
    PROVE  /\ TypeOK
           /\ DistinctEvents(table)
           /\ \A c \in Clients :
                 DistinctEvents(pending[c]) /\ RowIds(pending[c]) \cap Committed = {}
           /\ \A c, d \in Clients :
                 c # d => RowIds(pending[c]) \cap RowIds(pending[d]) = {}
  BY DEF DupInv, TypeInv

LEMMA EmptyRows == RowIds(<<>>) = {} /\ DistinctEvents(<<>>)
  BY DEF RowIds, DistinctEvents

(* A step that ends the transaction of one connection without committing *)
(* its rows (ROLLBACK, or COMMIT of an aborted or absent transaction)     *)
(* keeps DupInv.                                                           *)
LEMMA DupClear ==
    ASSUME DupInv, TypeInv', table' = table,
           NEW c \in Clients, pending' = [pending EXCEPT ![c] = <<>>]
    PROVE  DupInv'
  <1>1. pending \in [Clients -> Seq(Row)]
    BY DupParts DEF TypeOK
  <1>2. \A d \in Clients : pending'[d] = IF d = c THEN <<>> ELSE pending[d]
    BY <1>1
  <1>3. Committed' = Committed
    BY DEF Committed
  <1>4. \A d \in Clients : DistinctEvents(pending'[d]) /\ RowIds(pending'[d]) \cap Committed' = {}
    BY <1>2, <1>3, DupParts, EmptyRows
  <1>5. \A d, e \in Clients : d # e => RowIds(pending'[d]) \cap RowIds(pending'[e]) = {}
    BY <1>2, DupParts, EmptyRows
  <1>6. DistinctEvents(table')
    BY DupParts
  <1>7. QED
    BY <1>4, <1>5, <1>6, Zenon DEF DupInv

LEMMA DupCrash == DupInv /\ TypeInv' /\ Crash => DupInv'
  <1> SUFFICES ASSUME DupInv, TypeInv', Crash PROVE DupInv'
    OBVIOUS
  <1>1. table' = table /\ pending' = [d \in Clients |-> <<>>]
    BY DEF Crash
  <1>2. QED
    BY <1>1, EmptyRows DEF DupInv, Committed

(* An INSERT of a row its connection does not see and no other            *)
(* transaction holds keeps DupInv, autocommitted or not.                   *)
LEMMA DupInsert ==
    ASSUME NEW t \in Tasks, DupInv, TypeInv', Insert(t)
    PROVE  DupInv'
  <1> DEFINE row == [event |-> k[t], by |-> t]
  <1>0. /\ pending \in [Clients -> Seq(Row)]
        /\ table \in Seq(Row)
    BY DupParts DEF TypeOK
  <1>1. row \in Row /\ row.event = k[t]
    BY DupParts, RowValue DEF TypeOK
  <1>2. PICK c \in InsertConns(t) :
          /\ k[t] \notin Committed \cup RowIds(pending[c])
          /\ \A d \in Clients \ {c} : k[t] \notin RowIds(pending[d])
          /\ \/ pending' = [pending EXCEPT ![c] = Append(pending[c], row)] /\ table' = table
             \/ table' = Append(table, row) /\ pending' = pending
    BY DEF Insert, InsertFails, Visible, LockedElsewhere
  <1>9. c \in Clients
    BY DupParts, InsertConnsClients, Zenon
  <1>3. CASE pending' = [pending EXCEPT ![c] = Append(pending[c], row)] /\ table' = table
    <2>1. pending'[c] = Append(pending[c], row)
      BY <1>0, <1>3, <1>9
    <2>2. \A d \in Clients \ {c} : pending'[d] = pending[d]
      BY <1>0, <1>3
    <2>3. RowIds(pending'[c]) = RowIds(pending[c]) \cup {k[t]}
      BY <1>0, <1>1, <1>9, <2>1, RowIdsAppend
    <2>4. DistinctEvents(pending'[c])
      <3>1. DistinctEvents(pending[c]) /\ k[t] \notin RowIds(pending[c])
        BY <1>2, <1>9, DupParts
      <3>2. DistinctEvents(Append(pending[c], row))
        BY <1>0, <1>1, <1>9, <3>1, DistinctAppend
      <3>3. QED
        BY <2>1, <3>2
    <2>5. Committed' = Committed
      BY <1>3 DEF Committed
    <2>6. RowIds(pending'[c]) \cap Committed' = {}
      BY <1>2, <1>9, <2>3, <2>5, DupParts
    <2>7. \A d \in Clients \ {c} :
            DistinctEvents(pending'[d]) /\ RowIds(pending'[d]) \cap Committed' = {}
      BY <2>2, <2>5, DupParts
    <2>8. \A d \in Clients \ {c} : RowIds(pending'[c]) \cap RowIds(pending'[d]) = {}
      BY <1>2, <1>9, <2>2, <2>3, DupParts
    <2>9. \A d, e \in Clients \ {c} : d # e => RowIds(pending'[d]) \cap RowIds(pending'[e]) = {}
      BY <2>2, DupParts
    <2>10. DistinctEvents(table')
      BY <1>3, DupParts
    <2>11. QED
      BY <1>9, <2>4, <2>6, <2>7, <2>8, <2>9, <2>10 DEF DupInv
  <1>4. CASE table' = Append(table, row) /\ pending' = pending
    <2>1. Committed' = Committed \cup {k[t]}
      BY <1>0, <1>1, <1>4, RowIdsAppend DEF Committed
    <2>2. DistinctEvents(table')
      <3>1. DistinctEvents(table) /\ k[t] \notin RowIds(table)
        BY <1>2, DupParts DEF Committed
      <3>2. QED
        BY <1>0, <1>1, <1>4, <3>1, DistinctAppend
    <2>3. \A d \in Clients : k[t] \notin RowIds(pending[d])
      BY <1>2
    <2>4. \A d \in Clients :
            DistinctEvents(pending'[d]) /\ RowIds(pending'[d]) \cap Committed' = {}
      BY <1>4, <2>1, <2>3, DupParts
    <2>5. \A d, e \in Clients : d # e => RowIds(pending'[d]) \cap RowIds(pending'[e]) = {}
      BY <1>4, DupParts
    <2>6. QED
      BY <2>2, <2>4, <2>5 DEF DupInv
  <1>5. QED
    BY <1>2, <1>3, <1>4

(* COMMIT appends the rows of the transaction it lands on to the table.   *)
LEMMA DupCommit ==
    ASSUME NEW t \in Tasks, DupInv, TypeInv', Commit(t)
    PROVE  DupInv'
  <1>0. /\ pending \in [Clients -> Seq(Row)]
        /\ table \in Seq(Row)
    BY DupParts DEF TypeOK
  <1>1. PICK c \in Clients :
          /\ table' = IF open[c] /\ ~aborted[c] THEN table \o pending[c] ELSE table
          /\ pending' = [pending EXCEPT ![c] = <<>>]
    BY Zenon DEF Commit
  <1>2. CASE ~(open[c] /\ ~aborted[c])
    BY <1>1, <1>2, DupClear, Zenon
  <1>3. CASE open[c] /\ ~aborted[c]
    <2>1. table' = table \o pending[c]
      BY <1>1, <1>3
    <2>2. DistinctEvents(table')
      <3>1. /\ DistinctEvents(table) /\ DistinctEvents(pending[c])
            /\ RowIds(table) \cap RowIds(pending[c]) = {}
        BY DupParts DEF Committed
      <3>2. QED
        BY <1>0, <2>1, <3>1, DistinctConcat
    <2>3. Committed' = Committed \cup RowIds(pending[c])
      BY <1>0, <2>1, RowIdsConcat DEF Committed
    <2>4. \A d \in Clients : pending'[d] = IF d = c THEN <<>> ELSE pending[d]
      BY <1>0, <1>1
    <2>5. \A d \in Clients : DistinctEvents(pending'[d]) /\ RowIds(pending'[d]) \cap Committed' = {}
      BY <2>3, <2>4, DupParts, EmptyRows
    <2>6. ASSUME NEW d \in Clients, NEW e \in Clients, d # e
          PROVE  RowIds(pending'[d]) \cap RowIds(pending'[e]) = {}
      <3>1. CASE d = c \/ e = c
        BY <2>4, <3>1, EmptyRows
      <3>2. CASE d # c /\ e # c
        BY <2>4, <2>6, <3>2, DupParts
      <3>3. QED
        BY <3>1, <3>2
    <2>7. QED
      BY <2>2, <2>5, <2>6 DEF DupInv
  <1>4. QED
    BY <1>2, <1>3

(* Every other step leaves loan_events and the transactions' rows alone. *)
LEMMA OtherTaskSteps ==
    ASSUME NEW t \in Tasks, TaskStep(t), ~Insert(t), ~Commit(t), ~Rollback(t)
    PROVE  table' = table /\ pending' = pending
  BY DEF TaskStep, Fire, FireStopped, GetState, GetStateError, FetchOk, FetchError,
         Begin, Skip, Select, Wait, InsertError, Update, UpdateError, dbVars

LEMMA DupStep == DupInv /\ [Next]_vars => DupInv'
<1> SUFFICES ASSUME DupInv, [Next]_vars PROVE DupInv'
  OBVIOUS
<1>1. TypeInv'
  BY TypeStep DEF DupInv
<1>2. CASE Crash
  BY <1>1, <1>2, DupCrash
<1>3. ASSUME NEW t \in Tasks, TaskStep(t) PROVE DupInv'
  <2>1. CASE Insert(t)
    BY <1>1, <2>1, DupInsert
  <2>2. CASE Commit(t)
    BY <1>1, <2>2, DupCommit
  <2>3. CASE Rollback(t)
    <3>1. PICK c \in Clients : pending' = [pending EXCEPT ![c] = <<>>]
      BY <2>3 DEF Rollback
    <3>2. table' = table
      BY <2>3 DEF Rollback
    <3>3. QED
      BY <1>1, <3>1, <3>2, DupClear
  <2>4. CASE ~Insert(t) /\ ~Commit(t) /\ ~Rollback(t)
    BY <1>1, <1>3, <2>4, OtherTaskSteps, DupUnchanged
  <2>5. QED
    BY <2>1, <2>2, <2>3, <2>4
<1>4. CASE Environment \/ Start \/ Stop \/ UNCHANGED vars
  <2>1. table' = table /\ pending' = pending
    BY <1>4 DEF Environment, Emit, CloseLedger, Prune, Start, Stop, vars, dbVars
  <2>2. QED
    BY <1>1, <2>1, DupUnchanged
<1>5. QED
  BY <1>2, <1>3, <1>4 DEF Next


(* Every reachable state of the indexer is well typed. *)
THEOREM TypeCorrect == Spec => []TypeOK
<1>1. Spec => []TypeInv
  BY TypeInit, TypeStep, PTL DEF Spec
<1>2. QED
  BY <1>1, PTL DEF TypeInv

(* The initial database holds no row and no transaction. *)
LEMMA DupInit == Init => DupInv
<1> SUFFICES ASSUME Init PROVE DupInv
  OBVIOUS
<1>1. TypeInv
  BY TypeInit
<1>2. table = <<>> /\ pending = [c \in Clients |-> <<>>]
  BY DEF Init
<1>3. RowIds(<<>>) = {} /\ DistinctEvents(<<>>)
  BY DEF RowIds, DistinctEvents
<1>4. QED
  BY <1>1, <1>2, <1>3 DEF DupInv, Committed

(* The unique index on event_id keeps loan_events free of duplicates in   *)
(* every behaviour: whichever pooled connection BEGIN, the SELECT/INSERT  *)
(* pairs, COMMIT and ROLLBACK land on, across retries, crashes and        *)
(* overlapping poll chains.                                                *)
THEOREM NoDuplicates == Spec => []NoDuplicateEvents
<1>1. Init => DupInv
  BY DupInit
<1>2. DupInv => NoDuplicateEvents
  BY DEF DupInv, DistinctEvents, NoDuplicateEvents
<1>3. QED
  BY <1>1, <1>2, DupStep, PTL DEF Spec

-----------------------------------------------------------------------------
(* Only loan events are stored.                                            *)

(* Every committed row, every uncommitted row of a connection, and the     *)
(* event an INSERT is about to write is a loan event of the chain; a cycle *)
(* past its RPC call walks the chain from its first index on.              *)
StoredLoans ==
    /\ \A i \in 1 .. Len(table) : LoanEventOnChain(table[i].event)
    /\ \A c \in Clients : \A i \in 1 .. Len(pending[c]) :
          LoanEventOnChain(pending[c][i].event)
CursorLoans ==
    /\ \A t \in Tasks : pc[t] \in {"begin", "select", "insert"} => k[t] >= 1
    /\ \A t \in Tasks : pc[t] = "insert" => LoanEventOnChain(k[t])
LoanRows == StoredLoans /\ CursorLoans

(* Emit appends to the chain: a loan event on it stays one. *)
LEMMA ChainAppendLoan ==
    ASSUME NEW s \in Seq(Event), NEW x, NEW e, e \in 1 .. Len(s), s[e].loan
    PROVE  e \in 1 .. Len(Append(s, x)) /\ Append(s, x)[e].loan
  OBVIOUS

LEMMA StoredKeep ==
    ASSUME StoredLoans, chain' = chain, table' = table, pending' = pending
    PROVE  StoredLoans'
  BY DEF StoredLoans, LoanEventOnChain

LEMMA StoredEmit ==
    ASSUME TypeInv, StoredLoans, NEW x, chain' = Append(chain, x),
           table' = table, pending' = pending
    PROVE  StoredLoans'
<1>1. chain \in Seq(Event) /\ table \in Seq(Row) /\ pending \in [Clients -> Seq(Row)]
  BY DEF TypeInv, TypeOK
<1>2. \A e : LoanEventOnChain(e) => LoanEventOnChain(e)'
  BY <1>1, ChainAppendLoan DEF LoanEventOnChain
<1>3. QED
  BY <1>2 DEF StoredLoans

(* ROLLBACK, a COMMIT of nothing, and a crash empty transactions. *)
LEMMA StoredClear ==
    ASSUME TypeInv, StoredLoans, chain' = chain, table' = table,
           NEW c \in Clients, pending' = [pending EXCEPT ![c] = <<>>]
    PROVE  StoredLoans'
<1>1. pending \in [Clients -> Seq(Row)]
  BY DEF TypeInv, TypeOK
<1>2. \A d \in Clients : pending'[d] = IF d = c THEN <<>> ELSE pending[d]
  BY <1>1
<1>3. QED
  BY <1>2 DEF StoredLoans, LoanEventOnChain

LEMMA StoredCrash ==
    ASSUME StoredLoans, chain' = chain, table' = table,
           pending' = [d \in Clients |-> <<>>]
    PROVE  StoredLoans'
  BY DEF StoredLoans, LoanEventOnChain

(* An INSERT of a loan event, into a transaction or autocommitted. *)
LEMMA StoredInsert ==
    ASSUME TypeInv, StoredLoans, chain' = chain, NEW c \in Clients, NEW row \in Row,
           LoanEventOnChain(row.event),
           \/ pending' = [pending EXCEPT ![c] = Append(pending[c], row)] /\ table' = table
           \/ table' = Append(table, row) /\ pending' = pending
    PROVE  StoredLoans'
<1>1. pending \in [Clients -> Seq(Row)] /\ table \in Seq(Row)
  BY DEF TypeInv, TypeOK
<1>2. \A e : LoanEventOnChain(e)' = LoanEventOnChain(e)
  BY DEF LoanEventOnChain
<1>3. CASE pending' = [pending EXCEPT ![c] = Append(pending[c], row)] /\ table' = table
  <2>1. \A d \in Clients : pending'[d] = IF d = c THEN Append(pending[c], row) ELSE pending[d]
    BY <1>1, <1>3
  <2>2. \A i \in 1 .. Len(Append(pending[c], row)) :
          LoanEventOnChain(Append(pending[c], row)[i].event)
    BY <1>1 DEF StoredLoans
  <2>3. QED
    BY <1>2, <1>3, <2>1, <2>2 DEF StoredLoans
<1>4. CASE table' = Append(table, row) /\ pending' = pending
  <2>1. \A i \in 1 .. Len(Append(table, row)) : LoanEventOnChain(Append(table, row)[i].event)
    BY <1>1 DEF StoredLoans
  <2>2. QED
    BY <1>2, <1>4, <2>1 DEF StoredLoans
<1>5. QED
  BY <1>3, <1>4

(* A COMMIT moves the rows of one transaction to the end of the table. *)
LEMMA StoredCommit ==
    ASSUME TypeInv, StoredLoans, chain' = chain, NEW c \in Clients,
           table' = table \o pending[c], pending' = [pending EXCEPT ![c] = <<>>]
    PROVE  StoredLoans'
<1>1. pending \in [Clients -> Seq(Row)] /\ table \in Seq(Row)
  BY DEF TypeInv, TypeOK
<1>2. \A e : LoanEventOnChain(e)' = LoanEventOnChain(e)
  BY DEF LoanEventOnChain
<1>3. \A i \in 1 .. Len(table \o pending[c]) : LoanEventOnChain((table \o pending[c])[i].event)
  <2>1. SUFFICES ASSUME NEW i \in 1 .. Len(table \o pending[c])
                 PROVE  LoanEventOnChain((table \o pending[c])[i].event)
    OBVIOUS
  <2>2. CASE i <= Len(table)
    BY <1>1, <2>2 DEF StoredLoans
  <2>3. CASE i > Len(table)
    <3>1. i - Len(table) \in 1 .. Len(pending[c])
          /\ (table \o pending[c])[i] = pending[c][i - Len(table)]
      BY <1>1, <2>3
    <3>2. QED
      BY <3>1 DEF StoredLoans
  <2>4. QED
    BY <2>2, <2>3
<1>4. \A d \in Clients : pending'[d] = IF d = c THEN <<>> ELSE pending[d]
  BY <1>1
<1>5. QED
  BY <1>2, <1>3, <1>4 DEF StoredLoans

(* A step of chain t that sets its label to v and its loop index to kv   *)
(* keeps CursorLoans when a label past BEGIN comes with an index from 1 on *)
(* and the label of the INSERT with a loan event.                          *)
LEMMA CursorStep ==
    ASSUME TypeInv, CursorLoans, chain' = chain, NEW t \in Tasks, NEW v, NEW kv,
           pc' = [pc EXCEPT ![t] = v], k' = [k EXCEPT ![t] = kv],
           v \in {"begin", "select", "insert"} => kv >= 1,
           v = "insert" => LoanEventOnChain(kv)
    PROVE  CursorLoans'
<1>1. pc \in [Tasks -> PCs] /\ k \in [Tasks -> Nat]
  BY DEF TypeInv, TypeOK
<1>2. \A e : LoanEventOnChain(e)' = LoanEventOnChain(e)
  BY DEF LoanEventOnChain
<1>3. ASSUME NEW u \in Tasks
      PROVE  /\ pc'[u] \in {"begin", "select", "insert"} => k'[u] >= 1
             /\ pc'[u] = "insert" => LoanEventOnChain(k'[u])
  <2>1. CASE u = t
    BY <1>1, <2>1
  <2>2. CASE u # t
    BY <1>1, <2>2 DEF CursorLoans
  <2>3. QED
    BY <2>1, <2>2
<1>4. QED
  BY <1>2, <1>3 DEF CursorLoans
(* The steps of chain t that move its label only, to one that is not    *)
(* past BEGIN, and leave the rows alone or empty one transaction.          *)
LEMMA LoanPlainTaskSteps ==
    ASSUME NEW t \in Tasks, TypeInv, LoanRows,
           \/ Fire(t) \/ FireStopped(t) \/ GetState(t) \/ GetStateError(t)
           \/ FetchError(t) \/ Update(t) \/ UpdateError(t) \/ InsertError(t)
           \/ Rollback(t)
    PROVE  LoanRows'
<1>1. k \in [Tasks -> Nat]
  BY DEF TypeInv, TypeOK
<1>2. /\ chain' = chain /\ table' = table /\ k' = [k EXCEPT ![t] = k[t]]
      /\ \E v \in {"getState", "idle", "getEvents", "timer", "rollback"} :
            pc' = [pc EXCEPT ![t] = v]
  BY <1>1 DEF Fire, FireStopped, GetState, GetStateError, FetchError, Update, UpdateError,
              InsertError, Rollback, ArmTimer, chainVars, dbVars
<1>3. CursorLoans'
  BY <1>2, CursorStep DEF LoanRows
<1>4. StoredLoans'
  <2>1. CASE Rollback(t)
    <3>1. PICK c \in Clients : pending' = [pending EXCEPT ![c] = <<>>]
      BY <2>1 DEF Rollback
    <3>2. QED
      BY <1>2, <3>1, StoredClear DEF LoanRows
  <2>2. CASE ~Rollback(t)
    <3>1. pending' = pending
      BY <2>2 DEF Fire, FireStopped, GetState, GetStateError, FetchError, Update,
                  UpdateError, InsertError, dbVars
    <3>2. QED
      BY <1>2, <3>1, StoredKeep DEF LoanRows
  <2>3. QED
    BY <2>1, <2>2
<1>5. QED
  BY <1>3, <1>4 DEF LoanRows

(* getEvents answered: the loop index starts at the first event returned. *)
LEMMA LoanFetchOk ==
    ASSUME NEW t \in Tasks, TypeInv, LoanRows, FetchOk(t)
    PROVE  LoanRows'
<1>1. PICK i \in 1 .. Len(chain) + 1 :
        /\ k' = [k EXCEPT ![t] = i]
        /\ \E v \in {"timer", "begin", "update"} : pc' = [pc EXCEPT ![t] = v]
  BY DEF FetchOk, ArmTimer
<1>2. chain' = chain /\ table' = table /\ pending' = pending
  BY DEF FetchOk, chainVars, dbVars
<1>3. PICK v \in {"timer", "begin", "update"} : pc' = [pc EXCEPT ![t] = v]
  BY <1>1
<1>4. /\ v \in {"begin", "select", "insert"} => i >= 1
      /\ v = "insert" => LoanEventOnChain(i)
  BY <1>3
<1>5. CursorLoans'
  BY <1>1, <1>2, <1>3, <1>4, CursorStep, Zenon DEF LoanRows
<1>6. StoredLoans'
  BY <1>2, StoredKeep DEF LoanRows
<1>7. QED
  BY <1>5, <1>6 DEF LoanRows

(* BEGIN, the skip of an event of no loan kind, and the wait on a lock. *)
LEMMA LoanLoopSteps ==
    ASSUME NEW t \in Tasks, TypeInv, LoanRows, Begin(t) \/ Skip(t) \/ Wait(t)
    PROVE  LoanRows'
<1>1. pc \in [Tasks -> PCs] /\ k \in [Tasks -> Nat]
  BY DEF TypeInv, TypeOK
<1>2. chain' = chain /\ table' = table /\ pending' = pending
  BY DEF Begin, Skip, Wait, chainVars, dbVars
<1> SUFFICES CursorLoans'
  BY <1>2, StoredKeep DEF LoanRows
<1>3. CASE Begin(t)
  <2>1. k[t] >= 1 /\ k' = [k EXCEPT ![t] = k[t]]
    BY <1>1, <1>3 DEF Begin, LoanRows, CursorLoans
  <2>2. PICK v \in {"select", "rollback"} : pc' = [pc EXCEPT ![t] = v]
    BY <1>3 DEF Begin
  <2>3. /\ v \in {"begin", "select", "insert"} => k[t] >= 1
        /\ v = "insert" => LoanEventOnChain(k[t])
    BY <2>1, <2>2
  <2>4. QED
    BY <1>2, <2>1, <2>2, <2>3, CursorStep, Zenon DEF LoanRows
<1>4. CASE Skip(t)
  <2>1. k[t] >= 1 /\ k' = [k EXCEPT ![t] = k[t] + 1] /\ pc' = [pc EXCEPT ![t] = "select"]
    BY <1>1, <1>4 DEF Skip, LoanRows, CursorLoans
  <2>2. /\ "select" \in {"begin", "select", "insert"} => k[t] + 1 >= 1
        /\ "select" = "insert" => LoanEventOnChain(k[t] + 1)
    BY <1>1, <2>1
  <2>3. QED
    BY <1>2, <2>1, <2>2, CursorStep, Zenon DEF LoanRows
<1>5. CASE Wait(t)
  <2>1. pc[t] = "insert" /\ k[t] >= 1 /\ LoanEventOnChain(k[t])
    BY <1>5 DEF Wait, LoanRows, CursorLoans
  <2>2. k' = [k EXCEPT ![t] = k[t]] /\ pc' = [pc EXCEPT ![t] = "insert"]
    BY <1>1, <1>5, <2>1 DEF Wait
  <2>3. /\ "insert" \in {"begin", "select", "insert"} => k[t] >= 1
        /\ "insert" = "insert" => LoanEventOnChain(k[t])
    BY <2>1
  <2>4. QED
    BY <1>2, <2>1, <2>2, <2>3, CursorStep, Zenon DEF LoanRows
<1>6. QED
  BY <1>3, <1>4, <1>5
(* The SELECT that finds no row sends the loop to the INSERT of the      *)
(* event it is at: a loan event within the batch, so on the chain.        *)
LEMMA LoanSelect ==
    ASSUME NEW t \in Tasks, TypeInv, LoanRows, Select(t)
    PROVE  LoanRows'
<1>1. pc \in [Tasks -> PCs] /\ k \in [Tasks -> Nat] /\ hi \in [Tasks -> Nat]
  BY DEF TypeInv, TypeOK
<1>2. chain' = chain /\ table' = table /\ pending' = pending
  BY DEF Select, chainVars, dbVars
<1> SUFFICES CursorLoans'
  BY <1>2, StoredKeep DEF LoanRows
<1>3. pc[t] = "select" /\ k[t] <= hi[t] /\ chain[k[t]].loan
  BY DEF Select
<1>4. k[t] >= 1 /\ hi[t] \in 1 .. Len(chain)
  BY <1>3 DEF LoanRows, CursorLoans, TypeInv, BatchInChain
<1>5. LoanEventOnChain(k[t])
  BY <1>1, <1>3, <1>4 DEF LoanEventOnChain
<1>6. \/ pc' = [pc EXCEPT ![t] = "rollback"] /\ k' = [k EXCEPT ![t] = k[t]]
      \/ pc' = [pc EXCEPT ![t] = "select"] /\ k' = [k EXCEPT ![t] = k[t] + 1]
      \/ pc' = [pc EXCEPT ![t] = "insert"] /\ k' = [k EXCEPT ![t] = k[t]]
  BY <1>1, <1>3 DEF Select
<1>7. /\ k[t] + 1 >= 1
      /\ "rollback" \notin {"begin", "select", "insert"}
      /\ "select" # "insert"
  BY <1>1, <1>4
<1>8. QED
  BY <1>2, <1>4, <1>5, <1>6, <1>7, CursorStep, Zenon DEF LoanRows

(* The INSERT writes the loan event the SELECT found missing. *)
LEMMA LoanInsert ==
    ASSUME NEW t \in Tasks, TypeInv, LoanRows, Insert(t)
    PROVE  LoanRows'
<1> DEFINE row == [event |-> k[t], by |-> t]
<1>1. k \in [Tasks -> Nat]
  BY DEF TypeInv, TypeOK
<1>2. pc[t] = "insert" /\ k[t] >= 1 /\ LoanEventOnChain(k[t])
  BY DEF Insert, LoanRows, CursorLoans
<1>3. row \in Row /\ row.event = k[t]
  BY <1>1, RowValue
<1>4. PICK c \in InsertConns(t) :
        \/ pending' = [pending EXCEPT ![c] = Append(pending[c], row)] /\ table' = table
        \/ table' = Append(table, row) /\ pending' = pending
  BY DEF Insert
<1>5. c \in Clients
  BY InsertConnsClients DEF TypeInv
<1>6. chain' = chain
  BY DEF Insert, chainVars
<1>7. StoredLoans'
  BY <1>2, <1>3, <1>4, <1>5, <1>6, StoredInsert DEF LoanRows
<1>8. pc' = [pc EXCEPT ![t] = "select"] /\ k' = [k EXCEPT ![t] = k[t] + 1]
  BY DEF Insert
<1>9. /\ "select" \in {"begin", "select", "insert"} => k[t] + 1 >= 1
      /\ "select" = "insert" => LoanEventOnChain(k[t] + 1)
  BY <1>1, <1>2
<1>10. CursorLoans'
  BY <1>6, <1>8, <1>9, CursorStep, Zenon DEF LoanRows
<1>11. QED
  BY <1>7, <1>10 DEF LoanRows

(* COMMIT moves a transaction's loan events to the table, or drops them. *)
LEMMA LoanCommit ==
    ASSUME NEW t \in Tasks, TypeInv, LoanRows, Commit(t)
    PROVE  LoanRows'
<1>1. k \in [Tasks -> Nat]
  BY DEF TypeInv, TypeOK
<1>2. PICK c \in Clients :
        /\ table' = IF open[c] /\ ~aborted[c] THEN table \o pending[c] ELSE table
        /\ pending' = [pending EXCEPT ![c] = <<>>]
  BY Zenon DEF Commit
<1>3. chain' = chain
  BY DEF Commit, chainVars
<1>4. StoredLoans'
  <2>1. CASE open[c] /\ ~aborted[c]
    BY <1>2, <1>3, <2>1, StoredCommit DEF LoanRows
  <2>2. CASE ~(open[c] /\ ~aborted[c])
    BY <1>2, <1>3, <2>2, StoredClear DEF LoanRows
  <2>3. QED
    BY <2>1, <2>2
<1>5. pc' = [pc EXCEPT ![t] = "update"] /\ k' = [k EXCEPT ![t] = k[t]]
  BY <1>1 DEF Commit
<1>6. "update" \notin {"begin", "select", "insert"} /\ "update" # "insert"
  OBVIOUS
<1>7. CursorLoans'
  BY <1>3, <1>5, <1>6, CursorStep, Zenon DEF LoanRows
<1>8. QED
  BY <1>4, <1>7 DEF LoanRows
LEMMA LoanTaskStep ==
    ASSUME NEW t \in Tasks, TypeInv, LoanRows, TaskStep(t)
    PROVE  LoanRows'
  BY LoanPlainTaskSteps, LoanFetchOk, LoanLoopSteps, LoanSelect, LoanInsert, LoanCommit
  DEF TaskStep

(* A step that moves no loop index and no label past BEGIN, on the same   *)
(* chain or on a longer one, keeps CursorLoans.                            *)
LEMMA CursorKeep ==
    ASSUME TypeInv, CursorLoans, pc' = pc, k' = k,
           chain' = chain \/ \E x : chain' = Append(chain, x)
    PROVE  CursorLoans'
<1>1. chain \in Seq(Event)
  BY DEF TypeInv, TypeOK
<1>2. \A e : LoanEventOnChain(e) => LoanEventOnChain(e)'
  BY <1>1, ChainAppendLoan DEF LoanEventOnChain
<1>3. QED
  BY <1>2 DEF CursorLoans

(* A step of the environment, of start(), stop() or a crash. *)
LEMMA LoanStep ==
    ASSUME TypeInv, LoanRows, [Next]_vars
    PROVE  LoanRows'
<1>1. CASE Emit
  <2>1. PICK x : chain' = Append(chain, x)
    BY <1>1 DEF Emit
  <2>2. table' = table /\ pending' = pending /\ pc' = pc /\ k' = k
    BY <1>1 DEF Emit, dbVars, taskVars
  <2>3. QED
    BY <2>1, <2>2, StoredEmit, CursorKeep DEF LoanRows
<1>2. CASE CloseLedger \/ Prune \/ UNCHANGED vars
  <2>1. chain' = chain /\ table' = table /\ pending' = pending /\ pc' = pc /\ k' = k
    BY <1>2 DEF CloseLedger, Prune, vars, chainVars, dbVars, taskVars
  <2>2. QED
    BY <2>1, StoredKeep, CursorKeep DEF LoanRows
<1>3. CASE Start \/ Stop
  <2>1. chain' = chain /\ table' = table /\ pending' = pending /\ k' = k
    BY <1>3 DEF Start, Stop, chainVars, dbVars
  <2>2. StoredLoans'
    BY <2>1, StoredKeep DEF LoanRows
  <2>3. k \in [Tasks -> Nat] /\ pollTimeout \in Tasks \cup {None}
    BY DEF TypeInv, TypeOK
  <2>4. CASE pc' = pc
    BY <2>1, <2>2, <2>4, CursorKeep DEF LoanRows
  <2>5. CASE pc' # pc
    <3>1. PICK u \in Tasks : \E v \in {"getState", "idle"} : pc' = [pc EXCEPT ![u] = v]
      BY <1>3, <2>3, <2>5 DEF Start, Stop
    <3>2. PICK v \in {"getState", "idle"} : pc' = [pc EXCEPT ![u] = v]
      BY <3>1
    <3>3. k' = [k EXCEPT ![u] = k[u]]
      BY <2>1, <2>3
    <3>4. v \notin {"begin", "select", "insert"} /\ v # "insert"
      BY <3>2
    <3>5. CursorLoans'
      BY <2>1, <3>2, <3>3, <3>4, CursorStep, Zenon DEF LoanRows
    <3>6. QED
      BY <2>2, <3>5 DEF LoanRows
  <2>6. QED
    BY <2>4, <2>5
<1>4. CASE Crash
  <2>1. chain' = chain /\ table' = table /\ pending' = [d \in Clients |-> <<>>]
        /\ pc' = [u \in Tasks |-> "idle"]
    BY <1>4 DEF Crash, chainVars
  <2>2. CursorLoans'
    BY <2>1 DEF CursorLoans
  <2>3. QED
    BY <2>1, <2>2, StoredCrash DEF LoanRows
<1>5. CASE \E t \in Tasks : TaskStep(t)
  BY <1>5, LoanTaskStep
<1>6. QED
  BY <1>1, <1>2, <1>3, <1>4, <1>5 DEF Next, Environment

LEMMA LoanInit == Init => LoanRows
<1> SUFFICES ASSUME Init PROVE LoanRows
  OBVIOUS
<1>1. table = <<>> /\ pending = [c \in Clients |-> <<>>] /\ pc = [t \in Tasks |-> "idle"]
  BY DEF Init
<1>2. QED
  BY <1>1 DEF LoanRows, StoredLoans, CursorLoans

(* Whatever connection each SELECT, INSERT and COMMIT lands on, however   *)
(* overlapping cycles, failures and crashes interleave, every row a step  *)
(* adds to loan_events is an event of the chain that processEvents kept,  *)
(* for every pool size, number of poll chains and batch size.              *)
THEOREM OnlyLoanEventsStored == Spec => StoresOnlyLoanEvents
<1>1. Spec => [](TypeInv /\ LoanRows)
  <2>1. Init => TypeInv /\ LoanRows
    BY TypeInit, LoanInit
  <2>2. TypeInv /\ LoanRows /\ [Next]_vars => (TypeInv /\ LoanRows)'
    BY TypeStep, LoanStep
  <2>3. QED
    BY <2>1, <2>2, PTL DEF Spec
<1>2. LoanRows' /\ [Next]_vars => [NewRowsAreLoanEvents]_vars
  <2> SUFFICES ASSUME LoanRows', [Next]_vars PROVE NewRowsAreLoanEvents
    OBVIOUS
  <2>1. CASE table' = table
    BY <2>1 DEF NewRowsAreLoanEvents
  <2>2. CASE table' # table
    <3>1. chain' = chain
      BY <2>2 DEF Next, Environment, Emit, CloseLedger, Prune, Start, Stop, Crash,
                        TaskStep, Fire, FireStopped, GetState, GetStateError, FetchOk,
                        FetchError, Begin, Skip, Select, Wait, Insert, InsertError,
                        Commit, Rollback, Update, UpdateError, vars, chainVars, dbVars
    <3>2. \A e : LoanEventOnChain(e)' = LoanEventOnChain(e)
      BY <3>1 DEF LoanEventOnChain
    <3>3. QED
      BY <3>2 DEF LoanRows, StoredLoans, NewRowsAreLoanEvents
  <2>3. QED
    BY <2>1, <2>2
<1>3. QED
  BY <1>1, <1>2, PTL DEF Spec, StoresOnlyLoanEvents
=============================================================================
