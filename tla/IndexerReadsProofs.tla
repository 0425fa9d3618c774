------------------------- MODULE IndexerReadsProofs -------------------------
(***************************************************************************)
(* Proofs about the read API beside the indexer, for every pool size and  *)
(* every number of concurrent requests.                                    *)
(***************************************************************************)
EXTENDS IndexerReads, IndexerProofs

(* DupInv of the indexer, and every result a request has returned lists   *)
(* each event once.                                                        *)
ReadInv ==
    /\ DupInv
    /\ result \in [Readers -> Seq(Row)]
    /\ \A r \in Readers : DistinctEvents(result[r])

LEMMA ReadInit == InitR => ReadInv
<1> SUFFICES ASSUME InitR PROVE ReadInv
  OBVIOUS
<1>1. DupInv
  BY DupInit DEF InitR
<1>2. result = [r \in Readers |-> <<>>]
  BY DEF InitR
<1>3. <<>> \in Seq(Row) /\ DistinctEvents(<<>>)
  BY DEF DistinctEvents
<1>4. QED
  BY <1>1, <1>2, <1>3 DEF ReadInv

(* What a statement on a connection sees, committed rows then the rows of *)
(* its own transaction, never repeats an event.                            *)
LEMMA VisibleDistinct ==
    ASSUME DupInv, NEW c \in Clients
    PROVE  /\ VisibleRows(c) \in Seq(Row)
           /\ DistinctEvents(VisibleRows(c))
<1>1. table \in Seq(Row) /\ pending[c] \in Seq(Row)
  BY DEF DupInv, TypeInv, TypeOK
<1>2. DistinctEvents(table) /\ DistinctEvents(pending[c])
  BY DEF DupInv
<1>3. RowIds(table) \cap RowIds(pending[c]) = {}
  BY DEF DupInv, Committed
<1>4. DistinctEvents(table \o pending[c])
  BY <1>1, <1>2, <1>3, DistinctConcat
<1>5. QED
  BY <1>1, <1>4 DEF VisibleRows

(* A request's step changes no state of the indexer or the database. *)
LEMMA ReaderKeepsVars ==
    ASSUME NEW r \in Readers, ReaderStep(r)
    PROVE  UNCHANGED vars
  BY DEF ReaderStep, ReadEvents, ReadLoans, SelectRows, BorrowerEventsPage, BorrowerEventsCount

LEMMA ReadStep == ReadInv /\ [NextR]_allVars => ReadInv'
<1> SUFFICES ASSUME ReadInv, [NextR]_allVars PROVE ReadInv'
  OBVIOUS
<1>1. DupInv
  BY DEF ReadInv
<1>2. CASE (Environment \/ Start \/ Stop \/ \E t \in Tasks : TaskStep(t))
             /\ UNCHANGED readVars
  <2>1. DupInv'
    BY <1>1, <1>2, DupStep DEF Next
  <2>2. result' = result
    BY <1>2 DEF readVars
  <2>3. QED
    BY <2>1, <2>2 DEF ReadInv
<1>3. CASE CrashR
  <2>1. DupInv'
    BY <1>1, <1>3, DupStep DEF CrashR, Next
  <2>2. result' = result
    BY <1>3 DEF CrashR
  <2>3. QED
    BY <2>1, <2>2 DEF ReadInv
<1>4. ASSUME NEW r \in Readers, ReaderStep(r) PROVE ReadInv'
  <2>1. DupInv'
    BY <1>1, <1>4, ReaderKeepsVars, DupStep
  <2>2. CASE SelectRows(r)
    <3>1. PICK c \in Clients :
              \/ result' = [result EXCEPT ![r] = VisibleRows(c)]
              \/ result' = result
      BY <2>2 DEF SelectRows
    <3>2. VisibleRows(c) \in Seq(Row) /\ DistinctEvents(VisibleRows(c))
      BY <1>1, VisibleDistinct
    <3>3. CASE result' = [result EXCEPT ![r] = VisibleRows(c)]
      <4>1. result' \in [Readers -> Seq(Row)]
        BY <3>2, <3>3 DEF ReadInv
      <4>2. ASSUME NEW q \in Readers PROVE DistinctEvents(result'[q])
        <5>1. CASE q = r
          BY <3>2, <3>3, <5>1 DEF ReadInv
        <5>2. CASE q # r
          BY <3>3, <5>2 DEF ReadInv
        <5>3. QED
          BY <5>1, <5>2
      <4>3. QED
        BY <2>1, <4>1, <4>2 DEF ReadInv
    <3>4. CASE result' = result
      BY <2>1, <3>4 DEF ReadInv
    <3>5. QED
      BY <3>1, <3>3, <3>4
  <2>3. CASE BorrowerEventsPage(r) \/ BorrowerEventsCount(r)
    <3>1. result' = result
      BY <2>3 DEF BorrowerEventsPage, BorrowerEventsCount
    <3>2. QED
      BY <2>1, <3>1 DEF ReadInv
  <2>4. QED
    BY <1>4, <2>2, <2>3 DEF ReaderStep, ReadEvents, ReadLoans
<1>5. CASE UNCHANGED allVars
  <2>1. DupInv'
    BY <1>1, <1>5, DupStep DEF allVars
  <2>2. result' = result
    BY <1>5 DEF allVars, readVars
  <2>3. QED
    BY <2>1, <2>2 DEF ReadInv
<1>6. QED
  BY <1>2, <1>3, <1>4, <1>5 DEF NextR

(* Every list of rows the read API reads, for getLoanEvents,              *)
(* getRecentEvents and the loan controller, names each event once,        *)
(* whichever connection the statement landed on and whatever transaction  *)
(* the indexer had left open there, for every pool size and number of     *)
(* requests.                                                               *)
THEOREM ReadsNeverDuplicate == SpecR => []ReadsDistinct
<1>1. ReadInv => ReadsDistinct
  BY DEF ReadInv, DistinctEvents, ReadsDistinct
<1>2. QED
  BY ReadInit, ReadStep, <1>1, PTL DEF SpecR
-----------------------------------------------------------------------------
(* Well-typedness of the read API's state.                                 *)

ReaderTypes ==
    /\ rpc \in [Readers -> {"idle", "count"}]
    /\ page \in [Readers -> Nat]
    /\ resp \in [Readers -> [page : Nat, total : Nat] \cup {None}]

LEMMA ReaderTypesInit == InitR => ReaderTypes
  BY DEF InitR, ReaderTypes

(* The count a statement on any connection returns is a natural number. *)
LEMMA VisibleLen ==
    ASSUME DupInv, NEW c \in Clients
    PROVE  Len(VisibleRows(c)) \in Nat
  BY VisibleDistinct

LEMMA PageStep ==
    ASSUME ReadInv, ReaderTypes, NEW r \in Readers, BorrowerEventsPage(r)
    PROVE  ReaderTypes'
<1>1. PICK c \in Clients :
        \/ page' = [page EXCEPT ![r] = Len(VisibleRows(c))] /\ rpc' = [rpc EXCEPT ![r] = "count"]
        \/ UNCHANGED <<page, rpc>>
  BY DEF BorrowerEventsPage
<1>2. Len(VisibleRows(c)) \in Nat
  BY VisibleLen DEF ReadInv
<1>3. resp' = resp
  BY DEF BorrowerEventsPage
<1>4. QED
  BY <1>1, <1>2, <1>3 DEF ReaderTypes

LEMMA CountStep ==
    ASSUME ReadInv, ReaderTypes, NEW r \in Readers, BorrowerEventsCount(r)
    PROVE  ReaderTypes'
<1>1. PICK c \in Clients :
        \/ resp' = [resp EXCEPT ![r] = [page |-> page[r], total |-> Len(VisibleRows(c))]]
        \/ resp' = resp
  BY DEF BorrowerEventsCount
<1>2. Len(VisibleRows(c)) \in Nat /\ page[r] \in Nat
  BY VisibleLen DEF ReadInv, ReaderTypes
<1>3. rpc' = [rpc EXCEPT ![r] = "idle"] /\ page' = page
  BY DEF BorrowerEventsCount
<1>4. QED
  BY <1>1, <1>2, <1>3 DEF ReaderTypes

LEMMA ReaderTypesStep ==
    ASSUME ReadInv, ReaderTypes, [NextR]_allVars
    PROVE  ReaderTypes'
<1>1. CASE (Environment \/ Start \/ Stop \/ \E t \in Tasks : TaskStep(t))
             /\ UNCHANGED readVars
  BY <1>1 DEF readVars, ReaderTypes
<1>2. CASE CrashR
  BY <1>2 DEF CrashR, ReaderTypes
<1>3. ASSUME NEW r \in Readers, ReaderStep(r) PROVE ReaderTypes'
  <2>1. CASE SelectRows(r)
    BY <2>1 DEF SelectRows, ReaderTypes
  <2>2. CASE BorrowerEventsPage(r)
    BY <2>2, PageStep
  <2>3. CASE BorrowerEventsCount(r)
    BY <2>3, CountStep
  <2>4. QED
    BY <1>3, <2>1, <2>2, <2>3 DEF ReaderStep, ReadEvents, ReadLoans
<1>4. CASE UNCHANGED allVars
  BY <1>4 DEF allVars, readVars, ReaderTypes
<1>5. QED
  BY <1>1, <1>2, <1>3, <1>4 DEF NextR

(* Every reachable state of the indexer and its read API is well typed:   *)
(* the pool, the poll chains, and the rows, page sizes and totals the      *)
(* handlers answer with, for every pool size and number of requests.       *)
THEOREM TypeCorrectR == SpecR => []TypeOKR
<1>1. ReadInv /\ ReaderTypes /\ [NextR]_allVars => ReadInv' /\ ReaderTypes'
  BY ReadStep, ReaderTypesStep
<1>2. ReadInv /\ ReaderTypes => TypeOKR
  BY DEF ReadInv, DupInv, TypeInv, ReaderTypes, TypeOKR
<1>3. QED
  BY <1>1, <1>2, ReadInit, ReaderTypesInit, PTL DEF SpecR
=============================================================================
