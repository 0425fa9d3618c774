---------------------------- MODULE IndexerReads ----------------------------
(***************************************************************************)
(* The read API of src/unnamed/part_004 beside the indexer.  Its handlers  *)
(* read loan_events through the same query() (pool.query) as storeEvents, *)
(* so a statement of theirs may land on a pooled connection that the       *)
(* indexer left inside a transaction: it then sees that transaction's     *)
(* uncommitted rows, or fails if the transaction is aborted.               *)
(*                                                                         *)
(* The WHERE, ORDER BY and LIMIT of each handler select a part of the     *)
(* rows and do not change what is compared here; a read returns every     *)
(* row its connection sees.                                                *)
(***************************************************************************)
EXTENDS Indexer

CONSTANTS Readers   \* requests of the read API served concurrently

VARIABLES
    rpc,      \* where each request is: "idle" or, in getBorrowerEvents, "count"
    result,   \* rows returned by the last single-statement read
    page,     \* rows of the getBorrowerEvents page, before its count
    resp      \* the last getBorrowerEvents response: page size and total

readVars == <<rpc, result, page, resp>>
allVars == <<vars, readVars>>

(* The rows a SELECT on connection c returns: the committed rows, then    *)
(* those of the connection's own open transaction.                         *)
VisibleRows(c) == table \o pending[c]

-----------------------------------------------------------------------------
(* A handler's single SELECT through query(): it returns what its         *)
(* connection sees, or throws on an aborted transaction and the handler    *)
(* answers 500.                                                            *)
SelectRows(r) ==
    /\ rpc[r] = "idle"
    /\ \E c \in Clients :
          \/ /\ ~aborted[c]
             /\ result' = [result EXCEPT ![r] = VisibleRows(c)]
          \/ /\ aborted[c]
             /\ UNCHANGED result
    /\ UNCHANGED <<vars, rpc, page, resp>>

(* getLoanEvents and getRecentEvents. *)
ReadEvents(r) == SelectRows(r)

(* getBorrowerLoans and getLoanDetails: one SELECT of the borrower's or   *)
(* the loan's rows, which the handler then folds in memory into principal, *)
(* interest, repaid amount and status (404 when a loan has no row).        *)
ReadLoans(r) == SelectRows(r)

(* getBorrowerEvents: the page (SELECT ... LIMIT $2 OFFSET $3) ...         *)
BorrowerEventsPage(r) ==
    /\ rpc[r] = "idle"
    /\ \E c \in Clients :
          \/ /\ ~aborted[c]
             /\ page' = [page EXCEPT ![r] = Len(VisibleRows(c))]
             /\ rpc' = [rpc EXCEPT ![r] = "count"]
          \/ /\ aborted[c]
             /\ UNCHANGED <<page, rpc>>
    /\ UNCHANGED <<vars, result, resp>>

(* ... then, in a second statement, SELECT COUNT for pagination.total.    *)
BorrowerEventsCount(r) ==
    /\ rpc[r] = "count"
    /\ \E c \in Clients :
          \/ /\ ~aborted[c]
             /\ resp' = [resp EXCEPT ![r] =
                           [page |-> page[r], total |-> Len(VisibleRows(c))]]
          \/ /\ aborted[c]
             /\ UNCHANGED resp
    /\ rpc' = [rpc EXCEPT ![r] = "idle"]
    /\ UNCHANGED <<vars, result, page>>

ReaderStep(r) ==
    \/ ReadEvents(r) \/ ReadLoans(r)
    \/ BorrowerEventsPage(r) \/ BorrowerEventsCount(r)

-----------------------------------------------------------------------------
InitR ==
    /\ Init
    /\ rpc = [r \in Readers |-> "idle"]
    /\ result = [r \in Readers |-> <<>>]
    /\ page = [r \in Readers |-> 0]
    /\ resp = [r \in Readers |-> None]

(* The handlers run in the indexer's process: SIGTERM, SIGINT or a crash *)
(* ends the requests in flight as well.                                    *)
CrashR ==
    /\ Crash
    /\ rpc' = [r \in Readers |-> "idle"]
    /\ UNCHANGED <<result, page, resp>>

NextR ==
    \/ (Environment \/ Start \/ Stop \/ \E t \in Tasks : TaskStep(t))
          /\ UNCHANGED readVars
    \/ CrashR
    \/ \E r \in Readers : ReaderStep(r)

SpecR == InitR /\ [][NextR]_allVars /\ Fairness

-----------------------------------------------------------------------------
TypeOKR ==
    /\ TypeOK
    /\ rpc \in [Readers -> {"idle", "count"}]
    /\ result \in [Readers -> Seq(Row)]
    /\ page \in [Readers -> Nat]
    /\ resp \in [Readers -> [page : Nat, total : Nat] \cup {None}]

(* A read (events or loans) lists every event at most once, even when it runs inside a      *)
(* transaction of the indexer that has inserted rows the table does not   *)
(* yet hold: the uncommitted rows never repeat a committed one.            *)
ReadsDistinct ==
    \A r \in Readers :
        \A i, j \in 1 .. Len(result[r]) :
            i # j => result[r][i].event # result[r][j].event

(* getBorrowerEvents answers pagination.total as the number of the        *)
(* borrower's events: never fewer than the page it returns with it.       *)
PageWithinTotal ==
    \A r \in Readers : resp[r] # None => resp[r].page <= resp[r].total
=============================================================================
