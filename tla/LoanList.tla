------------------------------ MODULE LoanList ------------------------------
(***************************************************************************)
(* The borrower loan list of the frontend: LoanDashboard and              *)
(* ActiveLoansTracker both hold loans, loading and error in React state   *)
(* and fill them with fetchActiveLoans(), an async call of                *)
(* GET /api/loans/borrower/:borrowerAddress.  The call runs when the       *)
(* borrowerAddress prop changes (useEffect) and when the user clicks       *)
(* Retry (on the error card) or, on the dashboard, Refresh (on the list).  *)
(*                                                                         *)
(* Each call sets loading and clears error synchronously, then awaits the  *)
(* response; the code that follows the await (setLoans or setError, then  *)
(* setLoading(false) in finally) runs in one task and React batches it:   *)
(* one step.  Nothing cancels or ignores an earlier call, so calls may be  *)
(* in flight together and answer in any order.                             *)
(*                                                                         *)
(* The tracker also keeps stats, computed by calculateStats when a         *)
(* response arrives, and a filter tab; the Overdue tab and the label of    *)
(* each loan card are computed at render from the time of the render.      *)
(* React renders only when state or props change: time passing alone      *)
(* draws nothing, so the model keeps the time of the last render apart     *)
(* from the clock.  The API's default status filter returns active loans  *)
(* only, so the status of every loan in the list is "active"; a loan is    *)
(* its nextPaymentDeadline, a time in ticks of a clock with DayLen ticks a *)
(* day.                                                                    *)
(***************************************************************************)
EXTENDS Integers, Sequences, FiniteSets

CONSTANTS
    Borrowers,    \* addresses the parent may pass as borrowerAddress
    HasRefresh,   \* TRUE: LoanDashboard (Refresh button); FALSE: the tracker
    MaxFetches,   \* bound: calls of fetchActiveLoans in a behaviour
    MaxLoans,     \* bound: loans in one response
    MaxTime,      \* bound: the clock, and the latest deadline
    DayLen,       \* clock ticks in a day (1000 * 60 * 60 * 24 ms)
    None

ASSUME BorrowersAssumption == Borrowers # {} /\ None \notin Borrowers
ASSUME RefreshAssumption == HasRefresh \in BOOLEAN
ASSUME MaxFetchesAssumption == MaxFetches \in Nat \ {0}
ASSUME TimeAssumption ==
    MaxLoans \in Nat /\ MaxTime \in Nat /\ DayLen \in Nat \ {0}

VARIABLES
    address,      \* the borrowerAddress prop
    loans,        \* the loans state: whose list it is and whether it is empty
    loading,
    error,        \* error !== null
    inFlight,     \* calls awaiting their response
    fetches,      \* calls made so far (names the next one)
    lastOutcome,  \* history: how the last call to answer ended
    now,          \* the browser's clock (new Date(), Date.now())
    stats,        \* the tracker's stats: overdueCount
    filter,       \* the tracker's tab: "all", "active" or "overdue"
    drawnAt       \* the clock at the last render (Date.now() in render)

vars == <<address, loans, loading, error, inFlight, fetches, lastOutcome,
          now, stats, filter, drawnAt>>
viewVars == <<now, stats, filter>>

Deadlines == 0 .. MaxTime
(* The loans of one response, as their deadlines. *)
Responses == UNION {[1 .. n -> Deadlines] : n \in 0 .. MaxLoans}
(* A list from the API: the borrower it was fetched for and its loans;   *)
(* the initial useState([]) belongs to nobody.                             *)
LoanLists == [owner : Borrowers \cup {None}, items : Seq(Deadlines)]
Call == [id : Nat, borrower : Borrowers]
Filters == {"all", "active", "overdue"}

(* new Date(l.nextPaymentDeadline) < now *)
Overdue(d) == d < now

(* calculateStats(loansList), run when the response arrives: overdueCount *)
(* is overdueLoans.length, the number of positions of the (active) list    *)
(* whose deadline is before that moment.                                   *)
CalculateStats(items) ==
    [overdueCount |-> Cardinality({i \in 1 .. Len(items) : Overdue(items[i])})]

(* new Date(l.nextPaymentDeadline) < now, with now the time of the render *)
OverdueWhenDrawn(d) == d < drawnAt

(* getFilteredLoans() at render: the Overdue tab filters against the      *)
(* time of the render; the other two tabs show every (active) loan.        *)
FilteredLoans ==
    IF filter = "overdue" THEN SelectSeq(loans.items, OverdueWhenDrawn)
    ELSE loans.items

(* getDaysUntilDeadline at render: Math.ceil((deadline - Date.now()) / day). *)
DaysUntil(d) == -((drawnAt - d) \div DayLen)

(* A state change re-renders the component at the current time. *)
Render == drawnAt' = now

(* The card's badge, "days overdue" text and Pay Now (Overdue) button:    *)
(* isOverdue = daysUntil < 0.                                              *)
IsOverdueCard(d) == DaysUntil(d) < 0

-----------------------------------------------------------------------------
(* Mutant: fetchActiveLoans without setError(null). *)
StartFetchKeepsError(b) ==
    /\ fetches < MaxFetches
    /\ loading' = TRUE
    /\ error' = error
    /\ inFlight' = inFlight \cup {[id |-> fetches + 1, borrower |-> b]}
    /\ fetches' = fetches + 1
    /\ Render

(* fetchActiveLoans() up to its first await: setLoading(true),            *)
(* setError(null), and the request for the address of this render.        *)
StartFetch(b) ==
    /\ fetches < MaxFetches
    /\ loading' = TRUE
    /\ error' = FALSE
    /\ inFlight' = inFlight \cup {[id |-> fetches + 1, borrower |-> b]}
    /\ fetches' = fetches + 1
    /\ Render

(* The parent renders with another borrowerAddress; the effect that      *)
(* depends on it then calls fetchActiveLoans.                              *)
ChangeAddress ==
    /\ \E b \in Borrowers \ {address} :
          /\ address' = b
          /\ StartFetch(b)
    /\ UNCHANGED <<loans, lastOutcome, viewVars>>

(* The Retry button of the error card (rendered when !loading && error). *)
Retry ==
    /\ ~loading /\ error
    /\ StartFetch(address)
    /\ UNCHANGED <<address, loans, lastOutcome, viewVars>>

(* Mutant: the Refresh button also drawn while loading. *)
RefreshWhileLoading ==
    /\ HasRefresh
    /\ ~error /\ loans.items # <<>>
    /\ StartFetch(address)
    /\ UNCHANGED <<address, loans, lastOutcome, viewVars>>

(* The Refresh button of the dashboard's list (rendered when the list is  *)
(* shown and not empty).                                                   *)
Refresh ==
    /\ HasRefresh
    /\ ~loading /\ ~error /\ loans.items # <<>>
    /\ StartFetch(address)
    /\ UNCHANGED <<address, loans, lastOutcome, viewVars>>

(* Mutant: setLoans(data.data.loans) without the `|| []` fallback, for a *)
(* body without a loans field: the state becomes undefined.              *)
RespondOkNoFallback ==
    /\ \E r \in inFlight, items \in Responses \cup {None} :
          /\ inFlight' = inFlight \ {r}
          /\ loans' = [owner |-> r.borrower, items |-> items]
          /\ stats' = IF items = None THEN stats ELSE CalculateStats(items)
    /\ loading' = FALSE
    /\ lastOutcome' = "ok"
    /\ Render
    /\ UNCHANGED <<address, error, fetches, now, filter>>

(* The response is ok: setLoans(data.data.loans || []) and, in the        *)
(* tracker, calculateStats(fetchedLoans); then setLoading(false) in        *)
(* finally.                                                                *)
RespondOk ==
    /\ \E r \in inFlight, items \in Responses :
          /\ inFlight' = inFlight \ {r}
          /\ loans' = [owner |-> r.borrower, items |-> items]
          /\ stats' = CalculateStats(items)
    /\ loading' = FALSE
    /\ lastOutcome' = "ok"
    /\ Render
    /\ UNCHANGED <<address, error, fetches, now, filter>>

(* Mutant: setLoading(false) at the end of try instead of in finally. *)
RespondErrorKeepsLoading ==
    /\ \E r \in inFlight : inFlight' = inFlight \ {r}
    /\ error' = TRUE
    /\ loading' = loading
    /\ lastOutcome' = "error"
    /\ Render
    /\ UNCHANGED <<address, loans, fetches, viewVars>>

(* !response.ok or a network error: setError(...), then setLoading(false). *)
RespondError ==
    /\ \E r \in inFlight : inFlight' = inFlight \ {r}
    /\ error' = TRUE
    /\ loading' = FALSE
    /\ lastOutcome' = "error"
    /\ Render
    /\ UNCHANGED <<address, loans, fetches, viewVars>>

(* A click on another tab of the tracker's list (rendered once loaded).  *)
SetFilter ==
    /\ ~HasRefresh
    /\ ~loading /\ ~error
    /\ \E f \in Filters \ {filter} : filter' = f
    /\ Render
    /\ UNCHANGED <<address, loans, loading, error, inFlight, fetches,
                   lastOutcome, now, stats>>

(* Time passes.  Nothing is drawn: the screen keeps the render of         *)
(* drawnAt until the next state change.                                    *)
Tick ==
    /\ now < MaxTime
    /\ now' = now + 1
    /\ UNCHANGED <<address, loans, loading, error, inFlight, fetches,
                   lastOutcome, stats, filter, drawnAt>>

(* Mounted with some borrowerAddress: the first render has loading true   *)
(* and the mount effect has sent the first call.                           *)
Init ==
    /\ address \in Borrowers
    /\ loans = [owner |-> None, items |-> <<>>]
    /\ loading = TRUE
    /\ error = FALSE
    /\ inFlight = {[id |-> 1, borrower |-> address]}
    /\ fetches = 1
    /\ lastOutcome = "none"
    /\ now = 0
    /\ stats = [overdueCount |-> 0]
    /\ filter = "active"
    /\ drawnAt = 0

Next ==
    \/ ChangeAddress \/ Retry \/ Refresh
    \/ RespondOk \/ RespondError
    \/ SetFilter \/ Tick

(* The browser delivers every response (or a network error); the user and *)
(* the parent are not forced to act.                                       *)
Fairness == WF_vars(RespondOk \/ RespondError)

Spec == Init /\ [][Next]_vars /\ Fairness

-----------------------------------------------------------------------------
TypeOK ==
    /\ address \in Borrowers
    /\ loans \in LoanLists
    /\ loading \in BOOLEAN
    /\ error \in BOOLEAN
    /\ inFlight \subseteq Call
    /\ fetches \in 0 .. MaxFetches
    /\ lastOutcome \in {"none", "ok", "error"}
    /\ now \in 0 .. MaxTime
    /\ stats \in [overdueCount : 0 .. MaxLoans]
    /\ filter \in Filters
    /\ drawnAt \in 0 .. MaxTime

(* When the component shows a loan list (not loading, no error), it is   *)
(* the list of the borrower it was rendered for.                           *)
ShowsCurrentBorrower ==
    (~loading /\ ~error /\ loans.owner # None) => loans.owner = address

(* Once nothing is loading, the error card is shown exactly when the last *)
(* call to answer failed: a success clears an older failure.              *)
ErrorMatchesLastResponse ==
    ~loading => (error <=> lastOutcome = "error")

(* The spinner does not stay forever: every call settles and loading     *)
(* goes back to false.                                                     *)
LoadingSettles == loading ~> ~loading

(* The Overdue tab of the tracker, as last drawn, agrees with itself: its *)
(* title counts the loans it lists (stats.overdueCount against             *)
(* getFilteredLoans()), and each card it lists is marked overdue          *)
(* (isOverdue from getDaysUntilDeadline).                                  *)
OverdueTabConsistent ==
    (~HasRefresh /\ ~loading /\ ~error /\ filter = "overdue") =>
        /\ stats.overdueCount = Len(FilteredLoans)
        /\ \A i \in 1 .. Len(FilteredLoans) : IsOverdueCard(FilteredLoans[i])

-----------------------------------------------------------------------------
(* Refinement.  The render branches: the spinner while loading, else the *)
(* error card when error is set, else the list (or its empty card).        *)
Screen == IF loading THEN "spinner" ELSE IF error THEN "error" ELSE "list"
View == INSTANCE FetchScreen WITH screen <- Screen

(* The component keeps the promise of FetchScreen: from the spinner to    *)
(* one outcome, and from an outcome to another only through the spinner   *)
(* of a Retry or Refresh.  Overlapping calls break it: the first answer    *)
(* ends the spinner and a later one replaces the list with the error card. *)
ScreenRefined == View!Spec

=============================================================================
