---------------------------- MODULE LoanListProofs ----------------------------
(***************************************************************************)
(* Proofs about the loan list of LoanDashboard and ActiveLoansTracker,    *)
(* for every bound on calls, loans and time.                               *)
(***************************************************************************)
EXTENDS LoanList, FiniteSetTheorems, TLAPS

(* The spinner and the error card are never shown together: every call    *)
(* clears the error when it sets loading, and every answer ends loading.  *)
SpinnerHidesError == loading => ~error

(* With one borrowerAddress, a call is made only when none is pending:     *)
(* the mount call, and Retry and Refresh, whose buttons are rendered only  *)
(* once loading is false.  So at most one call is ever in flight, and one  *)
(* is in flight exactly while loading.                                     *)
OneCallAtATime ==
    /\ loading <=> inFlight # {}
    /\ \A r1, r2 \in inFlight : r1 = r2

ErrorInv ==
    /\ address \in Borrowers
    /\ loading \in BOOLEAN /\ error \in BOOLEAN
    /\ SpinnerHidesError
    /\ OneCallAtATime
    /\ ErrorMatchesLastResponse

LEMMA ErrorInit == Init => ErrorInv
<1> SUFFICES ASSUME Init PROVE ErrorInv
  OBVIOUS
<1>1. address \in Borrowers /\ loading = TRUE /\ error = FALSE /\ lastOutcome = "none"
  BY DEF Init
<1>2. inFlight = {[id |-> 1, borrower |-> address]}
  BY DEF Init
<1>3. QED
  BY <1>1, <1>2 DEF ErrorInv, SpinnerHidesError, OneCallAtATime, ErrorMatchesLastResponse

(* A call made while none is pending leaves exactly one in flight, with    *)
(* the spinner on and no error.                                            *)
LEMMA StartFetchStep ==
    ASSUME ErrorInv, ~loading, NEW b \in Borrowers, StartFetch(b),
           address' \in Borrowers, lastOutcome' = lastOutcome
    PROVE  ErrorInv'
<1>1. inFlight = {}
  BY DEF ErrorInv, OneCallAtATime
<1>2. inFlight' = {[id |-> fetches + 1, borrower |-> b]}
  BY <1>1 DEF StartFetch
<1>3. loading' = TRUE /\ error' = FALSE
  BY DEF StartFetch
<1>4. QED
  BY <1>2, <1>3 DEF ErrorInv, SpinnerHidesError, OneCallAtATime, ErrorMatchesLastResponse

(* The answer to the one pending call empties inFlight and ends loading;  *)
(* the error flag then says how it ended.                                  *)
LEMMA RespondStep ==
    ASSUME ErrorInv, NEW r \in inFlight, inFlight' = inFlight \ {r},
           loading' = FALSE, address' = address,
           \/ error' = error /\ lastOutcome' = "ok"
           \/ error' = TRUE /\ lastOutcome' = "error"
    PROVE  ErrorInv'
<1>1. loading /\ ~error
  BY DEF ErrorInv, OneCallAtATime, SpinnerHidesError
<1>2. inFlight' = {}
  BY DEF ErrorInv, OneCallAtATime
<1>3. CASE error' = error /\ lastOutcome' = "ok"
  BY <1>1, <1>2, <1>3 DEF ErrorInv, SpinnerHidesError, OneCallAtATime, ErrorMatchesLastResponse
<1>4. CASE error' = TRUE /\ lastOutcome' = "error"
  BY <1>2, <1>4 DEF ErrorInv, SpinnerHidesError, OneCallAtATime, ErrorMatchesLastResponse
<1>5. QED
  BY <1>3, <1>4

LEMMA ErrorStep ==
    ASSUME NEW b, Borrowers = {b}, ErrorInv, [Next]_vars
    PROVE  ErrorInv'
<1>1. CASE ChangeAddress
  <2>1. address = b
    BY DEF ErrorInv
  <2>2. Borrowers \ {address} = {}
    BY <2>1
  <2>3. QED
    BY <1>1, <2>2 DEF ChangeAddress
<1>2. CASE Retry
  BY <1>2, StartFetchStep DEF Retry, ErrorInv
<1>3. CASE Refresh
  BY <1>3, StartFetchStep DEF Refresh, ErrorInv
<1>4. CASE RespondOk
  <2>1. PICK r \in inFlight : inFlight' = inFlight \ {r}
    BY <1>4 DEF RespondOk
  <2>2. QED
    BY <1>4, <2>1, RespondStep DEF RespondOk
<1>5. CASE RespondError
  <2>1. PICK r \in inFlight : inFlight' = inFlight \ {r}
    BY <1>5 DEF RespondError
  <2>2. QED
    BY <1>5, <2>1, RespondStep DEF RespondError
<1>6. CASE SetFilter \/ Tick \/ UNCHANGED vars
  <2>1. UNCHANGED <<address, loading, error, inFlight, lastOutcome>>
    BY <1>6 DEF SetFilter, Tick, vars
  <2>2. QED
    BY <2>1 DEF ErrorInv, SpinnerHidesError, OneCallAtATime, ErrorMatchesLastResponse
<1>7. QED
  BY <1>1, <1>2, <1>3, <1>4, <1>5, <1>6 DEF Next

(* When the parent passes one borrowerAddress for the component's life,  *)
(* whatever the number of Retry and Refresh clicks and however the        *)
(* responses end, once loading is false the error card shows exactly when *)
(* the last response was a failure (fetchActiveLoans' setError(null) at   *)
(* the start, setError in catch, setLoading(false) in finally).  With two  *)
(* addresses an earlier call can answer last, and the property fails.     *)
THEOREM ErrorMatchesForOneBorrower ==
    ASSUME NEW b, Borrowers = {b}
    PROVE  Spec => []ErrorMatchesLastResponse
<1>1. ErrorInv /\ [Next]_vars => ErrorInv'
  BY ErrorStep
<1>2. ErrorInv => ErrorMatchesLastResponse
  BY DEF ErrorInv
<1>3. QED
  BY <1>1, <1>2, ErrorInit, PTL DEF Spec
-----------------------------------------------------------------------------
(* Type correctness, for every bound on calls, loans and time.             *)

(* A response body is a list of loans, and calculateStats counts at most  *)
(* as many overdue loans as the list holds.                                *)
LEMMA ResponseType ==
    ASSUME NEW items \in Responses
    PROVE  /\ items \in Seq(Deadlines)
           /\ CalculateStats(items) \in [overdueCount : 0 .. MaxLoans]
<1>1. PICK n \in 0 .. MaxLoans : items \in [1 .. n -> Deadlines]
  BY DEF Responses
<1>2. items \in Seq(Deadlines) /\ Len(items) = n
  BY <1>1, TimeAssumption
<1>3. DEFINE S == {i \in 1 .. Len(items) : Overdue(items[i])}
<1>4. IsFiniteSet(1 .. n) /\ Cardinality(1 .. n) = n
  BY <1>1, TimeAssumption, FS_Interval
<1>5. S \subseteq 1 .. n
  BY <1>2
<1>6. IsFiniteSet(S) /\ Cardinality(S) <= n
  BY <1>4, <1>5, FS_Subset
<1>7. Cardinality(S) \in 0 .. MaxLoans
  BY <1>1, <1>6, FS_CardinalityType, TimeAssumption
<1>8. QED
  BY <1>2, <1>7 DEF CalculateStats

LEMMA TypeInit == Init => TypeOK
<1> SUFFICES ASSUME Init PROVE TypeOK
  OBVIOUS
<1>1. loans \in LoanLists
  BY DEF Init, LoanLists
<1>2. inFlight \subseteq Call /\ fetches \in 0 .. MaxFetches
  BY MaxFetchesAssumption DEF Init, Call
<1>3. now \in 0 .. MaxTime /\ drawnAt \in 0 .. MaxTime
      /\ stats \in [overdueCount : 0 .. MaxLoans]
  BY TimeAssumption DEF Init
<1>4. QED
  BY <1>1, <1>2, <1>3 DEF Init, TypeOK, Filters

(* A call of fetchActiveLoans names the next call, for a borrower the     *)
(* parent may pass, within the bound on calls.                             *)
LEMMA StartFetchType ==
    ASSUME TypeOK, NEW b \in Borrowers, StartFetch(b)
    PROVE  /\ loading' \in BOOLEAN /\ error' \in BOOLEAN
           /\ inFlight' \subseteq Call /\ fetches' \in 0 .. MaxFetches
           /\ drawnAt' \in 0 .. MaxTime
<1>1. fetches \in Nat /\ fetches < MaxFetches /\ MaxFetches \in Nat
  BY MaxFetchesAssumption DEF TypeOK, StartFetch
<1>2. fetches' = fetches + 1 /\ fetches + 1 \in 0 .. MaxFetches
  BY <1>1 DEF StartFetch
<1>3. [id |-> fetches + 1, borrower |-> b] \in Call
  BY <1>1 DEF Call
<1>4. inFlight' \subseteq Call
  BY <1>3 DEF TypeOK, StartFetch
<1>5. drawnAt' \in 0 .. MaxTime
  BY DEF TypeOK, StartFetch, Render
<1>6. QED
  BY <1>2, <1>4, <1>5 DEF StartFetch

LEMMA TypeStep == TypeOK /\ [Next]_vars => TypeOK'
<1> SUFFICES ASSUME TypeOK, [Next]_vars PROVE TypeOK'
  OBVIOUS
<1>1. CASE ChangeAddress
  <2>1. PICK b \in Borrowers \ {address} : address' = b /\ StartFetch(b)
    BY <1>1 DEF ChangeAddress
  <2>2. QED
    BY <1>1, <2>1, StartFetchType DEF ChangeAddress, TypeOK, viewVars
<1>2. CASE Retry \/ Refresh
  <2>1. StartFetch(address) /\ address \in Borrowers
    BY <1>2 DEF Retry, Refresh, TypeOK
  <2>2. QED
    BY <1>2, <2>1, StartFetchType DEF Retry, Refresh, TypeOK, viewVars
<1>3. CASE RespondOk
  <2>1. PICK r \in inFlight, items \in Responses :
          /\ inFlight' = inFlight \ {r}
          /\ loans' = [owner |-> r.borrower, items |-> items]
          /\ stats' = CalculateStats(items)
    BY <1>3 DEF RespondOk
  <2>2. r.borrower \in Borrowers
    BY <2>1 DEF TypeOK, Call
  <2>3. loans' \in LoanLists /\ stats' \in [overdueCount : 0 .. MaxLoans]
    BY <2>1, <2>2, ResponseType DEF LoanLists
  <2>4. QED
    BY <1>3, <2>1, <2>3 DEF RespondOk, Render, TypeOK
<1>4. CASE RespondError
  BY <1>4 DEF RespondError, Render, TypeOK, viewVars
<1>5. CASE SetFilter
  BY <1>5 DEF SetFilter, Render, TypeOK
<1>6. CASE Tick
  BY <1>6, TimeAssumption DEF Tick, TypeOK
<1>7. CASE UNCHANGED vars
  BY <1>7 DEF vars, TypeOK
<1>8. QED
  BY <1>1, <1>2, <1>3, <1>4, <1>5, <1>6, <1>7 DEF Next

(* Every reachable state of the loan list is well typed: in particular    *)
(* the overdue count calculateStats stores never exceeds the number of    *)
(* loans a response can hold, whatever the clock says when it arrives.    *)
THEOREM LoanListTypeCorrect == Spec => []TypeOK
<1>1. QED
  BY TypeInit, TypeStep, PTL DEF Spec
-----------------------------------------------------------------------------
(* The loan list implements FetchScreen.                                   *)

(* Under ErrorInv each step of the component is a step of FetchScreen or  *)
(* leaves the screen as it is.                                             *)
LEMMA ScreenStep ==
    ASSUME NEW b, Borrowers = {b}, ErrorInv, [Next]_vars
    PROVE  [View!Settle \/ View!Reload]_Screen
<1>1. CASE ChangeAddress
  <2>1. Borrowers \ {address} = {}
    BY DEF ErrorInv
  <2>2. QED
    BY <1>1, <2>1 DEF ChangeAddress
<1>2. CASE Retry \/ Refresh
  <2>1. ~loading /\ loading' = TRUE
    BY <1>2 DEF Retry, Refresh, StartFetch
  <2>2. Screen \in {"error", "list"} /\ Screen' = "spinner"
    BY <2>1 DEF Screen
  <2>3. QED
    BY <2>2 DEF View!Reload
<1>3. CASE RespondOk \/ RespondError
  <2>1. inFlight # {} /\ loading' = FALSE
    BY <1>3 DEF RespondOk, RespondError
  <2>2. loading /\ ~error
    BY <2>1 DEF ErrorInv, OneCallAtATime, SpinnerHidesError
  <2>3. error' \in BOOLEAN
    BY <1>3 DEF ErrorInv, RespondOk, RespondError
  <2>4. Screen = "spinner" /\ Screen' \in {"error", "list"}
    BY <2>1, <2>2, <2>3 DEF Screen
  <2>5. QED
    BY <2>4 DEF View!Settle
<1>4. CASE SetFilter \/ Tick \/ UNCHANGED vars
  <2>1. UNCHANGED <<loading, error>>
    BY <1>4 DEF SetFilter, Tick, vars
  <2>2. QED
    BY <2>1 DEF Screen
<1>5. QED
  BY <1>1, <1>2, <1>3, <1>4 DEF Next

(* With one borrowerAddress for the component's life, the loan list keeps *)
(* the promise of FetchScreen for every number of Retry and Refresh clicks *)
(* and every response: the spinner ends in one outcome, and an outcome    *)
(* gives way to another only through the spinner of a new call.  Retry    *)
(* and Refresh are drawn only once loading is false, so calls never        *)
(* overlap; with two addresses they do, and TLC finds a list replaced by   *)
(* the error card.                                                         *)
THEOREM ScreenRefinedForOneBorrower ==
    ASSUME NEW b, Borrowers = {b}
    PROVE  Spec => ScreenRefined
<1>1. Init => View!Init
  BY DEF Init, Screen, View!Init
<1>2. ErrorInv /\ [Next]_vars => ErrorInv' /\ [View!Settle \/ View!Reload]_Screen
  BY ErrorStep, ScreenStep
<1>3. QED
  BY <1>1, <1>2, ErrorInit, PTL DEF Spec, ScreenRefined, View!Spec
=============================================================================
