----------------------------- MODULE FetchScreen -----------------------------
(***************************************************************************)
(* What a component that loads a list promises its user, whatever fetches *)
(* it: it opens on the spinner; the spinner gives way to one outcome, the  *)
(* list or the error card; and the outcome on screen changes only through  *)
(* the spinner of a new request (Retry, Refresh).  A list never turns into *)
(* the error card, or back, without a request the user sees start.         *)
(***************************************************************************)
VARIABLE screen   \* "spinner", "error" or "list"

Init == screen = "spinner"

(* The request settles. *)
Settle == screen = "spinner" /\ screen' \in {"error", "list"}

(* A new request starts from a settled screen. *)
Reload == screen \in {"error", "list"} /\ screen' = "spinner"

Spec == Init /\ [][Settle \/ Reload]_screen
=============================================================================
