----------------------------- MODULE MCLoanList -----------------------------
(* Small instances of LoanList for TLC.                                     *)
EXTENDS LoanList, TLC

CONSTANTS b1, b2

OneBorrower == {b1}
TwoBorrowers == {b1, b2}
=============================================================================
