------------------------------ MODULE MCIndexer ------------------------------
(* Small instances of Indexer for TLC.                                      *)
EXTENDS Indexer, TLC

CONSTANTS t1, t2, c1, c2

OneTask == {t1}
OneClient == {c1}
TwoClients == {c1, c2}

(* A loan id that fits the u32 decoder and a PostgreSQL integer. *)
SmallLoanIds == {1}

(* TLC's integers are 32-bit: the integer column and the u32 loan ids  *)
(* are scaled down, loan id 2 standing for one of 2^31 or more.        *)
MCInt4Max == 1
OverflowLoanIds == {1, 2}

(* Connections of the pool are interchangeable, and so are chains. *)
Symmetry == Permutations(Clients) \cup Permutations(Tasks)
=============================================================================
