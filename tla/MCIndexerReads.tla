--------------------------- MODULE MCIndexerReads ---------------------------
(* Small instances of IndexerReads for TLC.                                 *)
EXTENDS MCIndexer, IndexerReads

CONSTANTS r1

OneReader == {r1}
=============================================================================
