--------------------------- MODULE MCBatchSearch ---------------------------
(***************************************************************************)
(* A ledger for model checking the search: seven batches in six            *)
(* transactions, two of which share a block; no stretch of three blocks    *)
(* up to the last commit is without an event, the blocks behind it are.    *)
(***************************************************************************)
EXTENDS BatchSearch

MCBatchTx == <<1, 2, 2, 3, 4, 5, 6>>
MCTxBlock == <<3, 6, 9, 9, 11, 14>>

=============================================================================
