---------------------------- MODULE MCLogScanner ----------------------------
(***************************************************************************)
(* A ledger for model checking the main handler, and the three kinds of    *)
(* sessions: one that polls, one that stops at the tip, and one that reads *)
(* two blocks.                                                             *)
(***************************************************************************)
EXTENDS LogScanner

\* Five batches in three transactions; the last two share an L1 block and the
\* first and the last commit two batches each.
MCBatchTx == <<1, 1, 2, 3, 3>>
MCTxBlock == <<1, 3, 3>>

MCOptions ==
  {[block_count |-> None, disable_polling |-> off] : off \in BOOLEAN}
    \cup {[block_count |-> 2, disable_polling |-> FALSE]}

=============================================================================
