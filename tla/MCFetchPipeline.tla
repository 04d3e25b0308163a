--------------------------- MODULE MCFetchPipeline ---------------------------
(***************************************************************************)
(* A ledger for model checking the pipeline: the second and the third      *)
(* transaction share an L1 block, and the third commits two batches.       *)
(***************************************************************************)
EXTENDS FetchPipeline

MCBatchTx == <<1, 2, 3, 3, 4>>
MCTxBlock == <<1, 2, 2, 3>>

\* One more transaction in the last block: the one that does not parse, or one that
\* arrives after it.
MCBatchTxMore == Append(MCBatchTx, 5)
MCTxBlockMore == Append(MCTxBlock, 3)

\* A session that polls, and those that do not: up to the tip, or for one block.
MCPolling == [block_count |-> None, disable_polling |-> FALSE]
MCOnce    == [block_count |-> None, disable_polling |-> TRUE]
MCOneMore == [block_count |-> 1, disable_polling |-> FALSE]

MCAll     == {MCPolling, MCOnce, MCOneMore}
MCShort   == {MCPolling, MCOneMore}

=============================================================================
