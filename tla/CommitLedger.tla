---------------------------- MODULE CommitLedger ----------------------------
(***************************************************************************)
(* The part of Ethereum that the tool reads: the transactions that commit  *)
(* zkSync batches, one BlockCommit event per batch.  The chain is outside  *)
(* the repository; what is assumed of it is what the code relies on:       *)
(* events come in batch order, a transaction commits a run of consecutive  *)
(* batches inside one L1 block, and finalized blocks never change.         *)
(*                                                                         *)
(* A transaction hash is its position in commit order, a batch its number, *)
(* an L1 block its number.                                                 *)
(***************************************************************************)
EXTENDS Integers

CONSTANTS
  NumBatches,   \* batches committed on the chain: 1..NumBatches
  NumTxs,       \* commit transactions: 1..NumTxs
  BatchTx,      \* BatchTx[b]: the transaction whose event announces batch b
  TxBlock       \* TxBlock[t]: the L1 block of transaction t

Batches == 1..NumBatches
Txs     == 1..NumTxs

ASSUME LedgerAssumption ==
  /\ NumBatches \in Nat \ {0}
  /\ NumTxs \in Nat \ {0}
  /\ BatchTx \in [Batches -> Txs]
  /\ TxBlock \in [Txs -> Nat]
  /\ BatchTx[1] = 1
  /\ \A a, b \in Batches : a <= b => BatchTx[a] <= BatchTx[b]
  /\ \A b \in Batches : b > 1 => BatchTx[b] <= BatchTx[b - 1] + 1
  /\ \A t \in Txs : \E b \in Batches : BatchTx[b] = t
  /\ \A s, t \in Txs : s <= t => TxBlock[s] <= TxBlock[t]

\* The L1 block whose logs hold the BlockCommit event of batch b.
BlockOf(b) == TxBlock[BatchTx[b]]

\* The events of blocks n and later are those of batches lo and later.
LogsStartAt(lo, n) ==
  /\ \A b \in Batches : b < lo => BlockOf(b) < n
  /\ \A b \in Batches : b >= lo => BlockOf(b) >= n

\* The first `last` transactions are those of the blocks before block n.
TxsBefore(last, n) == \A t \in Txs : (t <= last) <=> (TxBlock[t] < n)

=============================================================================
