------------------------------- MODULE TxFeed -------------------------------
(***************************************************************************)
(* What the first stage of the fetcher promises to the stages behind it:   *)
(* the commit transactions of the finalized chain, from the starting block *)
(* on, each exactly once and in commit order, none before its block is     *)
(* finalized.                                                              *)
(***************************************************************************)
EXTENDS CommitLedger

VARIABLES
  startBlock,  \* the block fetching starts from
  sent,        \* the last transaction handed on
  sends,       \* how many times a transaction was handed on
  tip          \* the last finalized L1 block

feedVars == <<startBlock, sent, sends, tip>>

FeedInit ==
  /\ startBlock \in Nat
  /\ tip \in Nat
  /\ sends = 0
  /\ sent \in 0..NumTxs
  /\ TxsBefore(sent, startBlock)

Forward ==
  /\ sent < NumTxs
  /\ TxBlock[sent + 1] <= tip
  /\ sent' = sent + 1
  /\ sends' = sends + 1
  /\ UNCHANGED <<startBlock, tip>>

Finalize ==
  /\ tip' \in Nat
  /\ tip' > tip
  /\ UNCHANGED <<startBlock, sent, sends>>

FeedSpec == FeedInit /\ [][Forward \/ Finalize]_feedVars

=============================================================================
