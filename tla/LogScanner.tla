----------------------------- MODULE LogScanner -----------------------------
(***************************************************************************)
(* The main handler of the L1 fetcher (L1Fetcher::spawn_main_handler): it  *)
(* walks the finalized chain in windows of BlockStep blocks, reads the     *)
(* BlockCommit events of each window and hands the hash of every commit    *)
(* transaction to the transaction handler over a bounded channel.          *)
(*                                                                         *)
(* One action per branch of the handler's loop.  A failed L1 call (after   *)
(* the retries of retry_call) makes the handler wait and try the same      *)
(* iteration again: it changes no state, so it is a stuttering step, and   *)
(* fairness of the action that succeeds says that the node answers in the  *)
(* end.  Metrics are left out.                                             *)
(***************************************************************************)
EXTENDS CommitLedger, Sequences

CONSTANTS
  BlockStep,       \* L1FetcherOptions.block_step
  Options,         \* the L1FetcherOptions a session may be started with: the
                   \* block_count, or None, and disable_polling
  ChanCap,         \* capacity of the channels between tasks (5 in the code)
  MaxTip,          \* bound: the chain is finalized up to MaxTip at most
  None

ASSUME ScannerAssumption ==
  /\ BlockStep \in Nat \ {0}
  /\ Options \subseteq [block_count : Nat \cup {None}, disable_polling : BOOLEAN]
  /\ ChanCap \in Nat \ {0}
  /\ MaxTip \in Nat
  /\ None \notin Nat

VARIABLES
  tip,           \* last finalized L1 block
  cancelled,     \* the shared cancellation token
  config,        \* the options of this session
  startBlock,    \* block this session started from
  currentBlock,  \* current_l1_block_number
  endBlock,      \* end_block: None until it is fetched
  scanPc,        \* "top" of the loop, in "logs", "done" or "panicked"
  nextLog,       \* the batch whose event the log loop looks at next
  latestBatch,   \* latest_zksync_batch_number
  previousHash,  \* previous_hash: None or a transaction
  hashChan,      \* hash_tx / hash_rx
  hashRxOpen,    \* the transaction handler still holds hash_rx
  sent,          \* history: last transaction sent or before startBlock
  sends          \* history: how many hashes were sent

scanVars == <<config, startBlock, currentBlock, endBlock, scanPc, nextLog,
              latestBatch, previousHash, sent, sends>>
vars == <<tip, cancelled, hashChan, hashRxOpen, scanVars>>

-----------------------------------------------------------------------------
\* Polling is switched off by the option or by a limit on the blocks to read.
NoPolling == config.disable_polling \/ config.block_count # None

\* end_block of `run`, max_end_block of the handler.
MaxEndBlock == startBlock + config.block_count

\* The block up to which this round reads, given the finalized block n.
EndBlockFor(n) ==
  IF config.block_count # None /\ MaxEndBlock < n THEN MaxEndBlock ELSE n

\* filter_end_block_number.
WindowEnd ==
  IF currentBlock + BlockStep - 1 < endBlock
  THEN currentBlock + BlockStep - 1 ELSE endBlock

\* A mutant: past the last window whatever the polling flag says.
NextBlockPastEnd ==
  IF currentBlock + BlockStep <= endBlock THEN currentBlock + BlockStep
  ELSE endBlock + 1

\* A mutant: the last window is read again whole, not its last block alone.
NextBlockWholeWindow ==
  IF currentBlock + BlockStep <= endBlock THEN currentBlock + BlockStep
  ELSE IF currentBlock < endBlock THEN endBlock - BlockStep
  ELSE endBlock + 1

\* current_l1_block_number after the logs of a window, when scanning goes on.
NextBlock ==
  IF currentBlock + BlockStep <= endBlock THEN currentBlock + BlockStep
  ELSE IF currentBlock < endBlock THEN endBlock
  ELSE endBlock + 1

\* The window reached endBlock and began there: no block is left to read.
NothingLeft == currentBlock + BlockStep > endBlock /\ currentBlock >= endBlock

\* A mutant: the last block of a window is not part of it.
LogPendingBefore == nextLog <= NumBatches /\ BlockOf(nextLog) < WindowEnd

LogPending == nextLog <= NumBatches /\ BlockOf(nextLog) <= WindowEnd

\* A mutant: no transaction is ever taken for known.
KnownTxNever(b) == FALSE

\* The two tests that keep a transaction from being sent twice.
KnownBatch(b) == b <= latestBatch
KnownTx(b)    == BatchTx[b] = previousHash

-----------------------------------------------------------------------------
\* spawn_main_handler is entered with the block of this session.
ScannerInit(start) ==
  /\ config \in Options
  /\ startBlock = start
  /\ currentBlock = start
  /\ endBlock = None
  /\ scanPc = "top"
  /\ nextLog = 1
  /\ latestBatch = 0
  /\ previousHash = None
  /\ hashChan = <<>>
  /\ hashRxOpen = TRUE
  /\ sends = 0
  /\ sent \in 0..NumTxs
  /\ TxsBefore(sent, start)

\* Top of the loop: break once the token is cancelled.
StopCancelled ==
  /\ scanPc = "top"
  /\ cancelled
  /\ scanPc' = "done"
  /\ UNCHANGED <<tip, cancelled, hashChan, hashRxOpen, config, startBlock,
                 currentBlock, endBlock, nextLog, latestBatch, previousHash,
                 sent, sends>>

LearnEndBlock ==
  /\ scanPc = "top"
  /\ ~cancelled
  /\ endBlock = None
  /\ endBlock' = EndBlockFor(tip)
  /\ UNCHANGED <<tip, cancelled, hashChan, hashRxOpen, config, startBlock,
                 currentBlock, scanPc, nextLog, latestBatch, previousHash,
                 sent, sends>>

\* A mutant: the tip is not asked for again.
WaitForUpstreamForever ==
  /\ scanPc = "top"
  /\ ~cancelled
  /\ endBlock # None
  /\ currentBlock > endBlock
  /\ ~NoPolling
  /\ UNCHANGED vars

\* Everything up to endBlock is read: wait, then ask for the tip again.
WaitForUpstream ==
  /\ scanPc = "top"
  /\ ~cancelled
  /\ endBlock # None
  /\ currentBlock > endBlock
  /\ ~NoPolling
  /\ endBlock' = None
  /\ UNCHANGED <<tip, cancelled, hashChan, hashRxOpen, config, startBlock,
                 currentBlock, scanPc, nextLog, latestBatch, previousHash,
                 sent, sends>>

\* assert!(!disable_polling) fails and the task panics.
PollingAssertFails ==
  /\ scanPc = "top"
  /\ ~cancelled
  /\ endBlock # None
  /\ currentBlock > endBlock
  /\ NoPolling
  /\ scanPc' = "panicked"
  /\ UNCHANGED <<tip, cancelled, hashChan, hashRxOpen, config, startBlock,
                 currentBlock, endBlock, nextLog, latestBatch, previousHash,
                 sent, sends>>

\* get_logs answers with the events of currentBlock..WindowEnd.
ReceiveLogs ==
  /\ scanPc = "top"
  /\ ~cancelled
  /\ endBlock # None
  /\ currentBlock <= endBlock
  /\ \E lo \in 1..(NumBatches + 1) :
       /\ LogsStartAt(lo, currentBlock)
       /\ nextLog' = lo
  /\ scanPc' = "logs"
  /\ UNCHANGED <<tip, cancelled, hashChan, hashRxOpen, config, startBlock,
                 currentBlock, endBlock, latestBatch, previousHash, sent,
                 sends>>

SkipLog ==
  /\ scanPc = "logs"
  /\ LogPending
  /\ KnownBatch(nextLog) \/ KnownTx(nextLog)
  /\ nextLog' = nextLog + 1
  /\ UNCHANGED <<tip, cancelled, hashChan, hashRxOpen, config, startBlock,
                 currentBlock, endBlock, scanPc, latestBatch, previousHash,
                 sent, sends>>

SendHash ==
  /\ scanPc = "logs"
  /\ LogPending
  /\ ~KnownBatch(nextLog) /\ ~KnownTx(nextLog)
  /\ hashRxOpen
  /\ Len(hashChan) < ChanCap
  /\ hashChan' = Append(hashChan, BatchTx[nextLog])
  /\ sent' = BatchTx[nextLog]
  /\ sends' = sends + 1
  /\ previousHash' = BatchTx[nextLog]
  /\ latestBatch' = nextLog
  /\ nextLog' = nextLog + 1
  /\ UNCHANGED <<tip, cancelled, hashRxOpen, config, startBlock, currentBlock,
                 endBlock, scanPc>>

\* The receiver is gone: cancel everything and return.
SendHashFails ==
  /\ scanPc = "logs"
  /\ LogPending
  /\ ~KnownBatch(nextLog) /\ ~KnownTx(nextLog)
  /\ ~hashRxOpen
  /\ cancelled' = TRUE
  /\ scanPc' = "done"
  /\ UNCHANGED <<tip, hashChan, hashRxOpen, config, startBlock, currentBlock,
                 endBlock, nextLog, latestBatch, previousHash, sent, sends>>

\* The window ends at endBlock, it was read alone, and nobody polls: return.
FinishScan ==
  /\ scanPc = "logs"
  /\ ~LogPending
  /\ NothingLeft
  /\ NoPolling
  /\ scanPc' = "done"
  /\ UNCHANGED <<tip, cancelled, hashChan, hashRxOpen, config, startBlock,
                 currentBlock, endBlock, nextLog, latestBatch, previousHash,
                 sent, sends>>

Advance ==
  /\ scanPc = "logs"
  /\ ~LogPending
  /\ ~(NothingLeft /\ NoPolling)
  /\ currentBlock' = NextBlock
  /\ scanPc' = "top"
  /\ UNCHANGED <<tip, cancelled, hashChan, hashRxOpen, config, startBlock,
                 endBlock, nextLog, latestBatch, previousHash, sent, sends>>

ScanStep ==
  \/ StopCancelled \/ LearnEndBlock \/ WaitForUpstream \/ PollingAssertFails
  \/ ReceiveLogs \/ SkipLog \/ SendHash \/ SendHashFails
  \/ FinishScan \/ Advance

-----------------------------------------------------------------------------
(***************************************************************************)
(* The handler with its surroundings: L1 finalizes blocks, the user or     *)
(* another task cancels, the transaction handler takes hashes or returns.  *)
(***************************************************************************)
FinalizeBlock ==
  /\ tip < MaxTip
  /\ tip' = tip + 1
  /\ UNCHANGED <<cancelled, hashChan, hashRxOpen, scanVars>>

Cancel ==
  /\ ~cancelled
  /\ cancelled' = TRUE
  /\ UNCHANGED <<tip, hashChan, hashRxOpen, scanVars>>

TakeHash ==
  /\ hashRxOpen
  /\ hashChan # <<>>
  /\ hashChan' = Tail(hashChan)
  /\ UNCHANGED <<tip, cancelled, hashRxOpen, scanVars>>

\* A receiver that is dropped takes the messages of its channel with it.
CloseHashRx ==
  /\ hashRxOpen
  /\ hashRxOpen' = FALSE
  /\ hashChan' = <<>>
  /\ UNCHANGED <<tip, cancelled, scanVars>>

\* The user may ask for a block that is not finalized yet.
ScanInit ==
  /\ tip \in 0..MaxTip
  /\ cancelled = FALSE
  /\ \E start \in 0..(MaxTip + 1) : ScannerInit(start)

ScanNext == ScanStep \/ FinalizeBlock \/ Cancel \/ TakeHash \/ CloseHashRx

ScanSpec == ScanInit /\ [][ScanNext]_vars

-----------------------------------------------------------------------------
(***************************************************************************)
(* Properties                                                              *)
(***************************************************************************)
\* The type invariant of the main handler's variables.
ScanTypeOK ==
  /\ tip \in Nat
  /\ cancelled \in BOOLEAN
  /\ config \in Options
  /\ startBlock \in Nat
  /\ currentBlock \in Nat
  /\ endBlock \in Nat \cup {None}
  /\ scanPc \in {"top", "logs", "done", "panicked"}
  /\ nextLog \in 1..(NumBatches + 1)
  /\ latestBatch \in 0..NumBatches
  /\ previousHash \in Txs \cup {None}
  /\ hashChan \in Seq(Txs)
  /\ hashRxOpen \in BOOLEAN
  /\ sent \in 0..NumTxs
  /\ sends \in Nat

\* assert!(!disable_polling) can only fail when the caller started the handler
\* past the end block, which the comment above the assertion forbids: the
\* handler itself never steps past the end block with polling off.
AssertBlamesCaller == scanPc = "panicked" => startBlock > endBlock

\* A handler that returns because nothing is left to read and nobody polls has
\* handed on every commit of the blocks it was asked to read.
FinishedScanIsComplete ==
  scanPc = "done" /\ ~cancelled =>
    \A t \in Txs : TxBlock[t] <= endBlock => t <= sent

\* However windows, re-read blocks and several batches per transaction fall, the
\* transaction handler is sent the commits of the finalized chain from the
\* starting block on, each once and in order: the handler implements TxFeed.
Feed == INSTANCE TxFeed
FeedImplemented == Feed!FeedSpec

=============================================================================
