------------------------- MODULE FetchPipelineProofs -------------------------
(***************************************************************************)
(* What reads the ledger, for every ledger, window size and channel        *)
(* capacity.  The main handler: its type invariant, the polling assertion, *)
(* complete scans and the refinement of TxFeed, all from one inductive     *)
(* invariant.  The search for the L1 block of a batch.  And the safety of  *)
(* the pipeline, for any number of sessions, kills, bad batches and broken *)
(* transactions: its types, the promises of the stored resume block,       *)
(* complete runs, and the refinement of ParseTask, all from one inductive  *)
(* invariant over that of the main handler.                                *)
(***************************************************************************)
EXTENDS FetchPipeline, BatchSearch, FiniteSetTheorems, SequenceTheorems,
        WellFoundedInduction, TLAPS

\* The end block is finalized; the logs are read only below it.
EndKnown ==
  /\ startBlock <= currentBlock
  /\ endBlock # None => endBlock <= tip
  /\ scanPc = "logs" => endBlock # None /\ currentBlock <= endBlock

\* With polling off the end block is fetched once and never stepped over.
PollingInv ==
  /\ NoPolling /\ endBlock = None => currentBlock = startBlock
  /\ NoPolling /\ endBlock # None /\ startBlock <= endBlock =>
       currentBlock <= endBlock
  /\ scanPc = "panicked" => endBlock # None /\ startBlock > endBlock

\* What previous_hash and latest_zksync_batch_number say of the last hash sent.
MemoryInv ==
  /\ previousHash = None => latestBatch = 0 /\ TxsBefore(sent, startBlock)
  /\ previousHash # None =>
       /\ previousHash = sent
       /\ latestBatch \in Batches
       /\ BatchTx[latestBatch] = sent

\* Everything below the current block is sent, and in the log loop everything
\* before the log at hand.
ProgressInv ==
  /\ \A t \in Txs : TxBlock[t] < currentBlock => t <= sent
  /\ scanPc = "logs" =>
       /\ \A b \in Batches : b < nextLog => BatchTx[b] <= sent
       /\ \A b \in Batches : b >= nextLog => BlockOf(b) >= currentBlock

ScanInv ==
  ScanTypeOK /\ EndKnown /\ PollingInv /\ MemoryInv /\ ProgressInv
    /\ FinishedScanIsComplete

-----------------------------------------------------------------------------
\* The types of the ledger, and the two facts about its order that are used.
LEMMA LedgerTypes ==
  /\ NumBatches \in Nat /\ NumTxs \in Nat
  /\ \A b \in Batches : /\ b \in Nat /\ BatchTx[b] \in Txs /\ BatchTx[b] \in Nat
                        /\ BlockOf(b) \in Nat
  /\ \A t \in Txs : t \in Nat /\ TxBlock[t] \in Nat /\ t # None
  /\ Batches \subseteq Nat /\ Txs \subseteq Nat
BY LedgerAssumption, ScannerAssumption DEF Batches, Txs, BlockOf

\* Later batches are in later transactions and blocks, or the same.
LEMMA LedgerOrder ==
  ASSUME NEW a \in Batches, NEW b \in Batches, a <= b
  PROVE  BatchTx[a] <= BatchTx[b] /\ BlockOf(a) <= BlockOf(b)
BY LedgerAssumption, LedgerTypes DEF BlockOf

\* The arithmetic of the windows: NextBlock is at most one past WindowEnd.
LEMMA WindowArithmetic ==
  ASSUME ScanTypeOK, EndKnown, scanPc = "logs"
  PROVE  /\ WindowEnd \in Nat /\ WindowEnd <= endBlock
         /\ NextBlock \in Nat /\ NextBlock <= WindowEnd + 1
         /\ currentBlock <= NextBlock
         /\ currentBlock < endBlock => NextBlock <= endBlock
         /\ NothingLeft => WindowEnd = endBlock
BY ScannerAssumption
   DEF ScanTypeOK, EndKnown, WindowEnd, NextBlock, NothingLeft

\* When the log loop is through, every commit of the window has been sent.
LEMMA WindowIsSent ==
  ASSUME ScanTypeOK, EndKnown, ProgressInv, scanPc = "logs", ~LogPending,
         NEW t \in Txs, TxBlock[t] <= WindowEnd
  PROVE  t <= sent
<1>1. PICK b \in Batches : BatchTx[b] = t
  BY LedgerAssumption
<1>2. CASE b < nextLog
  BY <1>1, <1>2 DEF ProgressInv
<1>3. CASE b >= nextLog
  <2>1. nextLog \in Batches
    BY <1>3, LedgerTypes DEF Batches, ScanTypeOK
  <2>2. BlockOf(nextLog) <= BlockOf(b) /\ BlockOf(b) = TxBlock[t]
    BY <1>1, <1>3, <2>1, LedgerOrder DEF BlockOf
  <2>3. BlockOf(nextLog) <= WindowEnd
    BY <2>1, <2>2, WindowArithmetic, LedgerTypes
  <2> QED BY <2>1, <2>3 DEF LogPending, Batches
<1> QED BY <1>2, <1>3, LedgerTypes DEF ScanTypeOK

\* A hash that is sent is the one after the last hash sent.
LEMMA SendsTheNext ==
  ASSUME ScanInv, SendHash
  PROVE  /\ nextLog \in Batches
         /\ BatchTx[nextLog] = sent + 1
         /\ TxBlock[sent + 1] <= tip
<1>1. nextLog \in Batches /\ nextLog > latestBatch /\ nextLog \in Nat
      /\ latestBatch \in Nat /\ sent \in Nat
  BY LedgerTypes DEF SendHash, LogPending, ScanInv, ScanTypeOK, Batches, KnownBatch
<1>2. BatchTx[nextLog] > sent
  <2>1. CASE previousHash = None
    <3>1. BlockOf(nextLog) >= startBlock
      BY <1>1, LedgerTypes DEF SendHash, ScanInv, ProgressInv, EndKnown, ScanTypeOK
    <3>2. ~(BatchTx[nextLog] <= sent)
      BY <1>1, <2>1, <3>1, LedgerTypes
         DEF ScanInv, MemoryInv, TxsBefore, BlockOf, ScanTypeOK
    <3> QED BY <1>1, <3>2, LedgerTypes
  <2>2. CASE previousHash # None
    <3>1. sent <= BatchTx[nextLog]
      BY <1>1, <2>2, LedgerOrder, LedgerTypes DEF ScanInv, MemoryInv
    <3>2. sent # BatchTx[nextLog]
      BY <2>2 DEF ScanInv, MemoryInv, SendHash, KnownTx
    <3> QED BY <1>1, <3>1, <3>2, LedgerTypes
  <2> QED BY <2>1, <2>2
<1>3. BatchTx[nextLog] <= sent + 1
  <2>1. CASE nextLog = 1
    BY <1>1, <2>1, LedgerAssumption
  <2>2. CASE nextLog > 1
    <3>1. nextLog - 1 \in Batches /\ nextLog - 1 < nextLog
      BY <1>1, <2>2, LedgerTypes DEF Batches
    <3>2. BatchTx[nextLog - 1] <= sent
      BY <3>1 DEF ScanInv, ProgressInv, SendHash
    <3>3. BatchTx[nextLog] <= BatchTx[nextLog - 1] + 1
      BY <1>1, <2>2, LedgerAssumption
    <3> QED BY <1>1, <3>1, <3>2, <3>3, LedgerTypes
  <2> QED BY <1>1, <2>1, <2>2 DEF Batches
<1>4. BatchTx[nextLog] = sent + 1
  BY <1>1, <1>2, <1>3, LedgerTypes
<1>5. TxBlock[sent + 1] <= tip
  <2>1. TxBlock[sent + 1] = BlockOf(nextLog)
    BY <1>4 DEF BlockOf
  <2>2. BlockOf(nextLog) <= WindowEnd /\ WindowEnd <= endBlock /\ endBlock <= tip
        /\ WindowEnd \in Nat /\ endBlock \in Nat /\ tip \in Nat
    BY WindowArithmetic
       DEF SendHash, LogPending, ScanInv, EndKnown, ScanTypeOK
  <2> QED BY <1>1, <2>1, <2>2, LedgerTypes
<1> QED BY <1>1, <1>4, <1>5

-----------------------------------------------------------------------------
\* A handler that starts satisfies the invariant.
LEMMA ScanInitInv == ScanInit => ScanInv
<1> SUFFICES ASSUME ScanInit PROVE ScanInv
  OBVIOUS
<1> USE DEF ScanInit, ScannerInit
<1>1. ScanTypeOK
  <2>1. hashChan \in Seq(Txs)
    <3>1. hashChan = <<>>
      OBVIOUS
    <3> HIDE DEF ScanInit, ScannerInit
    <3> QED BY <3>1, EmptySeq
  <2>2. tip \in Nat /\ config \in Options /\ startBlock \in Nat /\ currentBlock \in Nat
    BY ScannerAssumption
  <2>3. /\ cancelled \in BOOLEAN /\ hashRxOpen \in BOOLEAN
        /\ endBlock = None /\ previousHash = None /\ scanPc = "top"
    OBVIOUS
  <2>4. /\ nextLog \in 1..(NumBatches + 1) /\ latestBatch \in 0..NumBatches
        /\ sent \in 0..NumTxs /\ sends \in Nat
    BY LedgerTypes
  <2> HIDE DEF ScanInit, ScannerInit
  <2> QED BY <2>1, <2>2, <2>3, <2>4 DEF ScanTypeOK
<1>2. EndKnown /\ PollingInv /\ MemoryInv
  BY <1>1 DEF EndKnown, PollingInv, MemoryInv, ScanTypeOK
<1>3. ProgressInv
  BY DEF ProgressInv, TxsBefore
<1>4. FinishedScanIsComplete
  BY DEF FinishedScanIsComplete
<1> QED BY <1>1, <1>2, <1>3, <1>4 DEF ScanInv

\* The steps that leave the log loop's memory, the progress and the end alone.
LEMMA ScanInvUnchanged ==
  ASSUME ScanInv, UNCHANGED scanVars, tip' \in Nat, tip' >= tip,
         cancelled' \in BOOLEAN, cancelled => cancelled',
         hashChan' \in Seq(Txs), hashRxOpen' \in BOOLEAN
  PROVE  ScanInv'
<1> USE DEF ScanInv, scanVars
<1>1. ScanTypeOK'
  BY DEF ScanTypeOK
<1>2. EndKnown' /\ PollingInv'
  BY DEF EndKnown, PollingInv, NoPolling, ScanTypeOK
<1>3. MemoryInv' /\ ProgressInv'
  BY DEF MemoryInv, ProgressInv, TxsBefore, BlockOf
<1>4. FinishedScanIsComplete'
  BY DEF FinishedScanIsComplete
<1> QED BY <1>1, <1>2, <1>3, <1>4

\* Every step keeps the invariant.
LEMMA ScanInvStep == ScanInv /\ [ScanNext]_vars => ScanInv'
<1> SUFFICES ASSUME ScanInv, [ScanNext]_vars PROVE ScanInv'
  OBVIOUS
<1>0. ScanTypeOK /\ EndKnown /\ PollingInv /\ MemoryInv /\ ProgressInv
      /\ FinishedScanIsComplete
  BY DEF ScanInv
<1>1. CASE StopCancelled
  <2> USE <1>0, <1>1 DEF StopCancelled
  <2>1. ScanTypeOK'
    BY DEF ScanTypeOK
  <2>2. EndKnown' /\ PollingInv'
    BY DEF EndKnown, PollingInv, NoPolling
  <2>3. MemoryInv' /\ ProgressInv' /\ FinishedScanIsComplete'
    BY DEF MemoryInv, ProgressInv, FinishedScanIsComplete, TxsBefore
  <2> QED BY <2>1, <2>2, <2>3 DEF ScanInv
<1>2. CASE LearnEndBlock
  <2> USE <1>0, <1>2 DEF LearnEndBlock
  <2>1. endBlock' \in Nat /\ endBlock' <= tip
    BY ScannerAssumption DEF EndBlockFor, MaxEndBlock, ScanTypeOK
  <2>2. ScanTypeOK'
    BY <2>1 DEF ScanTypeOK
  <2>3. EndKnown' /\ PollingInv'
    BY <2>1, ScannerAssumption DEF EndKnown, PollingInv, NoPolling, ScanTypeOK
  <2>4. MemoryInv' /\ ProgressInv' /\ FinishedScanIsComplete'
    BY DEF MemoryInv, ProgressInv, FinishedScanIsComplete, TxsBefore
  <2> QED BY <2>2, <2>3, <2>4 DEF ScanInv
<1>3. CASE WaitForUpstream
  <2> USE <1>0, <1>3 DEF WaitForUpstream
  <2>1. ScanTypeOK'
    BY DEF ScanTypeOK
  <2>2. EndKnown' /\ PollingInv'
    BY DEF EndKnown, PollingInv, NoPolling
  <2>3. MemoryInv' /\ ProgressInv' /\ FinishedScanIsComplete'
    BY DEF MemoryInv, ProgressInv, FinishedScanIsComplete, TxsBefore
  <2> QED BY <2>1, <2>2, <2>3 DEF ScanInv
<1>4. CASE PollingAssertFails
  <2> USE <1>0, <1>4 DEF PollingAssertFails
  <2>1. ScanTypeOK'
    BY DEF ScanTypeOK
  <2>2. EndKnown' /\ PollingInv'
    BY DEF EndKnown, PollingInv, NoPolling, ScanTypeOK
  <2>3. MemoryInv' /\ ProgressInv' /\ FinishedScanIsComplete'
    BY DEF MemoryInv, ProgressInv, FinishedScanIsComplete, TxsBefore
  <2> QED BY <2>1, <2>2, <2>3 DEF ScanInv
<1>5. CASE ReceiveLogs
  <2> USE <1>0, <1>5 DEF ReceiveLogs
  <2>1. ScanTypeOK' /\ EndKnown' /\ PollingInv'
    BY LedgerTypes DEF ScanTypeOK, EndKnown, PollingInv, NoPolling
  <2>2. MemoryInv' /\ FinishedScanIsComplete'
    BY DEF MemoryInv, FinishedScanIsComplete, TxsBefore
  <2>3. LogsStartAt(nextLog', currentBlock)
    OBVIOUS
  <2>4. \A b \in Batches : b < nextLog' => BatchTx[b] <= sent
    BY <2>3, LedgerTypes DEF LogsStartAt, ProgressInv, BlockOf
  <2>5. \A b \in Batches : b >= nextLog' => BlockOf(b) >= currentBlock
    BY <2>3 DEF LogsStartAt
  <2>6. ProgressInv'
    BY <2>4, <2>5 DEF ProgressInv, BlockOf
  <2> QED BY <2>1, <2>2, <2>6 DEF ScanInv
<1>6. CASE SkipLog
  <2> USE <1>0, <1>6 DEF SkipLog
  <2>1. nextLog \in Batches /\ nextLog' = nextLog + 1 /\ nextLog \in Nat
    BY LedgerTypes DEF LogPending, ScanTypeOK, Batches
  <2>2. ScanTypeOK'
    BY <2>1, LedgerTypes DEF ScanTypeOK, Batches
  <2>3. EndKnown' /\ PollingInv'
    BY DEF EndKnown, PollingInv, NoPolling
  <2>4. MemoryInv' /\ FinishedScanIsComplete'
    BY DEF MemoryInv, FinishedScanIsComplete, TxsBefore
  <2>5. BatchTx[nextLog] <= sent
    <3>1. CASE KnownBatch(nextLog)
      <4>1. previousHash # None
        BY <2>1, <3>1, LedgerTypes DEF KnownBatch, MemoryInv, Batches
      <4> QED BY <2>1, <3>1, <4>1, LedgerOrder DEF KnownBatch, MemoryInv
    <3>2. CASE KnownTx(nextLog)
      <4>1. previousHash # None
        BY <2>1, <3>2, LedgerTypes DEF KnownTx
      <4> QED BY <2>1, <3>2, <4>1, LedgerTypes DEF KnownTx, MemoryInv
    <3> QED BY <3>1, <3>2
  <2>6. ProgressInv'
    <3>1. \A b \in Batches : b < nextLog + 1 => BatchTx[b] <= sent
      BY <2>1, <2>5, LedgerTypes DEF ProgressInv
    <3>2. \A b \in Batches : b >= nextLog + 1 => BlockOf(b) >= currentBlock
      BY <2>1, LedgerTypes DEF ProgressInv
    <3> QED BY <2>1, <3>1, <3>2 DEF ProgressInv, BlockOf
  <2> QED BY <2>2, <2>3, <2>4, <2>6 DEF ScanInv
<1>7. CASE SendHash
  <2> USE <1>0, <1>7
  <2>1. /\ nextLog \in Batches /\ nextLog \in Nat
        /\ BatchTx[nextLog] = sent + 1 /\ BatchTx[nextLog] \in Txs
        /\ sent \in Nat /\ sent' = sent + 1
    BY SendsTheNext, LedgerTypes DEF SendHash, ScanInv, ScanTypeOK
  <2>2. ScanTypeOK'
    <3>1. hashChan' \in Seq(Txs)
      BY <2>1 DEF SendHash, ScanTypeOK
    <3>2. nextLog' \in 1..(NumBatches + 1) /\ latestBatch' \in 0..NumBatches
      BY <2>1, LedgerTypes DEF SendHash, Batches
    <3>3. sent' \in 0..NumTxs /\ sends' \in Nat
      BY <2>1, LedgerTypes DEF SendHash, ScanTypeOK, Txs
    <3> QED BY <2>1, <3>1, <3>2, <3>3 DEF SendHash, ScanTypeOK
  <2>3. EndKnown' /\ PollingInv' /\ FinishedScanIsComplete'
    BY DEF SendHash, EndKnown, PollingInv, NoPolling, FinishedScanIsComplete
  <2>4. MemoryInv'
    BY <2>1, LedgerTypes DEF SendHash, MemoryInv
  <2>5. ProgressInv'
    <3>1. \A t \in Txs : TxBlock[t] < currentBlock => t <= sent + 1
      BY <2>1, LedgerTypes DEF ProgressInv
    <3>2. \A b \in Batches : b < nextLog + 1 => BatchTx[b] <= sent + 1
      BY <2>1, LedgerTypes DEF ProgressInv, SendHash
    <3>3. \A b \in Batches : b >= nextLog + 1 => BlockOf(b) >= currentBlock
      BY <2>1, LedgerTypes DEF ProgressInv, SendHash
    <3> QED BY <2>1, <3>1, <3>2, <3>3 DEF SendHash, ProgressInv, BlockOf
  <2> QED BY <2>2, <2>3, <2>4, <2>5 DEF ScanInv
<1>8. CASE SendHashFails
  <2> USE <1>0, <1>8 DEF SendHashFails
  <2>1. ScanTypeOK'
    BY DEF ScanTypeOK
  <2>2. EndKnown' /\ PollingInv'
    BY DEF EndKnown, PollingInv, NoPolling
  <2>3. MemoryInv' /\ ProgressInv' /\ FinishedScanIsComplete'
    BY DEF MemoryInv, ProgressInv, FinishedScanIsComplete, TxsBefore
  <2> QED BY <2>1, <2>2, <2>3 DEF ScanInv
<1>9. CASE FinishScan
  <2> USE <1>0, <1>9 DEF FinishScan
  <2>1. ScanTypeOK'
    BY DEF ScanTypeOK
  <2>2. EndKnown' /\ PollingInv'
    BY DEF EndKnown, PollingInv, NoPolling
  <2>3. MemoryInv' /\ ProgressInv'
    BY DEF MemoryInv, ProgressInv, TxsBefore
  <2>4. \A t \in Txs : TxBlock[t] <= endBlock => t <= sent
    BY WindowArithmetic, WindowIsSent
  <2>5. FinishedScanIsComplete'
    BY <2>4 DEF FinishedScanIsComplete
  <2> QED BY <2>1, <2>2, <2>3, <2>5 DEF ScanInv
<1>10. CASE Advance
  <2> USE <1>0, <1>10 DEF Advance
  <2>1. ScanTypeOK'
    BY WindowArithmetic DEF ScanTypeOK
  <2>2. EndKnown'
    BY WindowArithmetic DEF EndKnown, ScanTypeOK
  <2>3. PollingInv'
    <3>1. NoPolling => currentBlock' <= endBlock
      BY WindowArithmetic, ScannerAssumption
         DEF NothingLeft, NextBlock, ScanTypeOK, EndKnown
    <3> QED BY <3>1 DEF PollingInv, NoPolling, EndKnown
  <2>4. MemoryInv' /\ FinishedScanIsComplete'
    BY DEF MemoryInv, FinishedScanIsComplete, TxsBefore
  <2>5. \A t \in Txs : TxBlock[t] < NextBlock => t <= sent
    BY WindowArithmetic, WindowIsSent, LedgerTypes
  <2>6. ProgressInv'
    BY <2>5 DEF ProgressInv
  <2> QED BY <2>1, <2>2, <2>3, <2>4, <2>6 DEF ScanInv
<1>11. CASE FinalizeBlock
  BY <1>0, <1>11, ScanInvUnchanged DEF FinalizeBlock, ScanTypeOK
<1>12. CASE Cancel
  BY <1>0, <1>12, ScanInvUnchanged DEF Cancel, ScanTypeOK
<1>13. CASE TakeHash
  <2>1. hashChan' \in Seq(Txs)
    BY <1>0, <1>13 DEF TakeHash, ScanTypeOK
  <2> QED BY <1>0, <1>13, <2>1, ScanInvUnchanged DEF TakeHash, ScanTypeOK
<1>14. CASE CloseHashRx
  <2>1. /\ hashChan' = <<>> /\ hashRxOpen' = FALSE
        /\ tip' = tip /\ cancelled' = cancelled /\ UNCHANGED scanVars
    BY <1>14 DEF CloseHashRx
  <2>2. hashChan' \in Seq(Txs)
    BY <2>1, EmptySeq
  <2>3. tip' \in Nat /\ tip' >= tip
    BY <1>0, <2>1 DEF ScanTypeOK
  <2>4. cancelled' \in BOOLEAN /\ (cancelled => cancelled') /\ hashRxOpen' \in BOOLEAN
    BY <1>0, <2>1, Zenon DEF ScanTypeOK
  <2> QED BY <2>1, <2>2, <2>3, <2>4, ScanInvUnchanged
<1>15. CASE UNCHANGED vars
  BY <1>0, <1>15, ScanInvUnchanged DEF vars, ScanTypeOK
<1> QED
  BY <1>1, <1>2, <1>3, <1>4, <1>5, <1>6, <1>7, <1>8, <1>9, <1>10, <1>11, <1>12,
     <1>13, <1>14, <1>15 DEF ScanNext, ScanStep

\* The inductive invariant holds of every behaviour of the main handler.
THEOREM ScanInvHolds == ScanSpec => []ScanInv
BY ScanInitInv, ScanInvStep, PTL DEF ScanSpec

\* Every variable of the main handler keeps its type.
THEOREM ScanTypesHold == ScanSpec => []ScanTypeOK
<1>1. ScanInv => ScanTypeOK
  BY DEF ScanInv
<1> QED BY <1>1, ScanInvHolds, PTL

\* assert!(!disable_polling) fails only for a caller that starts the handler
\* past the end block.
THEOREM OnlyTheCallerIsToBlame == ScanSpec => []AssertBlamesCaller
<1>1. ScanInv => AssertBlamesCaller
  BY DEF ScanInv, PollingInv, AssertBlamesCaller
<1> QED BY <1>1, ScanInvHolds, PTL

\* A handler that finishes by itself has sent every commit up to its end block.
THEOREM ScansAreComplete == ScanSpec => []FinishedScanIsComplete
<1>1. ScanInv => FinishedScanIsComplete
  BY DEF ScanInv
<1> QED BY <1>1, ScanInvHolds, PTL

\* Initial states and steps of the handler are those of the abstract feed.
LEMMA FeedInitMapped == ScanInit => Feed!FeedInit
BY DEF ScanInit, ScannerInit, Feed!FeedInit, TxsBefore, Feed!TxsBefore, Txs,
       Feed!Txs

\* Every step of the handler is a step of TxFeed or a stutter.
LEMMA FeedStepMapped ==
  ScanInv /\ [ScanNext]_vars => [Feed!Forward \/ Feed!Finalize]_(Feed!feedVars)
<1> SUFFICES ASSUME ScanInv, [ScanNext]_vars
             PROVE  [Feed!Forward \/ Feed!Finalize]_(Feed!feedVars)
  OBVIOUS
<1>1. CASE SendHash
  <2>1. sent' = sent + 1 /\ sent + 1 \in Txs
    BY <1>1, SendsTheNext, LedgerTypes DEF SendHash
  <2>2. sent < NumTxs
    BY <2>1, LedgerTypes DEF Txs, ScanInv, ScanTypeOK
  <2>3. Feed!Forward
    BY <1>1, <2>1, <2>2, SendsTheNext DEF SendHash, Feed!Forward
  <2> QED BY <2>3
<1>2. CASE FinalizeBlock
  <2>1. Feed!Finalize
    BY <1>2 DEF FinalizeBlock, Feed!Finalize, ScanInv, ScanTypeOK, scanVars
  <2> QED BY <2>1
<1>3. CASE ~SendHash /\ ~FinalizeBlock
  <2>1. UNCHANGED Feed!feedVars
    BY <1>3
       DEF ScanNext, ScanStep, StopCancelled, LearnEndBlock, WaitForUpstream,
           PollingAssertFails, ReceiveLogs, SkipLog, SendHashFails, FinishScan,
           Advance, Cancel, TakeHash, CloseHashRx, scanVars, vars, Feed!feedVars
  <2> QED BY <2>1
<1> QED BY <1>1, <1>2, <1>3

\* The main handler implements the abstract feed: the commits of the finalized
\* chain from the starting block on, each once and in order.
THEOREM HandlerImplementsFeed == ScanSpec => FeedImplemented
BY ScanInvHolds, FeedInitMapped, FeedStepMapped, PTL
   DEF ScanSpec, FeedImplemented, Feed!FeedSpec

-----------------------------------------------------------------------------
(***************************************************************************)
(* The search for the L1 block of a batch, for every ledger, window and    *)
(* chain length.                                                           *)
(*                                                                         *)
(* The bounds of a binary search usually exclude a block each.  Here the   *)
(* lower one excludes a whole window, or nothing while it is the genesis   *)
(* block, and the upper one excludes itself, or nothing while it is the    *)
(* tip; this is BoundsInv, and it is what makes the early end of the loop, *)
(* before the last block between the bounds is probed, sound.              *)
(***************************************************************************)
\* While the search goes on a block is left between the bounds, and the block
\* of the target is not among those that the bounds exclude.
BoundsInv ==
  searchPc = "searching" =>
    /\ upper - lower >= 2
    /\ TargetIsOnChain =>
         /\ lower = Genesis \/ lower + Step < BlockOf(target)
         /\ upper = searchTip \/ BlockOf(target) < upper

SearchInv ==
  SearchTypeOK /\ Genesis <= lower /\ searchTip <= head /\ BoundsInv /\ MissingIsHonest

-----------------------------------------------------------------------------
\* The block of every batch is a natural number, and later batches are not in
\* earlier blocks.
LEMMA BlockFacts ==
  /\ \A b \in Batches : BlockOf(b) \in Nat
  /\ \A a, b \in Batches : a <= b => BlockOf(a) <= BlockOf(b)
BY LedgerAssumption DEF BlockOf, Batches, Txs

\* The middle of two blocks at least two apart lies strictly between them.
LEMMA MiddleBetween ==
  ASSUME NEW l \in Nat, NEW u \in Nat, u - l >= 2
  PROVE  Middle(l, u) \in Nat /\ l < Middle(l, u) /\ Middle(l, u) < u
BY DEF Middle

\* The middle of two bounds lies between them.
LEMMA MiddleWithin ==
  ASSUME NEW l \in Nat, NEW u \in Nat, l <= u
  PROVE  Middle(l, u) \in Nat /\ l <= Middle(l, u) /\ Middle(l, u) <= u
BY DEF Middle

\* A probe that finds an earlier batch and not the target leaves the target
\* behind its window.
LEMMA HigherIsBehindTheWindow ==
  ASSUME SearchInv, TargetIsHigher, TargetIsOnChain
  PROVE  current + Step < BlockOf(target)
<1>1. PICK b \in Batches : b \in Seen /\ b < target
  BY DEF TargetIsHigher, Seen
<1>2. current <= BlockOf(b) /\ target \in Batches /\ target \notin Seen
      /\ BlockOf(target) <= head
  BY <1>1, BlockFacts DEF Seen, TargetIsHigher, TargetIsOnChain, SearchInv, SearchTypeOK
<1>3. BlockOf(b) <= BlockOf(target) /\ BlockOf(b) \in Nat /\ BlockOf(target) \in Nat
  BY <1>1, <1>2, BlockFacts DEF Batches
<1> QED BY <1>2, <1>3, SearchAssumption DEF Seen, SearchInv, SearchTypeOK

\* A probe that finds a later batch and neither an earlier one nor the target
\* leaves the target before its window.
LEMMA LowerIsBeforeTheWindow ==
  ASSUME SearchInv, TargetIsLower, TargetIsOnChain
  PROVE  BlockOf(target) < current
<1>1. PICK b \in Batches : b \in Seen /\ b > target
  BY DEF TargetIsLower, Seen
<1>2. BlockOf(b) <= current + Step /\ target \in Batches /\ target \notin Seen
      /\ BlockOf(target) <= head
  BY <1>1, BlockFacts DEF Seen, TargetIsLower, TargetIsOnChain, SearchInv, SearchTypeOK
<1>3. BlockOf(target) <= BlockOf(b) /\ BlockOf(b) \in Nat /\ BlockOf(target) \in Nat
  BY <1>1, <1>2, BlockFacts DEF Batches
<1> QED BY <1>2, <1>3, SearchAssumption DEF Seen, SearchInv, SearchTypeOK

-----------------------------------------------------------------------------
\* The first bounds satisfy the invariant.
LEMMA SearchInitInv == SearchInit => SearchInv
<1> SUFFICES ASSUME SearchInit PROVE SearchInv
  OBVIOUS
<1>1. /\ target \in Nat /\ head \in Nat /\ searchTip \in Nat /\ Genesis \in Nat
      /\ searchTip - Genesis >= 2 /\ searchTip <= head
      /\ lower = Genesis /\ upper = searchTip /\ current = Middle(Genesis, searchTip)
      /\ searchPc = "searching" /\ stop = FALSE
  BY SearchAssumption, LedgerAssumption DEF SearchInit
<1>2. Middle(Genesis, searchTip) \in Nat /\ Genesis < Middle(Genesis, searchTip)
      /\ Middle(Genesis, searchTip) < searchTip
  BY <1>1, MiddleBetween
<1>3. SearchTypeOK
  <2> DEFINE m == Middle(Genesis, searchTip)
  <2>1. m \in Nat /\ Genesis < m /\ m < searchTip /\ current = m
    BY <1>1, <1>2
  <2>2. current \in Nat /\ lower <= current /\ current <= upper /\ upper <= searchTip
    BY <1>1, <2>1
  <2>3. stop \in BOOLEAN
    BY <1>1
  <2> QED BY <1>1, <2>2, <2>3 DEF SearchTypeOK
<1>4. BoundsInv /\ MissingIsHonest
  BY <1>1 DEF BoundsInv, MissingIsHonest
<1>5. Genesis <= lower /\ searchTip <= head
  BY <1>1
<1> QED BY <1>3, <1>4, <1>5 DEF SearchInv

\* Each iteration keeps the invariant.
LEMMA SearchInvStep == SearchInv /\ [SearchNext]_searchVars => SearchInv'
<1> SUFFICES ASSUME SearchInv, [SearchNext]_searchVars PROVE SearchInv'
  OBVIOUS
<1>0. /\ SearchTypeOK /\ Genesis <= lower /\ searchTip <= head /\ BoundsInv
      /\ MissingIsHonest /\ Genesis \in Nat /\ Step \in Nat \ {0}
      /\ (target \in Batches => BlockOf(target) \in Nat)
  BY SearchAssumption, BlockFacts DEF SearchInv
<1>1. CASE Found \/ FoundFails \/ StopSearch
  <2>1. UNCHANGED <<target, head, searchTip, lower, upper, current, stop>>
        /\ searchPc' \in {"found", "failed", "cancelled"}
    BY <1>1 DEF Found, FoundFails, StopSearch
  <2> QED BY <1>0, <2>1 DEF SearchInv, SearchTypeOK, BoundsInv, MissingIsHonest
<1>2. CASE GoHigher
  <2>1. /\ searchPc = "searching" /\ TargetIsHigher /\ lower' = current
        /\ current' = Middle(current, upper)
        /\ UNCHANGED <<target, head, searchTip, upper, stop>>
        /\ searchPc' = IF upper' - lower' <= 1 THEN "missing" ELSE "searching"
    BY <1>2 DEF GoHigher, EndTest
  <2>2. current' \in Nat /\ current <= current' /\ current' <= upper
    BY <1>0, <2>1, MiddleWithin DEF SearchTypeOK
  <2>3. SearchTypeOK' /\ (Genesis <= lower)' /\ (searchTip <= head)'
    BY <1>0, <2>1, <2>2 DEF SearchTypeOK
  <2>4. TargetIsOnChain' <=> TargetIsOnChain
    BY <2>1 DEF TargetIsOnChain
  <2>5. TargetIsOnChain => current + Step < BlockOf(target)
    BY <2>1, HigherIsBehindTheWindow
  <2>6. BoundsInv'
    BY <1>0, <2>1, <2>4, <2>5 DEF BoundsInv, SearchTypeOK
  <2>7. MissingIsHonest'
    <3> SUFFICES ASSUME upper - current <= 1, TargetIsOnChain PROVE FALSE
      BY <2>1, <2>4 DEF MissingIsHonest
    <3>1. current + Step < BlockOf(target) /\ BlockOf(target) <= upper
          /\ BlockOf(target) \in Nat
      BY <1>0, <2>1, <2>5 DEF BoundsInv, TargetIsOnChain, SearchTypeOK
    <3> QED BY <1>0, <3>1 DEF SearchTypeOK
  <2> QED BY <2>3, <2>6, <2>7 DEF SearchInv
<1>3. CASE GoLower
  <2>1. /\ searchPc = "searching" /\ TargetIsLower /\ upper' = current
        /\ current' = Middle(lower, current)
        /\ UNCHANGED <<target, head, searchTip, lower, stop>>
        /\ searchPc' = IF upper' - lower' <= 1 THEN "missing" ELSE "searching"
    BY <1>3 DEF GoLower, EndTest
  <2>2. current' \in Nat /\ lower <= current' /\ current' <= current
    BY <1>0, <2>1, MiddleWithin DEF SearchTypeOK
  <2>3. SearchTypeOK' /\ (Genesis <= lower)' /\ (searchTip <= head)'
    BY <1>0, <2>1, <2>2 DEF SearchTypeOK
  <2>4. TargetIsOnChain' <=> TargetIsOnChain
    BY <2>1 DEF TargetIsOnChain
  <2>5. TargetIsOnChain => BlockOf(target) < current
    BY <2>1, LowerIsBeforeTheWindow
  <2>6. BoundsInv'
    BY <1>0, <2>1, <2>4, <2>5 DEF BoundsInv, SearchTypeOK
  <2>7. MissingIsHonest'
    <3> SUFFICES ASSUME current - lower <= 1, TargetIsOnChain PROVE FALSE
      BY <2>1, <2>4 DEF MissingIsHonest
    <3>1. /\ BlockOf(target) < current /\ BlockOf(target) \in Nat
          /\ lower = Genesis \/ lower + Step < BlockOf(target)
          /\ Genesis < BlockOf(target)
      BY <1>0, <2>1, <2>5 DEF BoundsInv, TargetIsOnChain
    <3> QED BY <1>0, <3>1 DEF SearchTypeOK
  <2> QED BY <2>3, <2>6, <2>7 DEF SearchInv
<1>4. CASE LearnNothing
  <2>1. /\ UNCHANGED <<target, head, searchTip, lower, upper, current, stop>>
        /\ searchPc = "searching"
        /\ searchPc' = IF upper' - lower' <= 1 THEN "missing" ELSE "searching"
    BY <1>4 DEF LearnNothing, EndTest
  <2>2. searchPc' = "searching"
    BY <1>0, <2>1 DEF BoundsInv, SearchTypeOK
  <2> QED BY <1>0, <2>1, <2>2 DEF SearchInv, SearchTypeOK, BoundsInv, MissingIsHonest,
                                TargetIsOnChain
<1>5. CASE NewBlock
  <2>1. head' = head + 1
        /\ UNCHANGED <<target, searchTip, lower, upper, current, searchPc, stop>>
    BY <1>5 DEF NewBlock
  <2> QED BY <1>0, <2>1 DEF SearchInv, SearchTypeOK, BoundsInv, MissingIsHonest,
                          TargetIsOnChain
<1>6. CASE CancelSearch
  <2>1. stop' = TRUE
        /\ UNCHANGED <<target, head, searchTip, lower, upper, current, searchPc>>
    BY <1>6 DEF CancelSearch
  <2> QED BY <1>0, <2>1 DEF SearchInv, SearchTypeOK, BoundsInv, MissingIsHonest,
                          TargetIsOnChain
<1>7. CASE UNCHANGED searchVars
  BY <1>0, <1>7 DEF searchVars, SearchInv, SearchTypeOK, BoundsInv, MissingIsHonest,
                    TargetIsOnChain
<1> QED
  BY <1>1, <1>2, <1>3, <1>4, <1>5, <1>6, <1>7 DEF SearchNext, Probe

\* SearchInv is an inductive invariant of the search.
THEOREM SearchInvHolds == SearchSpec => []SearchInv
BY SearchInitInv, SearchInvStep, PTL DEF SearchSpec

\* The block probed next lies between the bounds, and the bounds within the
\* chain, for every ledger and window.
THEOREM SearchTypesHold == SearchSpec => []SearchTypeOK
<1>1. SearchInv => SearchTypeOK
  BY DEF SearchInv
<1> QED BY <1>1, SearchInvHolds, PTL

\* map_l1_batch_to_l1_block reports a batch as missing only if it is not in a
\* finalized block behind the genesis block, for every ledger and window.
THEOREM MissingBatchesAreMissing == SearchSpec => []MissingIsHonest
<1>1. SearchInv => MissingIsHonest
  BY DEF SearchInv
<1> QED BY <1>1, SearchInvHolds, PTL

-----------------------------------------------------------------------------
(***************************************************************************)
(* The pipeline.                                                           *)
(***************************************************************************)
\* The command line does not leave out batches of the chain.
StartsAtGenesis == \A b \in Batches : ConfigStart <= BlockOf(b)

USE DEF ParseOver

\* The last transaction before the block that the session started from.
StartTx == CHOOSE n \in 0..NumTxs : TxsBefore(n, startBlock)

\* The last transaction that the parse task took, or need not take.
Taken == IF parseTx = None THEN StartTx ELSE parseTx

\* Transactions are on their way in their order and without a gap: those in txChan
\* follow the one that was taken, then comes the one the tx task works on, and the
\* ones in hashChan end with the last one sent.
TxFlow ==
  /\ StartTx \in 0..NumTxs /\ TxsBefore(StartTx, startBlock)
  /\ StartTx <= Taken /\ Taken + Len(txChan) <= sent
  /\ \A i \in 1..Len(txChan) : txChan[i] = Taken + i
  /\ txPc # "done" /\ ~ParseOver =>
       /\ \A i \in 1..Len(hashChan) : hashChan[i] = sent - Len(hashChan) + i
       /\ txPc = "recv" => Taken + Len(txChan) + Len(hashChan) = sent
       /\ txPc # "recv" => /\ Taken + Len(txChan) + 1 + Len(hashChan) = sent
                           /\ txHash = Taken + Len(txChan) + 1
  /\ hashRxOpen <=> txPc # "done"
  /\ txPc \in {"fetch", "send"} => txHash \in Txs
  /\ ParseOver => txChan = <<>>
  /\ \A t \in Txs : StartTx < t /\ t <= sent => TxBlock[t] <= tip

\* The parse task is at some batch of its transaction, or behind the last one.
ParseInv ==
  /\ parseTx = None =>
       parsePc \in {"recv", "done"} /\ parseNext = 0 /\ sinkChan = <<>> /\ lastParsed = None
  /\ parseTx # None =>
       /\ StartTx < parseTx
       /\ \/ parseNext = FirstBatch(parseTx)
          \/ FirstBatch(parseTx) < parseNext /\ parseNext - 1 \in BatchesOf(parseTx)
       /\ parsePc = "parse" => parseNext = FirstBatch(parseTx)
       /\ parsePc = "recv" => TxBatchesSent
       /\ lastParsed # None => lastParsed <= TxBlock[parseTx]

\* Batches are on their way in their order; the next one for the processor is the
\* one after LATEST_L1_BATCH, or one below that, unless a tail was lost.
SinkInv ==
  /\ \A i \in 1..Len(sinkChan) : sinkChan[i] = parseNext - 1 - Len(sinkChan) + i
  /\ procPc \in {"recv", "done"} /\ parseTx # None /\ ~lostTail =>
       parseNext - Len(sinkChan) <= latestL1Batch + 1
  /\ procPc \in {"insert", "persist"} =>
       /\ parseTx # None
       /\ procBatch = parseNext - Len(sinkChan) - 1
       /\ procBatch \in Batches /\ latestL1Batch < procBatch
       /\ ~lostTail => procBatch = latestL1Batch + 1
  /\ procPc = "persist" => treeBatch = procBatch
  /\ ProcOver => sinkChan = <<>>
  /\ procPc = "done" => ParseOver

\* What lies before the start of a session, and before the start of the next one.
RunInv ==
  /\ lostTail \/ \A b \in Batches : BlockOf(b) < startBlock => b <= latestL1Batch
  /\ runPc \in {"running", "failed"} => lostTail \/ ResumeCovered
  /\ runPc \in {"stored", "exited"} =>
       /\ scanPc = "done" /\ txPc = "done" /\ parsePc = "done"
       /\ \/ lostTail
          \/ \A b \in Batches : BlockOf(b) < latestL1Block =>
               b <= latestL1Batch \/ (parseTx # None /\ b < parseNext)
  /\ runPc = "exited" => ProcOver

\* Without a cancellation or a panic of the parse task every task ends after the one
\* before it, with nothing left to take.
EndInv ==
  Unmined = {} /\ ~cancelled /\ parsePc # "panicked" =>
    /\ txPc = "done" => ScanOver /\ Taken + Len(txChan) = sent
    /\ parsePc = "done" => /\ txPc = "done"
                           /\ parseTx # None => TxBatchesSent

PipeInv ==
  ScanInv /\ PipeTypeOK /\ TxFlow /\ ParseInv /\ SinkInv /\ RunInv /\ EndInv

-----------------------------------------------------------------------------
\* The least batch of a transaction.
LEMMA FirstBatchIsFirst ==
  ASSUME NEW t \in Txs
  PROVE  /\ FirstBatch(t) \in Batches /\ BatchTx[FirstBatch(t)] = t
         /\ \A b \in Batches : BatchTx[b] = t => FirstBatch(t) <= b
<1> DEFINE Upto == {1..b : b \in BatchesOf(t)}
           less == StrictSubsetOrdering(Batches)
<1>1. BatchesOf(t) \subseteq Batches /\ BatchesOf(t) \subseteq Nat /\ BatchesOf(t) # {}
  BY LedgerTypes, LedgerAssumption DEF BatchesOf
<1>2. IsFiniteSet(Batches)
  BY FS_Interval, LedgerTypes DEF Batches
<1>3. Upto \subseteq FiniteSubsetsOf(Batches) /\ Upto # {}
  <2>1. ASSUME NEW b \in BatchesOf(t) PROVE 1..b \in SUBSET Batches
    BY <1>1, LedgerTypes DEF Batches
  <2> QED BY <1>1, <1>2, <2>1, FS_Subset DEF FiniteSubsetsOf
<1>4. PICK u \in Upto : \A v \in Upto : <<v, u>> \notin less
  <2> HIDE DEF Upto, less
  <2>1. IsWellFoundedOn(less, FiniteSubsetsOf(Batches))
    BY <1>2, FS_StrictSubsetOrderingWellFounded DEF less
  <2> QED BY <1>3, <2>1, WFMin
<1>5. PICK b \in BatchesOf(t) : u = 1..b
  OBVIOUS
<1>6. ASSUME NEW c \in BatchesOf(t) PROVE b <= c
  <2> SUFFICES ASSUME c < b PROVE FALSE
    BY <1>1
  <2>1. 1..c \subseteq 1..b /\ 1..c # 1..b /\ 1..c \in SUBSET Batches /\ 1..b \in SUBSET Batches
    <3>1. b \in 1..b /\ b \notin 1..c
      BY <1>1 DEF Batches
    <3>2. b \in Batches /\ c \in Batches /\ NumBatches \in Nat
      BY <1>1, LedgerTypes
    <3>3. b \in 1..NumBatches /\ c \in 1..NumBatches
      BY ONLY <3>2 DEF Batches
    <3>4. 1..c \subseteq 1..b
      BY ONLY <3>2, <3>3, c < b
    <3>5. 1..c \in SUBSET Batches /\ 1..b \in SUBSET Batches
      BY ONLY <3>2, <3>3 DEF Batches
    <3> QED BY ONLY <3>1, <3>4, <3>5
  <2>2. <<1..c, 1..b>> \in less
    BY <2>1 DEF StrictSubsetOrdering
  <2> QED BY <1>4, <1>5, <2>2
<1>7. FirstBatch(t) \in BatchesOf(t) /\ \A c \in BatchesOf(t) : FirstBatch(t) <= c
  BY <1>6 DEF FirstBatch
<1> QED BY <1>7 DEF BatchesOf

\* Batches below the first one of a transaction belong to transactions before it,
\* and the other way round.
LEMMA BatchesBefore ==
  ASSUME NEW t \in Txs, NEW b \in Batches
  PROVE  b < FirstBatch(t) <=> BatchTx[b] < t
<1>1. FirstBatch(t) \in Batches /\ BatchTx[FirstBatch(t)] = t
      /\ FirstBatch(t) \in Nat /\ b \in Nat /\ BatchTx[b] \in Nat /\ t \in Nat
      /\ (BatchTx[b] = t => FirstBatch(t) <= b)
  BY FirstBatchIsFirst, LedgerTypes
<1>2. b <= FirstBatch(t) => BatchTx[b] <= t
  BY <1>1, LedgerOrder
<1>3. FirstBatch(t) <= b => t <= BatchTx[b]
  BY <1>1, LedgerOrder
<1> QED BY <1>1, <1>2, <1>3

\* A run of batches of t that ends where another transaction begins, or at the end
\* of the ledger, is all there is of t.
LEMMA BatchesBehind ==
  ASSUME NEW t \in Txs, NEW n \in Nat, n - 1 \in BatchesOf(t), n \notin BatchesOf(t)
  PROVE  /\ \A b \in Batches : b < n <=> BatchTx[b] <= t
         /\ t + 1 \in Txs => FirstBatch(t + 1) = n
<1>1. n - 1 \in Batches /\ BatchTx[n - 1] = t /\ t \in Nat /\ NumBatches \in Nat
  BY LedgerTypes DEF BatchesOf
<1>2. \A b \in Batches : b \in Nat /\ BatchTx[b] \in Nat
  BY LedgerTypes
<1>3. n \in Batches => BatchTx[n] = t + 1
  <2> SUFFICES ASSUME n \in Batches PROVE BatchTx[n] = t + 1
    OBVIOUS
  <2>1. t <= BatchTx[n]
    BY <1>1, LedgerOrder
  <2>2. BatchTx[n] <= t + 1
    <3>1. n > 1
      BY <1>1 DEF Batches
    <3> QED BY <1>1, <3>1, LedgerAssumption
  <2>3. BatchTx[n] # t
    BY DEF BatchesOf
  <2> QED BY <1>1, <1>2, <2>1, <2>2, <2>3
<1>4. ASSUME NEW b \in Batches PROVE b < n <=> BatchTx[b] <= t
  <2>1. b < n => BatchTx[b] <= t
    BY <1>1, <1>2, LedgerOrder
  <2>2. ASSUME b >= n PROVE BatchTx[b] > t
    <3>1. n \in Batches
      BY <1>1, <1>2, <2>2 DEF Batches
    <3>2. BatchTx[n] <= BatchTx[b]
      BY <2>2, <3>1, LedgerOrder
    <3> QED BY <1>1, <1>2, <1>3, <3>1, <3>2
  <2> QED BY <1>1, <1>2, <2>1, <2>2
<1>5. ASSUME t + 1 \in Txs PROVE FirstBatch(t + 1) = n
  <2>1. /\ FirstBatch(t + 1) \in Batches /\ BatchTx[FirstBatch(t + 1)] = t + 1
        /\ \A b \in Batches : BatchTx[b] = t + 1 => FirstBatch(t + 1) <= b
    BY <1>5, FirstBatchIsFirst
  <2>2. n <= FirstBatch(t + 1)
    BY <1>1, <1>2, <1>4, <2>1
  <2>3. n \in Batches
    BY <1>1, <1>2, <2>1, <2>2 DEF Batches
  <2>4. FirstBatch(t + 1) <= n
    BY <1>3, <2>1, <2>3
  <2> QED BY <1>2, <2>1, <2>2, <2>4
<1> QED BY <1>4, <1>5

\* There is one last transaction before a block.
LEMMA StartTxIsUnique ==
  ASSUME NEW n \in 0..NumTxs, TxsBefore(n, startBlock)
  PROVE  StartTx = n
<1> DEFINE m == StartTx
<1>1. m \in 0..NumTxs /\ TxsBefore(m, startBlock)
  BY DEF StartTx
<1>2. \A t \in Txs : t <= m <=> t <= n
  BY <1>1 DEF TxsBefore
<1> HIDE DEF m
<1>3. m = n
  BY <1>1, <1>2, LedgerTypes DEF Txs
<1> QED BY <1>3 DEF m

-----------------------------------------------------------------------------
\* What Head, Tail and Append do to a sequence, place by place.
LEMMA TailIsShifted ==
  ASSUME NEW S, NEW s \in Seq(S), s # <<>>
  PROVE  /\ Len(s) \in Nat \ {0} /\ Head(s) = s[1] /\ Head(s) \in S
         /\ Tail(s) \in Seq(S) /\ Len(Tail(s)) = Len(s) - 1
         /\ \A i \in 1..(Len(s) - 1) : Tail(s)[i] = s[i + 1]
BY HeadTailProperties, LenProperties, EmptySeq

\* A channel after a send.
LEMMA AppendIsLonger ==
  ASSUME NEW S, NEW s \in Seq(S), NEW e \in S
  PROVE  /\ Append(s, e) \in Seq(S) /\ Len(s) \in Nat
         /\ Len(Append(s, e)) = Len(s) + 1
         /\ \A i \in 1..Len(s) : Append(s, e)[i] = s[i]
         /\ Append(s, e)[Len(s) + 1] = e
BY AppendProperties, LenProperties

\* The empty channel.
LEMMA EmptyIsEmpty ==
  ASSUME NEW S
  PROVE  <<>> \in Seq(S) /\ Len(<<>>) = 0
BY EmptySeq

-----------------------------------------------------------------------------
\* A scanner that has not taken a step yet.
FreshScanner ==
  /\ tip \in Nat /\ cancelled = FALSE /\ startBlock \in Nat
  /\ ScannerInit(startBlock)

\* A new main handler satisfies the invariant of LogScanner.
LEMMA FreshScannerInv == FreshScanner => ScanInv
<1> SUFFICES ASSUME FreshScanner PROVE ScanInv
  OBVIOUS
<1> USE DEF FreshScanner, ScannerInit
<1>1. ScanTypeOK
  <2>1. hashChan \in Seq(Txs)
    <3>1. hashChan = <<>>
      OBVIOUS
    <3> HIDE DEF FreshScanner, ScannerInit
    <3> QED BY <3>1, EmptySeq
  <2>2. /\ nextLog \in 1..(NumBatches + 1) /\ latestBatch \in 0..NumBatches
        /\ sent \in 0..NumTxs /\ sends \in Nat
    BY LedgerTypes
  <2>3. /\ tip \in Nat /\ config \in Options /\ startBlock \in Nat /\ currentBlock \in Nat
        /\ cancelled \in BOOLEAN /\ hashRxOpen \in BOOLEAN
        /\ endBlock = None /\ previousHash = None /\ scanPc = "top"
    OBVIOUS
  <2> HIDE DEF FreshScanner, ScannerInit
  <2> QED BY <2>1, <2>2, <2>3 DEF ScanTypeOK
<1>2. EndKnown /\ PollingInv /\ MemoryInv
  BY <1>1 DEF EndKnown, PollingInv, MemoryInv, ScanTypeOK
<1>3. ProgressInv
  BY DEF ProgressInv, TxsBefore
<1>4. FinishedScanIsComplete
  BY DEF FinishedScanIsComplete
<1> QED BY <1>1, <1>2, <1>3, <1>4 DEF ScanInv

\* A session that has not taken a step yet, on whatever tree and database; what
\* lies before its start block is in the tree, unless a tail was lost.
FreshSession ==
  /\ FreshScanner
  /\ txPc = "recv" /\ txHash = None /\ txChan = <<>>
  /\ parsePc = "recv" /\ parseTx = None /\ parseNext = 0 /\ lastParsed = None
  /\ sinkChan = <<>>
  /\ procPc = "recv" /\ procBatch = 0 /\ runPc = "running"
  /\ treeBatch \in 0..NumBatches /\ latestL1Batch \in 0..treeBatch
  /\ latestL1Block \in 0..tip
  /\ lostTail \/ ResumeCovered
  /\ lostTail \/ \A b \in Batches : BlockOf(b) < startBlock => b <= latestL1Batch

\* A new session satisfies the invariant of the pipeline.
LEMMA FreshSessionInv == FreshSession => PipeInv
<1> SUFFICES ASSUME FreshSession PROVE PipeInv
  OBVIOUS
<1>1. ScanInv /\ ScanTypeOK
  BY FreshScannerInv DEF FreshSession, ScanInv
<1>2. /\ sent \in 0..NumTxs /\ TxsBefore(sent, startBlock) /\ hashChan = <<>>
      /\ hashRxOpen = TRUE /\ scanPc = "top" /\ cancelled = FALSE
  BY DEF FreshSession, FreshScanner, ScannerInit
<1>3. /\ txPc = "recv" /\ txHash = None /\ txChan = <<>>
      /\ parsePc = "recv" /\ parseTx = None /\ parseNext = 0 /\ lastParsed = None
      /\ sinkChan = <<>>
      /\ procPc = "recv" /\ procBatch = 0 /\ runPc = "running"
      /\ treeBatch \in 0..NumBatches /\ latestL1Batch \in 0..treeBatch
      /\ latestL1Block \in 0..tip
      /\ lostTail \/ ResumeCovered
      /\ lostTail \/ \A b \in Batches : BlockOf(b) < startBlock => b <= latestL1Batch
  BY DEF FreshSession
<1>4. /\ txChan \in Seq(Txs) /\ Len(txChan) = 0 /\ hashChan \in Seq(Txs) /\ Len(hashChan) = 0
      /\ sinkChan \in Seq(Batches) /\ Len(sinkChan) = 0
  BY <1>2, <1>3, EmptyIsEmpty
<1>5. StartTx = sent /\ Taken = sent
  BY <1>2, <1>3, StartTxIsUnique DEF Taken
<1>6. PipeTypeOK
  BY <1>1, <1>3, <1>4, LedgerTypes, ScannerAssumption DEF PipeTypeOK
<1>7. TxFlow
  <2>1. \A t \in Txs : ~(StartTx < t /\ t <= sent)
    BY <1>2, <1>5, LedgerTypes
  <2>2. sent \in Nat
    BY <1>2, LedgerTypes
  <2> QED BY <1>2, <1>3, <1>4, <1>5, <2>1, <2>2 DEF TxFlow
<1>8. ParseInv
  BY <1>3 DEF ParseInv
<1>9. SinkInv
  BY <1>3, <1>4 DEF SinkInv, ProcOver
<1>10. RunInv
  BY <1>3 DEF RunInv
<1>11. EndInv
  BY <1>3 DEF EndInv
<1> QED BY <1>1, <1>6, <1>7, <1>8, <1>9, <1>10, <1>11 DEF PipeInv

\* So does a session that a step has begun.
LEMMA FreshSessionInvNext == (FreshSession => PipeInv)'
BY FreshSessionInv, PTL

-----------------------------------------------------------------------------
\* What a step of the main handler does to the variables of the other tasks.
LEMMA ScanEffect ==
  ASSUME ScanInv, ScanStep
  PROVE  /\ ScanInv'
         /\ UNCHANGED <<tip, startBlock, hashRxOpen>>
         /\ cancelled => cancelled'
         /\ ~ScanOver
         /\ \/ UNCHANGED <<hashChan, sent>>
            \/ /\ hashRxOpen /\ sent + 1 \in Txs /\ sent' = sent + 1
               /\ hashChan' = Append(hashChan, sent + 1) /\ TxBlock[sent + 1] <= tip
<1>1. ScanInv'
  BY ScanInvStep DEF ScanNext
<1>2. CASE SendHash
  BY <1>1, <1>2, SendsTheNext, LedgerTypes DEF SendHash, ScanOver
<1>3. CASE ~SendHash
  BY <1>1, <1>3
     DEF ScanStep, StopCancelled, LearnEndBlock, WaitForUpstream, PollingAssertFails,
         ReceiveLogs, SkipLog, SendHashFails, FinishScan, Advance, ScanOver
<1> QED BY <1>2, <1>3

-----------------------------------------------------------------------------
\* The parts of the invariant that a step leaves alone.
LEMMA StartTxKept ==
  ASSUME UNCHANGED startBlock
  PROVE  StartTx' = StartTx
BY DEF StartTx, TxsBefore

\* TxFlow while the parse task works on a transaction, of which it may hand on batches.
LEMMA TxFlowKept ==
  ASSUME TxFlow, tip \in Nat, tip' \in Nat, tip' >= tip,
         startBlock' = startBlock, parseTx' = parseTx, txChan' = txChan, sent' = sent,
         hashChan' = hashChan, hashRxOpen' = hashRxOpen, txPc' = txPc, txHash' = txHash,
         ~ParseOver, ~ParseOver'
  PROVE  TxFlow'
<1> USE StartTxKept
<1>1. Taken' = Taken
  BY DEF Taken
<1>2. \A t \in Txs : TxBlock[t] \in Nat
  BY LedgerTypes
<1> QED BY <1>1, <1>2 DEF TxFlow

\* TxFlow while the chain may grow and nobody moves a transaction.
LEMMA TxFlowSame ==
  ASSUME TxFlow, tip \in Nat, tip' \in Nat, tip' >= tip,
         startBlock' = startBlock, parseTx' = parseTx, txChan' = txChan, sent' = sent,
         hashChan' = hashChan, hashRxOpen' = hashRxOpen, txPc' = txPc, txHash' = txHash,
         parsePc' = parsePc
  PROVE  TxFlow'
<1> USE StartTxKept
<1>1. Taken' = Taken
  BY DEF Taken
<1>2. \A t \in Txs : TxBlock[t] \in Nat
  BY LedgerTypes
<1> QED BY <1>1, <1>2 DEF TxFlow

\* ParseInv is kept by steps that leave the parse task and the sink alone.
LEMMA ParseInvKept ==
  ASSUME ParseInv, UNCHANGED startBlock, UNCHANGED parseVars, UNCHANGED sinkChan
  PROVE  ParseInv'
BY StartTxKept DEF ParseInv, parseVars, TxBatchesSent

\* SinkInv is kept by steps of the main handler, the tx task and L1.
LEMMA SinkInvKept ==
  ASSUME SinkInv, UNCHANGED parseVars, UNCHANGED sinkChan, UNCHANGED procVars,
         UNCHANGED lostTail
  PROVE  SinkInv'
BY DEF SinkInv, parseVars, procVars, ProcOver

\* RunInv is kept while run stores nothing and, once it has, no task moves.
LEMMA RunInvKept ==
  ASSUME RunInv, UNCHANGED startBlock, UNCHANGED procVars, UNCHANGED runVars,
         \/ UNCHANGED <<scanPc, txPc, parseVars>>
         \/ runPc \notin {"stored", "exited"}
  PROVE  RunInv'
<1>1. UNCHANGED <<startBlock, procPc, latestL1Batch, runPc, latestL1Block, lostTail>>
  BY DEF procVars, runVars
<1>2. ResumeCovered' <=> ResumeCovered
  BY <1>1 DEF ResumeCovered
<1> QED BY <1>1, <1>2 DEF RunInv, parseVars, ProcOver

\* EndInv is kept by steps that let no task take anything or return.
LEMMA EndInvKept ==
  ASSUME EndInv, UNCHANGED <<parseVars, txPc, txChan, scanPc, sent, startBlock>>,
         cancelled => cancelled'
  PROVE  EndInv'
<1>1. Taken' = Taken
  BY StartTxKept DEF Taken, parseVars
<1> QED BY <1>1 DEF EndInv, parseVars, ScanOver, TxBatchesSent

\* The types of what no step of the main handler, the tx task or L1 changes.
LEMMA BackTypesKept ==
  ASSUME PipeTypeOK, ScanTypeOK', tip' >= tip, UNCHANGED parseVars, UNCHANGED sinkChan,
         UNCHANGED procVars, UNCHANGED runVars,
         txPc' \in {"recv", "fetch", "send", "done"}, txHash' \in Txs \cup {None},
         txChan' \in Seq(Txs), Len(txChan') <= ChanCap
  PROVE  PipeTypeOK'
<1>1. tip \in Nat /\ tip' \in Nat
  BY DEF PipeTypeOK, ScanTypeOK
<1>2. UNCHANGED <<parsePc, parseTx, parseNext, lastParsed, sinkChan, procPc, procBatch,
                  treeBatch, latestL1Batch, runPc, latestL1Block>>
  BY DEF parseVars, procVars, runVars
<1>3. latestL1Block' \in 0..tip'
  BY <1>1, <1>2 DEF PipeTypeOK
<1> QED BY <1>2, <1>3 DEF PipeTypeOK

-----------------------------------------------------------------------------
\* The main handler, L1 and the user.
LEMMA MainKeeps == ASSUME PipeInv, MainStep PROVE PipeInv'
<1>1. /\ ScanInv /\ PipeTypeOK /\ TxFlow /\ ParseInv /\ SinkInv /\ RunInv /\ EndInv
      /\ runPc = "running" /\ ScanStep
      /\ UNCHANGED <<txVars, txChan, parseVars, sinkChan, procVars, runVars>>
  BY DEF PipeInv, MainStep, MainLocal, MainRemote, ScanStep
<1>2. /\ ScanInv' /\ UNCHANGED <<tip, startBlock, hashRxOpen>>
      /\ cancelled => cancelled'
      /\ ~ScanOver
      /\ \/ UNCHANGED <<hashChan, sent>>
         \/ /\ hashRxOpen /\ sent + 1 \in Txs /\ sent' = sent + 1
            /\ hashChan' = Append(hashChan, sent + 1) /\ TxBlock[sent + 1] <= tip
  BY <1>1, ScanEffect
<1>3. /\ UNCHANGED <<txPc, txHash, txChan, parsePc, parseTx>>
      /\ tip \in Nat /\ tip' \in Nat /\ tip' >= tip /\ sent \in Nat
      /\ hashChan \in Seq(Txs) /\ txPc \in {"recv", "fetch", "send", "done"}
  BY <1>1, <1>2, LedgerTypes DEF txVars, parseVars, ScanInv, ScanTypeOK, PipeTypeOK
<1>4. PipeTypeOK'
  <2>1. ScanTypeOK'
    BY <1>2 DEF ScanInv
  <2> QED BY <1>1, <1>3, <2>1, BackTypesKept DEF PipeTypeOK
<1>5. TxFlow'
  <2>1. CASE UNCHANGED <<hashChan, sent>>
    BY <1>1, <1>2, <1>3, <2>1, TxFlowSame
  <2>2. CASE /\ hashRxOpen /\ sent + 1 \in Txs /\ sent' = sent + 1
             /\ hashChan' = Append(hashChan, sent + 1) /\ TxBlock[sent + 1] <= tip
    <3>1. StartTx' = StartTx /\ Taken' = Taken
      BY <1>2, <1>3, StartTxKept DEF Taken
    <3>2. /\ Len(hashChan) \in Nat /\ Len(hashChan') = Len(hashChan) + 1
          /\ \A i \in 1..Len(hashChan) : hashChan'[i] = hashChan[i]
          /\ hashChan'[Len(hashChan) + 1] = sent + 1
      BY <1>3, <2>2, AppendIsLonger
    <3>3. StartTx \in Nat /\ Taken \in Nat /\ Len(txChan) \in Nat
      BY <1>1, LedgerTypes, LenProperties DEF TxFlow, PipeTypeOK, Taken
    <3>4. txPc # "done" /\ ~ParseOver =>
            /\ \A i \in 1..Len(hashChan') : hashChan'[i] = sent' - Len(hashChan') + i
            /\ txPc = "recv" => Taken + Len(txChan) + Len(hashChan') = sent'
            /\ txPc # "recv" => Taken + Len(txChan) + 1 + Len(hashChan') = sent'
      <4> SUFFICES ASSUME txPc # "done" /\ ~ParseOver PROVE
            /\ \A i \in 1..Len(hashChan') : hashChan'[i] = sent' - Len(hashChan') + i
            /\ txPc = "recv" => Taken + Len(txChan) + Len(hashChan') = sent'
            /\ txPc # "recv" => Taken + Len(txChan) + 1 + Len(hashChan') = sent'
        OBVIOUS
      <4>1. ASSUME NEW i \in 1..Len(hashChan')
            PROVE  hashChan'[i] = sent' - Len(hashChan') + i
        <5>1. i \in 1..Len(hashChan) \/ i = Len(hashChan) + 1
          BY <3>2
        <5>2. CASE i \in 1..Len(hashChan)
          BY <1>1, <1>3, <2>2, <3>2, <5>2 DEF TxFlow
        <5>3. CASE i = Len(hashChan) + 1
          BY <1>3, <2>2, <3>2, <5>3
        <5> QED BY <5>1, <5>2, <5>3
      <4>2. /\ txPc = "recv" => Taken + Len(txChan) + Len(hashChan') = sent'
            /\ txPc # "recv" => Taken + Len(txChan) + 1 + Len(hashChan') = sent'
        <5>1. /\ txPc = "recv" => Taken + Len(txChan) + Len(hashChan) = sent
              /\ txPc # "recv" => Taken + Len(txChan) + 1 + Len(hashChan) = sent
          BY <1>1 DEF TxFlow
        <5>2. /\ sent \in Nat /\ sent' = sent + 1 /\ Taken \in Nat /\ Len(txChan) \in Nat
              /\ Len(hashChan) \in Nat /\ Len(hashChan') = Len(hashChan) + 1
          BY <1>3, <2>2, <3>2, <3>3
        <5> QED BY ONLY <5>1, <5>2
      <4> QED BY <4>1, <4>2
    <3>5. \A t \in Txs : StartTx < t /\ t <= sent' => TxBlock[t] <= tip
      <4> TAKE t \in Txs
      <4>1. t <= sent' => t <= sent \/ t = sent + 1
        BY <1>3, <2>2, LedgerTypes
      <4> QED BY <1>1, <2>2, <4>1 DEF TxFlow
    <3>6. /\ Taken + Len(txChan) <= sent'
          /\ txPc # "done" /\ ~ParseOver /\ txPc # "recv" => txHash = Taken + Len(txChan) + 1
      <4>1. Taken + Len(txChan) <= sent /\ sent' = sent + 1
        BY <1>1, <2>2 DEF TxFlow
      <4>2. Taken + Len(txChan) <= sent'
        BY ONLY <1>3, <3>3, <4>1
      <4> QED BY <1>1, <4>2 DEF TxFlow
    <3>7. /\ StartTx \in 0..NumTxs /\ TxsBefore(StartTx, startBlock) /\ StartTx <= Taken
          /\ \A i \in 1..Len(txChan) : txChan[i] = Taken + i
          /\ hashRxOpen <=> txPc # "done"
          /\ txPc \in {"fetch", "send"} => txHash \in Txs
          /\ ParseOver => txChan = <<>>
      BY <1>1 DEF TxFlow
    <3> QED BY <1>2, <1>3, <2>2, <3>1, <3>4, <3>5, <3>6, <3>7 DEF TxFlow
  <2> QED BY <1>2, <2>1, <2>2
<1>6. ParseInv' /\ SinkInv' /\ RunInv'
  BY <1>1, <1>2, ParseInvKept, SinkInvKept, RunInvKept DEF runVars
<1>7. EndInv'
  BY <1>1, <1>2, <1>3 DEF EndInv
<1> QED BY <1>2, <1>4, <1>5, <1>6, <1>7 DEF PipeInv

\* The chain grows, the user interrupts.
LEMMA SurroundingsKeep == ASSUME PipeInv, FinalizeL1 \/ Sigint PROVE PipeInv'
<1>1. /\ ScanInv /\ PipeTypeOK /\ TxFlow /\ ParseInv /\ SinkInv /\ RunInv /\ EndInv
      /\ UNCHANGED <<txVars, txChan, parseVars, sinkChan, procVars, runVars>>
      /\ UNCHANGED <<hashChan, hashRxOpen, scanVars>>
      /\ cancelled => cancelled'
      /\ tip \in Nat
  BY DEF PipeInv, FinalizeL1, Sigint, FinalizeBlock, Cancel, ScanInv, ScanTypeOK
<1>2. tip' \in Nat /\ tip' >= tip /\ cancelled' \in BOOLEAN
  <2>1. cancelled \in BOOLEAN
    BY <1>1 DEF ScanInv, ScanTypeOK
  <2>2. CASE FinalizeL1
    <3>1. tip' = tip + 1 /\ cancelled' = cancelled
      BY <2>2 DEF FinalizeL1, FinalizeBlock
    <3> QED BY <1>1, <2>1, <3>1
  <2>3. CASE Sigint
    <3>1. tip' = tip /\ cancelled' = TRUE
      BY <2>3 DEF Sigint, Cancel
    <3> QED BY <1>1, <3>1
  <2> QED BY <2>2, <2>3
<1>3. ScanInv'
  BY <1>1, <1>2, ScanInvUnchanged DEF ScanInv, ScanTypeOK
<1>4. UNCHANGED <<txPc, txHash, parsePc, parseTx, startBlock, sent, scanPc, lostTail>>
  BY <1>1 DEF txVars, parseVars, scanVars, runVars
<1>5. PipeTypeOK'
  <2>1. ScanTypeOK'
    BY <1>3 DEF ScanInv
  <2> QED BY <1>1, <1>2, <1>4, <2>1, BackTypesKept DEF PipeTypeOK
<1>6. TxFlow'
  BY <1>1, <1>2, <1>4, TxFlowSame
<1>7. ParseInv' /\ SinkInv' /\ RunInv' /\ EndInv'
  BY <1>1, <1>4, ParseInvKept, SinkInvKept, RunInvKept, EndInvKept
<1> QED BY <1>3, <1>5, <1>6, <1>7 DEF PipeInv

-----------------------------------------------------------------------------
\* The tx task.  Its steps leave everything behind the parse task alone.
LEMMA TxFrame ==
  ASSUME PipeInv, UNCHANGED <<tip, cancelled, scanVars, parseVars, sinkChan, procVars, runVars>>,
         runPc \notin {"stored", "exited"},
         hashChan' \in Seq(Txs), hashRxOpen' \in BOOLEAN,
         txPc' \in {"recv", "fetch", "send", "done"}, txHash' \in Txs \cup {None},
         txChan' \in Seq(Txs), Len(txChan') <= ChanCap,
         TxFlow', EndInv'
  PROVE  PipeInv'
<1>1. /\ ScanInv /\ PipeTypeOK /\ ParseInv /\ SinkInv /\ RunInv /\ tip \in Nat
      /\ cancelled \in BOOLEAN /\ UNCHANGED <<tip, cancelled, startBlock, lostTail>>
  BY DEF PipeInv, ScanInv, ScanTypeOK, scanVars, runVars
<1>2. ScanInv'
  BY <1>1, ScanInvUnchanged
<1>3. PipeTypeOK'
  BY <1>1, <1>2, BackTypesKept DEF ScanInv
<1>4. ParseInv' /\ SinkInv' /\ RunInv'
  BY <1>1, ParseInvKept, SinkInvKept, RunInvKept
<1> QED BY <1>2, <1>3, <1>4 DEF PipeInv

\* The numbers and sequences of TxFlow.
LEMMA FlowTypes ==
  ASSUME PipeInv
  PROVE  /\ StartTx \in Nat /\ Taken \in Nat /\ sent \in Nat /\ tip \in Nat
         /\ txChan \in Seq(Txs) /\ hashChan \in Seq(Txs)
         /\ Len(txChan) \in Nat /\ Len(hashChan) \in Nat
         /\ txHash \in Txs \cup {None} /\ Len(txChan) <= ChanCap
         /\ txPc \in {"recv", "fetch", "send", "done"}
<1>1. /\ StartTx \in 0..NumTxs /\ parseTx \in Txs \cup {None} /\ sent \in 0..NumTxs /\ tip \in Nat
      /\ txChan \in Seq(Txs) /\ hashChan \in Seq(Txs)
      /\ txHash \in Txs \cup {None} /\ Len(txChan) <= ChanCap
      /\ txPc \in {"recv", "fetch", "send", "done"}
  BY DEF PipeInv, TxFlow, PipeTypeOK, ScanTypeOK
<1> QED BY <1>1, LedgerTypes, LenProperties DEF Taken

\* The next steps never run after the tasks are over.
LEMMA TasksBusy ==
  ASSUME PipeInv, txPc # "done" \/ parsePc # "done"
  PROVE  /\ runPc \notin {"stored", "exited"}
         /\ Unmined = {} /\ ~cancelled /\ parsePc # "panicked" => ~ParseOver
BY DEF PipeInv, RunInv, EndInv

\* The tx task takes a hash.
LEMMA TxRecvKeeps == ASSUME PipeInv, TxRecv PROVE PipeInv'
<1>1. /\ txPc = "recv" /\ hashChan # <<>> /\ txHash' = Head(hashChan) /\ hashChan' = Tail(hashChan)
      /\ txPc' = "fetch" /\ UNCHANGED <<tip, cancelled, hashRxOpen, scanVars, txChan, parseVars,
                                        sinkChan, procVars, runVars>>
  BY DEF TxRecv
<1>2. /\ UNCHANGED <<parsePc, parseTx, startBlock, sent>> /\ StartTx' = StartTx /\ Taken' = Taken
  BY <1>1, StartTxKept DEF parseVars, scanVars, Taken
<1>3. /\ Len(hashChan) \in Nat \ {0} /\ txHash' = hashChan[1] /\ txHash' \in Txs
      /\ hashChan' \in Seq(Txs) /\ Len(hashChan') = Len(hashChan) - 1
      /\ \A i \in 1..(Len(hashChan) - 1) : hashChan'[i] = hashChan[i + 1]
  BY <1>1, FlowTypes, TailIsShifted
<1>4. TxFlow'
  <2>1. ~ParseOver =>
          /\ \A i \in 1..Len(hashChan') : hashChan'[i] = sent - Len(hashChan') + i
          /\ Taken + Len(txChan) + 1 + Len(hashChan') = sent
          /\ txHash' = Taken + Len(txChan) + 1
    <3> SUFFICES ASSUME ~ParseOver PROVE
          /\ \A i \in 1..Len(hashChan') : hashChan'[i] = sent - Len(hashChan') + i
          /\ Taken + Len(txChan) + 1 + Len(hashChan') = sent
          /\ txHash' = Taken + Len(txChan) + 1
      OBVIOUS
    <3>1. /\ \A i \in 1..Len(hashChan) : hashChan[i] = sent - Len(hashChan) + i
          /\ Taken + Len(txChan) + Len(hashChan) = sent
      BY <1>1 DEF PipeInv, TxFlow
    <3>2. ASSUME NEW i \in 1..Len(hashChan') PROVE hashChan'[i] = sent - Len(hashChan') + i
      <4>1. i + 1 \in 1..Len(hashChan) /\ i \in 1..(Len(hashChan) - 1)
        BY <1>3
      <4>2. hashChan'[i] = sent - Len(hashChan) + (i + 1)
        BY <1>3, <3>1, <4>1
      <4>3. /\ sent \in Nat /\ i \in Int
            /\ Len(hashChan) \in Nat /\ Len(hashChan') = Len(hashChan) - 1
        BY <1>3, <4>1, FlowTypes
      <4> QED BY ONLY <4>2, <4>3
    <3>3. /\ Taken + Len(txChan) + 1 + Len(hashChan') = sent
          /\ txHash' = Taken + Len(txChan) + 1
      <4>1. /\ Len(hashChan) \in Nat \ {0} /\ Len(hashChan') = Len(hashChan) - 1
            /\ Taken \in Nat /\ Len(txChan) \in Nat /\ sent \in Nat
        BY <1>3, FlowTypes
      <4>2. txHash' = sent - Len(hashChan) + 1
        BY <1>3, <3>1
      <4>3. Taken + Len(txChan) + Len(hashChan) = sent
        BY <3>1
      <4> QED BY ONLY <4>1, <4>2, <4>3
    <3> QED BY <3>2, <3>3
  <2>2. /\ StartTx \in 0..NumTxs /\ TxsBefore(StartTx, startBlock)
        /\ StartTx <= Taken /\ Taken + Len(txChan) <= sent
        /\ \A i \in 1..Len(txChan) : txChan[i] = Taken + i
        /\ hashRxOpen
        /\ ParseOver => txChan = <<>>
        /\ \A t \in Txs : StartTx < t /\ t <= sent => TxBlock[t] <= tip
    BY <1>1 DEF PipeInv, TxFlow
  <2> QED BY <1>1, <1>2, <1>3, <2>1, <2>2 DEF TxFlow
<1>5. EndInv'
  BY <1>1, <1>2, TasksBusy DEF EndInv
<1> QED BY <1>1, <1>3, <1>4, <1>5, FlowTypes, TasksBusy, TxFrame DEF PipeInv, ScanInv, ScanTypeOK

\* The tx task returns.
LEMMA TxReturnKeeps ==
  ASSUME PipeInv, TxReturn, txPc # "done",
         Unmined = {} /\ ~cancelled /\ parsePc # "panicked" =>
           ScanOver /\ Taken + Len(txChan) = sent
  PROVE  PipeInv'
<1>1. /\ txPc' = "done" /\ hashRxOpen' = FALSE /\ hashChan' = <<>>
      /\ UNCHANGED <<tip, cancelled, scanVars, txHash, txChan, parseVars, sinkChan,
                     procVars, runVars>>
  BY DEF TxReturn
<1>2. /\ UNCHANGED <<parsePc, parseTx, startBlock, sent, scanPc>> /\ StartTx' = StartTx
      /\ Taken' = Taken
  BY <1>1, StartTxKept DEF parseVars, scanVars, Taken
<1>3. hashChan' \in Seq(Txs)
  BY <1>1, EmptyIsEmpty
<1>4. TxFlow'
  <2>1. /\ StartTx \in 0..NumTxs /\ TxsBefore(StartTx, startBlock)
        /\ StartTx <= Taken /\ Taken + Len(txChan) <= sent
        /\ \A i \in 1..Len(txChan) : txChan[i] = Taken + i
        /\ ParseOver => txChan = <<>>
        /\ \A t \in Txs : StartTx < t /\ t <= sent => TxBlock[t] <= tip
    BY DEF PipeInv, TxFlow
  <2> QED BY <1>1, <1>2, <2>1 DEF TxFlow
<1>5. EndInv'
  <2>1. Unmined = {} /\ ~cancelled /\ parsePc # "panicked" => parsePc # "done"
    BY TasksBusy
  <2> QED BY <1>1, <1>2, <2>1 DEF EndInv, ScanOver
<1> QED BY <1>1, <1>3, <1>4, <1>5, FlowTypes, TasksBusy, TxFrame

\* All steps of the tx task.
LEMMA TxKeeps == ASSUME PipeInv, TxLocal \/ TxFetched PROVE PipeInv'
<1>1. CASE TxRecv
  BY <1>1, TxRecvKeeps
<1>2. CASE TxEnd
  <2>1. txPc = "recv" /\ hashChan = <<>> /\ ScanOver /\ TxReturn
    BY <1>2 DEF TxEnd
  <2>2. Unmined = {} /\ ~cancelled /\ parsePc # "panicked" => Taken + Len(txChan) = sent
    <3>1. Len(hashChan) = 0
      BY <2>1
    <3>2. ~ParseOver => Taken + Len(txChan) + Len(hashChan) = sent
      BY <2>1 DEF PipeInv, TxFlow
    <3> QED BY <2>1, <3>1, <3>2, TasksBusy, FlowTypes
  <2> QED BY <2>1, <2>2, TxReturnKeeps
<1>3. CASE TxGiveUp
  BY <1>3, TxReturnKeeps DEF TxGiveUp
<1>4. CASE TxSendFails
  BY <1>4, TxReturnKeeps, TasksBusy DEF TxSendFails
<1>5. CASE TxFetched
  <2>1. /\ txPc = "fetch" /\ txPc' = "send"
        /\ UNCHANGED <<vars, txHash, txChan, parseVars, sinkChan, procVars, runVars>>
    BY <1>5 DEF TxFetched
  <2>2. /\ UNCHANGED <<tip, cancelled, hashChan, hashRxOpen, scanVars>>
        /\ UNCHANGED <<parsePc, parseTx, startBlock, sent>>
        /\ StartTx' = StartTx /\ Taken' = Taken
    BY <2>1, StartTxKept DEF vars, scanVars, parseVars, Taken
  <2>3. TxFlow'
    BY <2>1, <2>2 DEF PipeInv, TxFlow
  <2>4. EndInv'
    BY <2>1, <2>2, TasksBusy DEF EndInv
  <2>5. hashRxOpen' \in BOOLEAN /\ hashChan' \in Seq(Txs)
    BY <2>2 DEF PipeInv, ScanInv, ScanTypeOK
  <2> QED BY <2>1, <2>2, <2>3, <2>4, <2>5, FlowTypes, TasksBusy, TxFrame
<1>6. CASE TxSend
  <2>1. /\ txPc = "send" /\ ~ParseOver /\ Len(txChan) < ChanCap
        /\ txChan' = Append(txChan, txHash) /\ txPc' = "recv"
        /\ UNCHANGED <<vars, txHash, parseVars, sinkChan, procVars, runVars>>
    BY <1>6 DEF TxSend
  <2>2. /\ UNCHANGED <<tip, cancelled, hashChan, hashRxOpen, scanVars>>
        /\ UNCHANGED <<parsePc, parseTx, startBlock, sent>>
        /\ StartTx' = StartTx /\ Taken' = Taken
    BY <2>1, StartTxKept DEF vars, scanVars, parseVars, Taken
  <2>3. txHash \in Txs
    BY <2>1 DEF PipeInv, TxFlow
  <2>4. /\ txChan' \in Seq(Txs) /\ Len(txChan') = Len(txChan) + 1
        /\ \A i \in 1..Len(txChan) : txChan'[i] = txChan[i]
        /\ txChan'[Len(txChan) + 1] = txHash
    BY <2>1, <2>3, FlowTypes, AppendIsLonger
  <2>5. TxFlow'
    <3>1. /\ StartTx \in 0..NumTxs /\ TxsBefore(StartTx, startBlock)
          /\ StartTx <= Taken
          /\ \A i \in 1..Len(txChan) : txChan[i] = Taken + i
          /\ \A i \in 1..Len(hashChan) : hashChan[i] = sent - Len(hashChan) + i
          /\ Taken + Len(txChan) + 1 + Len(hashChan) = sent
          /\ txHash = Taken + Len(txChan) + 1
          /\ hashRxOpen
          /\ \A t \in Txs : StartTx < t /\ t <= sent => TxBlock[t] <= tip
      BY <2>1 DEF PipeInv, TxFlow
    <3>2. /\ Taken + Len(txChan') <= sent
          /\ Taken + Len(txChan') + Len(hashChan) = sent
      BY <2>4, <3>1, FlowTypes
    <3>3. ASSUME NEW i \in 1..Len(txChan') PROVE txChan'[i] = Taken + i
      <4>1. i \in 1..Len(txChan) \/ i = Len(txChan) + 1
        BY <2>4, FlowTypes
      <4>2. CASE i \in 1..Len(txChan)
        BY <2>4, <3>1, <4>2
      <4>3. CASE i = Len(txChan) + 1
        <5>1. txChan'[i] = Taken + Len(txChan) + 1 /\ Taken \in Nat /\ Len(txChan) \in Nat
          BY <2>4, <3>1, <4>3, FlowTypes
        <5> QED BY ONLY <4>3, <5>1
      <4> QED BY <4>1, <4>2, <4>3
    <3> QED BY <2>1, <2>2, <3>1, <3>2, <3>3 DEF TxFlow
  <2>6. EndInv'
    BY <2>1, <2>2, TasksBusy DEF EndInv
  <2>7. hashRxOpen' \in BOOLEAN /\ hashChan' \in Seq(Txs) /\ Len(txChan') <= ChanCap
    <3>1. Len(txChan') <= ChanCap
      BY <2>1, <2>4, FlowTypes, ScannerAssumption
    <3> QED BY <2>2, <3>1 DEF PipeInv, ScanInv, ScanTypeOK
  <2> QED BY <2>1, <2>2, <2>4, <2>5, <2>6, <2>7, FlowTypes, TasksBusy, TxFrame
<1> QED BY <1>1, <1>2, <1>3, <1>4, <1>5, <1>6 DEF TxLocal

-----------------------------------------------------------------------------
\* The parse task.  Its steps leave the main handler, but for the cancellation, and
\* the processor alone.
LEMMA ParseFrame ==
  ASSUME PipeInv,
         UNCHANGED <<tip, hashChan, hashRxOpen, scanVars, txVars, procVars, runVars>>,
         parsePc # "done", cancelled' \in BOOLEAN, cancelled => cancelled',
         txChan' \in Seq(Txs), Len(txChan') <= ChanCap,
         parsePc' \in {"recv", "parse", "send", "done", "panicked"}, parseTx' \in Txs \cup {None},
         parseNext' \in 0..(NumBatches + 1), lastParsed' \in Nat \cup {None},
         sinkChan' \in Seq(Batches), Len(sinkChan') <= ChanCap,
         TxFlow', ParseInv', SinkInv', EndInv'
  PROVE  PipeInv'
<1>1. /\ ScanInv /\ PipeTypeOK /\ RunInv /\ tip \in Nat /\ runPc \notin {"stored", "exited"}
      /\ UNCHANGED <<tip, startBlock, txPc, txHash, procPc, procBatch, treeBatch,
                     latestL1Batch, latestL1Block, runPc>>
  BY TasksBusy DEF PipeInv, ScanInv, ScanTypeOK, scanVars, txVars, procVars, runVars
<1>2. ScanInv'
  BY <1>1, ScanInvUnchanged DEF ScanInv, ScanTypeOK
<1>3. PipeTypeOK'
  <2>1. ScanTypeOK'
    BY <1>2 DEF ScanInv
  <2>2. /\ txPc' \in {"recv", "fetch", "send", "done"} /\ txHash' \in Txs \cup {None}
        /\ procPc' \in {"recv", "insert", "persist", "done", "rejected"}
        /\ procBatch' \in 0..NumBatches /\ treeBatch' \in 0..NumBatches
        /\ latestL1Batch' \in 0..treeBatch' /\ latestL1Block' \in 0..tip'
        /\ runPc' \in {"running", "stored", "exited", "failed"}
    BY <1>1 DEF PipeTypeOK
  <2> QED BY <2>1, <2>2 DEF PipeTypeOK
<1>4. RunInv'
  BY <1>1, RunInvKept
<1> QED BY <1>2, <1>3, <1>4 DEF PipeInv

\* The numbers and sequences of ParseInv and SinkInv.
LEMMA ParseTypes ==
  ASSUME PipeInv
  PROVE  /\ parseTx \in Txs \cup {None} /\ parseNext \in Nat
         /\ parseNext \in 0..(NumBatches + 1) /\ lastParsed \in Nat \cup {None}
         /\ sinkChan \in Seq(Batches) /\ Len(sinkChan) \in Nat /\ Len(sinkChan) <= ChanCap
         /\ latestL1Batch \in Nat /\ treeBatch \in Nat /\ procBatch \in Nat
         /\ cancelled \in BOOLEAN
         /\ procPc \in {"recv", "insert", "persist", "done", "rejected"}
         /\ parsePc \in {"recv", "parse", "send", "done", "panicked"}
<1>1. /\ parseTx \in Txs \cup {None} /\ parseNext \in 0..(NumBatches + 1)
      /\ lastParsed \in Nat \cup {None}
      /\ sinkChan \in Seq(Batches) /\ Len(sinkChan) <= ChanCap
      /\ treeBatch \in 0..NumBatches /\ latestL1Batch \in 0..treeBatch
      /\ procBatch \in 0..NumBatches
      /\ cancelled \in BOOLEAN
      /\ procPc \in {"recv", "insert", "persist", "done", "rejected"}
      /\ parsePc \in {"recv", "parse", "send", "done", "panicked"}
  BY DEF PipeInv, PipeTypeOK, ScanTypeOK
<1> QED BY <1>1, LedgerTypes, LenProperties

\* While it works on a transaction there is one.
LEMMA ParseHasTx ==
  ASSUME PipeInv, parsePc \in {"parse", "send"}
  PROVE  /\ parseTx \in Txs /\ parseTx # None /\ StartTx < parseTx
         /\ FirstBatch(parseTx) \in BatchesOf(parseTx) /\ FirstBatch(parseTx) \in Nat
BY ParseTypes, FirstBatchIsFirst, LedgerTypes DEF PipeInv, ParseInv, BatchesOf

\* The parse task returns or is unwound.
LEMMA ParseReturnKeeps ==
  ASSUME PipeInv, ParseReturn \/ ParsePanics, ~ParseOver,
         cancelled' \in BOOLEAN, cancelled => cancelled',
         Unmined = {} /\ ~cancelled' /\ parsePc' # "panicked" =>
           txPc = "done" /\ txChan = <<>> /\ (parseTx # None => TxBatchesSent)
  PROVE  PipeInv'
<1>1. /\ parsePc' \in {"done", "panicked"} /\ txChan' = <<>>
      /\ UNCHANGED <<tip, hashChan, hashRxOpen, scanVars, txVars, parseTx, parseNext,
                     lastParsed, sinkChan, procVars, runVars>>
  BY DEF ParseReturn, ParsePanics, vars
<1>2. /\ UNCHANGED <<txPc, txHash, startBlock, sent, scanPc, procPc, procBatch, treeBatch,
                     latestL1Batch, lostTail>>
      /\ StartTx' = StartTx /\ Taken' = Taken
  BY <1>1, StartTxKept DEF txVars, scanVars, procVars, runVars, Taken
<1>3. txChan' \in Seq(Txs) /\ Len(txChan') = 0
  BY <1>1, EmptyIsEmpty
<1>4. TxFlow'
  <2>1. /\ StartTx \in 0..NumTxs /\ TxsBefore(StartTx, startBlock)
        /\ StartTx <= Taken /\ Taken + Len(txChan) <= sent
        /\ hashRxOpen <=> txPc # "done"
        /\ txPc \in {"fetch", "send"} => txHash \in Txs
        /\ \A t \in Txs : StartTx < t /\ t <= sent => TxBlock[t] <= tip
    BY DEF PipeInv, TxFlow
  <2>2. Taken + 0 <= sent /\ \A i \in 1..0 : FALSE
    BY <2>1, FlowTypes
  <2> QED BY <1>1, <1>2, <1>3, <2>1, <2>2 DEF TxFlow
<1>5. ParseInv'
  <2>1. parsePc' = "panicked" => parseTx # None
    BY ParseHasTx DEF ParseReturn, ParsePanics
  <2> QED BY <1>1, <1>2, <2>1 DEF PipeInv, ParseInv, TxBatchesSent
<1>6. SinkInv'
  BY <1>1, <1>2 DEF PipeInv, SinkInv, ProcOver
<1>7. EndInv'
  <2> SUFFICES ASSUME Unmined = {}, ~cancelled', parsePc' # "panicked" PROVE EndInv'
    BY DEF EndInv
  <2>1. txPc = "done" /\ txChan = <<>> /\ (parseTx # None => TxBatchesSent)
    OBVIOUS
  <2>2. ScanOver /\ Taken + Len(txChan) = sent
    BY <2>1 DEF PipeInv, EndInv
  <2>3. ScanOver' /\ (parseTx' # None => TxBatchesSent')
    BY <1>1, <1>2, <2>1, <2>2 DEF ScanOver, TxBatchesSent
  <2> QED BY <1>1, <1>2, <2>1, <2>2, <2>3 DEF EndInv
<1>8. Len(txChan') <= ChanCap
  BY <1>3, ScannerAssumption
<1>9. /\ parsePc' \in {"recv", "parse", "send", "done", "panicked"} /\ parseTx' \in Txs \cup {None}
      /\ parseNext' \in 0..(NumBatches + 1) /\ lastParsed' \in Nat \cup {None}
      /\ sinkChan' \in Seq(Batches) /\ Len(sinkChan') <= ChanCap
  BY <1>1, ParseTypes
<1> QED BY <1>1, <1>3, <1>4, <1>5, <1>6, <1>7, <1>8, <1>9, ParseFrame

\* The first batch of the transaction that comes next is where the last one ended,
\* or below the batch that the database expects.
LEMMA NextBatchFollows ==
  ASSUME PipeInv, parsePc = "recv", Taken + 1 \in Txs
  PROVE  /\ parseTx # None => FirstBatch(Taken + 1) = parseNext
         /\ parseTx = None /\ ~lostTail => FirstBatch(Taken + 1) <= latestL1Batch + 1
<1>1. CASE parseTx # None
  <2>1. parseTx \in Txs /\ Taken = parseTx
    BY <1>1, ParseTypes DEF Taken
  <2>2. parseNext \notin BatchesOf(parseTx)
    BY <1>1 DEF PipeInv, ParseInv, TxBatchesSent
  <2>3. parseNext - 1 \in BatchesOf(parseTx)
    BY <1>1, <2>1, <2>2, FirstBatchIsFirst DEF PipeInv, ParseInv, BatchesOf
  <2> QED BY <1>1, <2>1, <2>2, <2>3, ParseTypes, BatchesBehind
<1>2. CASE parseTx = None /\ ~lostTail
  <2> DEFINE n == FirstBatch(Taken + 1)
  <2>1. Taken = StartTx /\ StartTx \in Nat /\ latestL1Batch \in Nat
    BY <1>2, FlowTypes, ParseTypes DEF Taken
  <2>2. /\ n \in Batches /\ n \in Nat
        /\ \A b \in Batches : b < n <=> BatchTx[b] < Taken + 1
    BY FirstBatchIsFirst, BatchesBefore, LedgerTypes
  <2> HIDE DEF n
  <2>3. ASSUME n - 1 \in Batches PROVE n - 1 <= latestL1Batch
    <3>1. BatchTx[n - 1] < Taken + 1
      BY <2>2, <2>3
    <3>2. BatchTx[n - 1] \in Txs /\ BatchTx[n - 1] <= StartTx
      <4>1. BatchTx[n - 1] \in Txs /\ BatchTx[n - 1] \in Nat
        BY <2>3, LedgerTypes
      <4> QED BY <2>1, <3>1, <4>1
    <3>3. BlockOf(n - 1) < startBlock
      BY <3>2 DEF PipeInv, TxFlow, TxsBefore, BlockOf
    <3> QED BY <1>2, <2>3, <3>3 DEF PipeInv, RunInv
  <2>4. n = 1 \/ n - 1 \in Batches
    BY <2>2, LedgerTypes DEF Batches
  <2>5. n <= latestL1Batch + 1
    BY <2>1, <2>2, <2>3, <2>4
  <2> QED BY <1>2, <2>5 DEF n
<1> QED BY <1>1, <1>2

\* The parse task takes a transaction.
LEMMA ParseRecvKeeps == ASSUME PipeInv, ParseRecv PROVE PipeInv'
<1> DEFINE t == Head(txChan)
<1>1. /\ parsePc = "recv" /\ txChan # <<>> /\ parseTx' = t /\ parseNext' = FirstBatch(t)
      /\ txChan' = Tail(txChan) /\ parsePc' = "parse"
      /\ UNCHANGED <<vars, txVars, lastParsed, sinkChan, procVars, runVars>>
  BY DEF ParseRecv
<1>2. /\ UNCHANGED <<tip, cancelled, hashChan, hashRxOpen, scanVars, startBlock, sent, scanPc>>
      /\ UNCHANGED <<txPc, txHash, procPc, procBatch, treeBatch, latestL1Batch, lostTail>>
      /\ StartTx' = StartTx
  BY <1>1, StartTxKept DEF vars, txVars, scanVars, procVars, runVars
<1>3. /\ Len(txChan) \in Nat \ {0} /\ t = txChan[1] /\ t \in Txs
      /\ txChan' \in Seq(Txs) /\ Len(txChan') = Len(txChan) - 1
      /\ \A i \in 1..(Len(txChan) - 1) : txChan'[i] = txChan[i + 1]
  BY <1>1, FlowTypes, TailIsShifted
<1>4. t = Taken + 1
  BY <1>3 DEF PipeInv, TxFlow
<1>5. t # None /\ t \in Nat /\ FirstBatch(t) \in Nat /\ FirstBatch(t) \in 1..NumBatches
  BY <1>3, FirstBatchIsFirst, LedgerTypes DEF Batches
<1> HIDE DEF t
<1>6. Taken' = t
  BY <1>1, <1>5 DEF Taken
<1>7. TxFlow'
  <2>1. /\ StartTx \in 0..NumTxs /\ TxsBefore(StartTx, startBlock)
        /\ StartTx <= Taken /\ Taken + Len(txChan) <= sent
        /\ \A i \in 1..Len(txChan) : txChan[i] = Taken + i
        /\ hashRxOpen <=> txPc # "done"
        /\ txPc \in {"fetch", "send"} => txHash \in Txs
        /\ \A u \in Txs : StartTx < u /\ u <= sent => TxBlock[u] <= tip
    BY DEF PipeInv, TxFlow
  <2>2. txPc # "done" =>
          /\ \A i \in 1..Len(hashChan) : hashChan[i] = sent - Len(hashChan) + i
          /\ txPc = "recv" => Taken + Len(txChan) + Len(hashChan) = sent
          /\ txPc # "recv" => /\ Taken + Len(txChan) + 1 + Len(hashChan) = sent
                              /\ txHash = Taken + Len(txChan) + 1
    BY <1>1 DEF PipeInv, TxFlow
  <2>3. t + Len(txChan') = Taken + Len(txChan) /\ StartTx <= t
    BY <1>3, <1>4, <2>1, FlowTypes
  <2>4. ASSUME NEW i \in 1..Len(txChan') PROVE txChan'[i] = t + i
    <3>1. i + 1 \in 1..Len(txChan) /\ i \in 1..(Len(txChan) - 1)
      BY <1>3
    <3> QED BY <1>3, <1>4, <2>1, <3>1, FlowTypes
  <2> QED BY <1>1, <1>2, <1>6, <2>1, <2>2, <2>3, <2>4 DEF TxFlow
<1>8. ParseInv'
  <2>1. StartTx < t
    BY <1>4, FlowTypes DEF PipeInv, TxFlow
  <2>2. lastParsed # None => lastParsed <= TxBlock[t]
    <3> SUFFICES ASSUME lastParsed # None PROVE lastParsed <= TxBlock[t]
      OBVIOUS
    <3>1. parseTx # None /\ parseTx \in Txs /\ lastParsed <= TxBlock[parseTx]
      BY ParseTypes DEF PipeInv, ParseInv
    <3>2. TxBlock[parseTx] <= TxBlock[t]
      BY <1>3, <1>4, <3>1, LedgerTypes, LedgerAssumption DEF Taken
    <3> QED BY <1>3, <3>1, <3>2, LedgerTypes, ParseTypes
  <2> QED BY <1>1, <1>2, <1>5, <2>1, <2>2 DEF ParseInv
<1>9. SinkInv'
  <2>1. /\ parseTx # None => FirstBatch(t) = parseNext
        /\ parseTx = None /\ ~lostTail => FirstBatch(t) <= latestL1Batch + 1
    BY <1>1, <1>3, <1>4, NextBatchFollows
  <2>2. CASE parseTx # None
    <3>1. parseNext' = parseNext /\ sinkChan' = sinkChan /\ parseTx' # None
      BY <1>1, <1>5, <2>1, <2>2
    <3>2. procPc # "done"
      BY <1>1 DEF PipeInv, SinkInv
    <3> QED BY <1>2, <2>2, <3>1, <3>2 DEF PipeInv, SinkInv, ProcOver
  <2>3. CASE parseTx = None
    <3>1. sinkChan = <<>> /\ procPc \notin {"insert", "persist"}
      BY <2>3 DEF PipeInv, ParseInv, SinkInv
    <3>2. Len(sinkChan) = 0
      BY <3>1
    <3>3. procPc = "done" => ParseOver
      BY DEF PipeInv, SinkInv
    <3> QED BY <1>1, <1>2, <1>5, <2>1, <2>3, <3>1, <3>2, <3>3 DEF SinkInv, ProcOver
  <2> QED BY <2>2, <2>3
<1>10. EndInv'
  <2>1. Taken' + Len(txChan') = Taken + Len(txChan)
    BY <1>3, <1>4, <1>6, FlowTypes
  <2> QED BY <1>1, <1>2, <2>1 DEF PipeInv, EndInv, ScanOver
<1>11. /\ Len(txChan') <= ChanCap /\ parseNext' \in 0..(NumBatches + 1)
  BY <1>1, <1>3, <1>5, FlowTypes, ScannerAssumption, LedgerTypes
<1> QED BY <1>1, <1>2, <1>3, <1>7, <1>8, <1>9, <1>10, <1>11, ParseTypes, ParseFrame

\* The parse task hands on a batch.
LEMMA SinkSendKeeps == ASSUME PipeInv, SinkSend PROVE PipeInv'
<1>1. /\ parsePc = "send" /\ parseNext \in BatchesOf(parseTx) /\ ~ProcOver
      /\ Len(sinkChan) < ChanCap
      /\ sinkChan' = Append(sinkChan, parseNext) /\ parseNext' = parseNext + 1
      /\ UNCHANGED <<vars, txVars, txChan, parsePc, parseTx, lastParsed, procVars, runVars>>
  BY DEF SinkSend, TxBatchesSent
<1>2. /\ UNCHANGED <<tip, cancelled, hashChan, hashRxOpen, scanVars, startBlock, sent, scanPc>>
      /\ UNCHANGED <<txPc, txHash, procPc, procBatch, treeBatch, latestL1Batch, lostTail>>
      /\ StartTx' = StartTx
  BY <1>1, StartTxKept DEF vars, txVars, scanVars, procVars, runVars
<1>3. /\ parseTx \in Txs /\ parseTx # None /\ parseNext \in Batches /\ parseNext \in Nat
      /\ FirstBatch(parseTx) <= parseNext /\ FirstBatch(parseTx) \in Nat
      /\ parseNext \in 1..NumBatches /\ NumBatches \in Nat
  BY <1>1, ParseHasTx, FirstBatchIsFirst, LedgerTypes DEF BatchesOf, Batches
<1>4. /\ sinkChan' \in Seq(Batches) /\ Len(sinkChan') = Len(sinkChan) + 1
      /\ \A i \in 1..Len(sinkChan) : sinkChan'[i] = sinkChan[i]
      /\ sinkChan'[Len(sinkChan) + 1] = parseNext
  BY <1>1, <1>3, ParseTypes, AppendIsLonger
<1>5. TxFlow'
  BY <1>1, <1>2, TxFlowSame, FlowTypes DEF PipeInv
<1>6. ParseInv'
  BY <1>1, <1>2, <1>3 DEF PipeInv, ParseInv
<1>7. SinkInv'
  <2>1. /\ \A i \in 1..Len(sinkChan) : sinkChan[i] = parseNext - 1 - Len(sinkChan) + i
        /\ procPc \in {"recv", "done"} /\ ~lostTail =>
             parseNext - Len(sinkChan) <= latestL1Batch + 1
        /\ procPc \in {"insert", "persist"} =>
             /\ procBatch = parseNext - Len(sinkChan) - 1
             /\ procBatch \in Batches /\ latestL1Batch < procBatch
             /\ ~lostTail => procBatch = latestL1Batch + 1
        /\ procPc = "persist" => treeBatch = procBatch
    BY <1>3 DEF PipeInv, SinkInv
  <2>2. parseNext' - Len(sinkChan') = parseNext - Len(sinkChan)
    BY <1>1, <1>3, <1>4, ParseTypes
  <2>3. ASSUME NEW i \in 1..Len(sinkChan')
        PROVE  sinkChan'[i] = parseNext' - 1 - Len(sinkChan') + i
    <3>1. i \in 1..Len(sinkChan) \/ i = Len(sinkChan) + 1
      BY <1>4, ParseTypes
    <3>2. CASE i \in 1..Len(sinkChan)
      <4>1. sinkChan'[i] = parseNext - 1 - Len(sinkChan) + i
        BY <1>4, <2>1, <3>2
      <4> QED BY <1>1, <1>3, <1>4, <4>1, ParseTypes
    <3>3. CASE i = Len(sinkChan) + 1
      BY <1>1, <1>3, <1>4, <3>3, ParseTypes
    <3> QED BY <3>1, <3>2, <3>3
  <2> QED BY <1>1, <1>2, <1>3, <2>1, <2>2, <2>3 DEF SinkInv, ProcOver
<1>8. EndInv'
  <2>1. Taken' = Taken
    BY <1>1, <1>2 DEF Taken
  <2> QED BY <1>1, <1>2, <2>1 DEF PipeInv, EndInv, ScanOver
<1>9. /\ Len(sinkChan') <= ChanCap /\ parseNext' \in 0..(NumBatches + 1)
  BY <1>1, <1>3, <1>4, ParseTypes, ScannerAssumption
<1> QED BY <1>1, <1>2, <1>4, <1>5, <1>6, <1>7, <1>8, <1>9, ParseTypes, FlowTypes, ParseFrame

\* All steps of the parse task.
LEMMA ParseKeeps == ASSUME PipeInv, ParseStep PROVE PipeInv'
<1>1. CASE ParseRecv
  BY <1>1, ParseRecvKeeps
<1>2. CASE ParseStop
  <2>1. /\ parsePc = "recv" /\ txChan # <<>> /\ cancelled' = cancelled /\ ParseReturn
        /\ Unmined = {} => cancelled
    BY <1>2 DEF ParseStop
  <2> QED BY <2>1, ParseTypes, ParseReturnKeeps
<1>3. CASE ParseEnd
  <2>1. /\ parsePc = "recv" /\ txChan = <<>> /\ txPc = "done" /\ cancelled' = cancelled
        /\ ParseReturn
    BY <1>3 DEF ParseEnd
  <2>2. parseTx # None => TxBatchesSent
    BY <2>1 DEF PipeInv, ParseInv
  <2> QED BY <2>1, <2>2, ParseTypes, ParseReturnKeeps
<1>4. CASE ParseOk
  <2>1. /\ parsePc = "parse" /\ parsePc' = "send"
        /\ UNCHANGED <<vars, txVars, txChan, parseTx, parseNext, lastParsed, sinkChan,
                       procVars, runVars>>
    BY <1>4 DEF ParseOk
  <2>2. /\ UNCHANGED <<tip, cancelled, hashChan, hashRxOpen, scanVars, startBlock, sent, scanPc>>
        /\ UNCHANGED <<txPc, txHash, procPc, procBatch, treeBatch, latestL1Batch, lostTail>>
        /\ StartTx' = StartTx /\ Taken' = Taken
    BY <2>1, StartTxKept DEF vars, txVars, scanVars, procVars, runVars, Taken
  <2>3. TxFlow'
    BY <2>1, <2>2, FlowTypes, TxFlowKept DEF PipeInv
  <2>4. ParseInv' /\ SinkInv' /\ EndInv'
    BY <2>1, <2>2 DEF PipeInv, ParseInv, SinkInv, EndInv, ProcOver, ScanOver
  <2> QED BY <2>1, <2>2, <2>3, <2>4, FlowTypes, ParseTypes, ParseFrame
<1>5. CASE ParseFails
  BY <1>5, ParseReturnKeeps DEF ParseFails
<1>6. CASE ParseGiveUp
  <2>1. parsePc = "parse" /\ cancelled /\ cancelled' = cancelled /\ ParseReturn
    BY <1>6 DEF ParseGiveUp
  <2> QED BY <2>1, ParseTypes, ParseReturnKeeps
<1>7. CASE SinkSend
  BY <1>7, SinkSendKeeps
<1>8. CASE SinkSendFails
  BY <1>8, ParseReturnKeeps DEF SinkSendFails
<1>9. CASE ParseTxDone
  <2>1. /\ parsePc = "send" /\ TxBatchesSent /\ lastParsed' = TxBlock[parseTx] /\ parsePc' = "recv"
        /\ UNCHANGED <<vars, txVars, txChan, parseTx, parseNext, sinkChan, procVars, runVars>>
    BY <1>9 DEF ParseTxDone
  <2>2. /\ UNCHANGED <<tip, cancelled, hashChan, hashRxOpen, scanVars, startBlock, sent, scanPc>>
        /\ UNCHANGED <<txPc, txHash, procPc, procBatch, treeBatch, latestL1Batch, lostTail>>
        /\ StartTx' = StartTx /\ Taken' = Taken
    BY <2>1, StartTxKept DEF vars, txVars, scanVars, procVars, runVars, Taken
  <2>3. TxBlock[parseTx] \in Nat /\ parseTx # None
    BY <2>1, ParseHasTx, LedgerTypes
  <2>4. TxFlow'
    BY <2>1, <2>2, FlowTypes, TxFlowKept DEF PipeInv
  <2>5. ParseInv'
    BY <2>1, <2>2, <2>3 DEF PipeInv, ParseInv, TxBatchesSent
  <2>6. SinkInv' /\ EndInv'
    BY <2>1, <2>2 DEF PipeInv, SinkInv, EndInv, ProcOver, ScanOver
  <2> QED BY <2>1, <2>2, <2>3, <2>4, <2>5, <2>6, FlowTypes, ParseTypes, ParseFrame
<1>10. CASE ParsePanics
  <2>1. /\ parsePc = "parse" /\ parsePc' = "panicked" /\ cancelled' = cancelled
        /\ parseTx # None
    BY <1>10, ParseHasTx DEF ParsePanics, vars
  <2> QED BY <1>10, <2>1, ParseTypes, ParseReturnKeeps
<1> QED BY <1>1, <1>2, <1>3, <1>4, <1>5, <1>6, <1>7, <1>8, <1>9, <1>10 DEF ParseStep

-----------------------------------------------------------------------------
\* The processor.  Its steps leave everything before the sink alone.
LEMMA ProcFrame ==
  ASSUME PipeInv, UNCHANGED <<vars, txVars, txChan, parseVars, runVars>>,
         sinkChan' \in Seq(Batches), Len(sinkChan') <= ChanCap,
         parseTx = None => sinkChan' = <<>>,
         procPc' \in {"recv", "insert", "persist", "done", "rejected"},
         procBatch' \in 0..NumBatches, treeBatch' \in 0..NumBatches,
         latestL1Batch' \in 0..treeBatch', latestL1Batch' >= latestL1Batch,
         ProcOver => ProcOver',
         SinkInv'
  PROVE  PipeInv'
<1>1. /\ UNCHANGED <<tip, cancelled, hashChan, hashRxOpen, scanVars, startBlock, scanPc, sent>>
      /\ UNCHANGED <<txPc, txHash, txChan, parsePc, parseTx, parseNext, lastParsed>>
      /\ UNCHANGED <<runPc, latestL1Block, lostTail>>
      /\ StartTx' = StartTx
  BY StartTxKept DEF vars, scanVars, txVars, parseVars, runVars
<1>2. ScanInv' /\ ScanTypeOK'
  BY <1>1, ScanInvUnchanged DEF PipeInv, ScanInv, ScanTypeOK
<1>3. PipeTypeOK'
  <2>1. /\ txPc' \in {"recv", "fetch", "send", "done"} /\ txHash' \in Txs \cup {None}
        /\ txChan' \in Seq(Txs) /\ Len(txChan') <= ChanCap
        /\ parsePc' \in {"recv", "parse", "send", "done", "panicked"} /\ parseTx' \in Txs \cup {None}
        /\ parseNext' \in 0..(NumBatches + 1) /\ lastParsed' \in Nat \cup {None}
        /\ latestL1Block' \in 0..tip'
        /\ runPc' \in {"running", "stored", "exited", "failed"}
    BY <1>1 DEF PipeInv, PipeTypeOK
  <2> QED BY <1>2, <2>1 DEF PipeTypeOK
<1>4. TxFlow'
  BY <1>1, FlowTypes, TxFlowSame DEF PipeInv
<1>5. ParseInv'
  BY <1>1 DEF PipeInv, ParseInv, TxBatchesSent
<1>6. RunInv'
  <2>1. \A b \in Batches : b <= latestL1Batch => b <= latestL1Batch'
    BY ParseTypes, LedgerTypes
  <2>2. ResumeCovered => ResumeCovered'
    BY <1>1, <2>1 DEF ResumeCovered
  <2> QED BY <1>1, <2>1, <2>2 DEF PipeInv, RunInv
<1>7. EndInv'
  BY <1>1, EndInvKept DEF PipeInv, parseVars
<1> QED BY <1>2, <1>3, <1>4, <1>5, <1>6, <1>7 DEF PipeInv

\* What the head of the sink is, and what is left behind it.
LEMMA SinkHead ==
  ASSUME PipeInv, sinkChan # <<>>, sinkChan' = Tail(sinkChan), UNCHANGED parseVars
  PROVE  /\ parseTx # None /\ parseTx' = parseTx /\ parseNext' = parseNext
         /\ Head(sinkChan) \in Batches /\ Head(sinkChan) = parseNext - Len(sinkChan)
         /\ sinkChan' \in Seq(Batches) /\ Len(sinkChan') = Len(sinkChan) - 1
         /\ Len(sinkChan') <= ChanCap
         /\ \A i \in 1..Len(sinkChan') : sinkChan'[i] = parseNext' - 1 - Len(sinkChan') + i
<1>1. /\ Len(sinkChan) \in Nat \ {0} /\ Head(sinkChan) = sinkChan[1] /\ Head(sinkChan) \in Batches
      /\ sinkChan' \in Seq(Batches) /\ Len(sinkChan') = Len(sinkChan) - 1
      /\ \A i \in 1..(Len(sinkChan) - 1) : sinkChan'[i] = sinkChan[i + 1]
  BY ParseTypes, TailIsShifted
<1>2. /\ parseTx # None
      /\ \A i \in 1..Len(sinkChan) : sinkChan[i] = parseNext - 1 - Len(sinkChan) + i
  BY DEF PipeInv, ParseInv, SinkInv
<1>3. parseTx' = parseTx /\ parseNext' = parseNext
  BY DEF parseVars
<1>4. ASSUME NEW i \in 1..Len(sinkChan')
      PROVE  sinkChan'[i] = parseNext' - 1 - Len(sinkChan') + i
  <2>1. i + 1 \in 1..Len(sinkChan) /\ i \in 1..(Len(sinkChan) - 1)
    BY <1>1
  <2>2. sinkChan'[i] = parseNext - 1 - Len(sinkChan) + (i + 1)
    BY <1>1, <1>2, <2>1
  <2>3. /\ parseNext \in Nat /\ Len(sinkChan) \in Nat /\ i \in Int
        /\ Len(sinkChan') = Len(sinkChan) - 1 /\ parseNext' = parseNext
    BY <1>1, <1>3, <2>1, ParseTypes
  <2> QED BY ONLY <2>2, <2>3
<1>5. Head(sinkChan) = parseNext - Len(sinkChan)
  BY <1>1, <1>2, ParseTypes
<1>6. Len(sinkChan') <= ChanCap
  BY <1>1, ParseTypes, ScannerAssumption
<1> QED BY <1>1, <1>2, <1>3, <1>4, <1>5, <1>6

\* All steps of the processor.
LEMMA ProcKeeps == ASSUME PipeInv, ProcStep PROVE PipeInv'
<1>1. /\ treeBatch \in 0..NumBatches /\ latestL1Batch \in 0..treeBatch
      /\ procBatch \in 0..NumBatches /\ NumBatches \in Nat
  BY LedgerTypes DEF PipeInv, PipeTypeOK
<1>2. CASE ProcSkip
  <2>1. /\ procPc = "recv" /\ sinkChan # <<>> /\ latestL1Batch >= Head(sinkChan)
        /\ sinkChan' = Tail(sinkChan)
        /\ UNCHANGED <<vars, txVars, txChan, parseVars, procVars, runVars>>
        /\ UNCHANGED <<procPc, procBatch, treeBatch, latestL1Batch, lostTail>>
    BY <1>2 DEF ProcSkip, procVars, runVars
  <2>2. /\ parseTx # None /\ parseTx' = parseTx /\ parseNext' = parseNext
        /\ Head(sinkChan) \in Batches /\ Head(sinkChan) = parseNext - Len(sinkChan)
        /\ sinkChan' \in Seq(Batches) /\ Len(sinkChan') = Len(sinkChan) - 1
        /\ Len(sinkChan') <= ChanCap
        /\ \A i \in 1..Len(sinkChan') : sinkChan'[i] = parseNext' - 1 - Len(sinkChan') + i
    BY <2>1, SinkHead
  <2>3. parseNext' - Len(sinkChan') <= latestL1Batch + 1
    BY <2>1, <2>2, ParseTypes
  <2>4. SinkInv'
    BY <2>1, <2>2, <2>3 DEF SinkInv, ProcOver
  <2> QED BY <1>1, <2>1, <2>2, <2>4, ParseTypes, ProcFrame DEF ProcOver
<1>3. CASE ProcRecv
  <2>1. /\ procPc = "recv" /\ sinkChan # <<>> /\ latestL1Batch < Head(sinkChan)
        /\ procBatch' = Head(sinkChan) /\ sinkChan' = Tail(sinkChan) /\ procPc' = "insert"
        /\ UNCHANGED <<vars, txVars, txChan, parseVars, treeBatch, latestL1Batch, runVars>>
        /\ UNCHANGED <<treeBatch, latestL1Batch, lostTail>>
    BY <1>3 DEF ProcRecv, runVars
  <2>2. /\ parseTx # None /\ parseTx' = parseTx /\ parseNext' = parseNext
        /\ Head(sinkChan) \in Batches /\ Head(sinkChan) = parseNext - Len(sinkChan)
        /\ sinkChan' \in Seq(Batches) /\ Len(sinkChan') = Len(sinkChan) - 1
        /\ Len(sinkChan') <= ChanCap
        /\ \A i \in 1..Len(sinkChan') : sinkChan'[i] = parseNext' - 1 - Len(sinkChan') + i
    BY <2>1, SinkHead
  <2>3. ~lostTail => parseNext - Len(sinkChan) <= latestL1Batch + 1
    BY <2>1, <2>2 DEF PipeInv, SinkInv
  <2>4. /\ procBatch' = parseNext' - Len(sinkChan') - 1
        /\ ~lostTail => procBatch' = latestL1Batch + 1
    BY <2>1, <2>2, <2>3, ParseTypes
  <2>5. SinkInv'
    BY <2>1, <2>2, <2>4 DEF SinkInv, ProcOver
  <2>6. procBatch' \in 0..NumBatches
    BY <1>1, <2>1, <2>2 DEF Batches
  <2> QED BY <1>1, <2>1, <2>2, <2>5, <2>6, ParseTypes, ProcFrame DEF ProcOver
<1>4. CASE ProcEnd
  <2>1. /\ procPc = "recv" /\ sinkChan = <<>> /\ ParseOver /\ procPc' = "done"
        /\ UNCHANGED <<vars, txVars, txChan, parseVars, sinkChan, runVars>>
        /\ UNCHANGED <<procBatch, treeBatch, latestL1Batch, lostTail>>
        /\ UNCHANGED <<parsePc, parseTx, parseNext>>
    BY <1>4 DEF ProcEnd, parseVars, runVars
  <2>2. SinkInv'
    BY <2>1 DEF PipeInv, SinkInv, ProcOver
  <2> QED BY <1>1, <2>1, <2>2, ParseTypes, ProcFrame DEF ProcOver
<1>5. CASE InsertBatch
  <2>1. /\ procPc = "insert" /\ treeBatch' = procBatch /\ procPc' = "persist"
        /\ UNCHANGED <<vars, txVars, txChan, parseVars, sinkChan, runVars>>
        /\ UNCHANGED <<procBatch, latestL1Batch, lostTail, parsePc, parseTx, parseNext>>
    BY <1>5 DEF InsertBatch, parseVars, runVars
  <2>2. SinkInv'
    BY <2>1 DEF PipeInv, SinkInv, ProcOver
  <2>3. latestL1Batch < procBatch
    BY <2>1 DEF PipeInv, SinkInv
  <2>4. /\ treeBatch' \in 0..NumBatches /\ latestL1Batch' \in 0..treeBatch'
        /\ latestL1Batch' >= latestL1Batch
    BY <1>1, <2>1, <2>3
  <2>5. parseTx = None => sinkChan' = <<>>
    BY <2>1 DEF PipeInv, ParseInv
  <2>6. sinkChan' \in Seq(Batches) /\ Len(sinkChan') <= ChanCap /\ procBatch' \in 0..NumBatches
    BY <1>1, <2>1, ParseTypes
  <2> QED BY <2>1, <2>2, <2>4, <2>5, <2>6, ProcFrame DEF ProcOver
<1>6. CASE RejectBatch
  <2>1. /\ procPc = "insert" /\ procPc' = "rejected" /\ sinkChan' = <<>>
        /\ UNCHANGED <<vars, txVars, txChan, parseVars, runVars>>
        /\ UNCHANGED <<procBatch, treeBatch, latestL1Batch, lostTail>>
    BY <1>6 DEF RejectBatch, runVars
  <2>2. sinkChan' \in Seq(Batches) /\ Len(sinkChan') = 0
    BY <2>1, EmptyIsEmpty
  <2>3. SinkInv'
    BY <2>1, <2>2 DEF SinkInv, ProcOver
  <2>4. Len(sinkChan') <= ChanCap
    BY <2>2, ScannerAssumption
  <2> QED BY <1>1, <2>1, <2>2, <2>3, <2>4, ProcFrame DEF ProcOver
<1>7. CASE PersistBatch
  <2>1. /\ procPc = "persist" /\ latestL1Batch' = procBatch /\ procPc' = "recv"
        /\ UNCHANGED <<vars, txVars, txChan, parseVars, sinkChan, runVars>>
        /\ UNCHANGED <<procBatch, treeBatch, lostTail, parsePc, parseTx, parseNext>>
    BY <1>7 DEF PersistBatch, parseVars, runVars
  <2>2. /\ parseTx # None /\ procBatch = parseNext - Len(sinkChan) - 1
        /\ latestL1Batch < procBatch /\ treeBatch = procBatch
        /\ \A i \in 1..Len(sinkChan) : sinkChan[i] = parseNext - 1 - Len(sinkChan) + i
    BY <2>1 DEF PipeInv, SinkInv
  <2>3. /\ latestL1Batch' \in 0..treeBatch' /\ latestL1Batch' >= latestL1Batch
        /\ parseNext' - Len(sinkChan') <= latestL1Batch' + 1
    BY <1>1, <2>1, <2>2, ParseTypes
  <2>4. SinkInv'
    BY <2>1, <2>2, <2>3 DEF SinkInv, ProcOver
  <2> QED BY <1>1, <2>1, <2>2, <2>3, <2>4, ParseTypes, ProcFrame DEF ProcOver
<1> QED BY <1>2, <1>3, <1>4, <1>5, <1>6, <1>7 DEF ProcStep

-----------------------------------------------------------------------------
\* The main function of the program.
LEMMA RunFrame ==
  ASSUME PipeInv, UNCHANGED <<vars, txVars, txChan, parseVars, sinkChan, procVars, lostTail>>,
         latestL1Block' \in 0..tip, runPc' \in {"running", "stored", "exited", "failed"},
         RunInv'
  PROVE  PipeInv'
<1>1. /\ UNCHANGED <<tip, cancelled, hashChan, hashRxOpen, scanVars, startBlock, scanPc, sent>>
      /\ UNCHANGED <<txPc, txHash, txChan, parsePc, parseTx, parseNext, lastParsed>>
      /\ UNCHANGED <<procPc, procBatch, treeBatch, latestL1Batch>>
  BY DEF vars, scanVars, txVars, parseVars, procVars
<1>2. ScanInv' /\ ScanTypeOK'
  BY <1>1, ScanInvUnchanged DEF PipeInv, ScanInv, ScanTypeOK
<1>3. PipeTypeOK'
  BY <1>1, <1>2 DEF PipeInv, PipeTypeOK
<1>4. TxFlow'
  BY <1>1, FlowTypes, TxFlowSame DEF PipeInv
<1>5. ParseInv' /\ SinkInv' /\ EndInv'
  BY <1>1, ParseInvKept, SinkInvKept, EndInvKept DEF PipeInv
<1> QED BY <1>2, <1>3, <1>4, <1>5 DEF PipeInv

\* The block that is stored is that of a transaction whose batches were all handed
\* over, so that the batches of the blocks below it were.
LEMMA StoreKeeps == ASSUME PipeInv, StoreLatestBlock PROVE PipeInv'
<1>1. /\ runPc = "running" /\ ScanOver /\ txPc = "done" /\ parsePc = "done" /\ scanPc = "done"
      /\ latestL1Block' = IF lastParsed # None THEN lastParsed ELSE latestL1Block
      /\ runPc' = "stored"
      /\ UNCHANGED <<vars, txVars, txChan, parseVars, sinkChan, procVars, lostTail>>
      /\ UNCHANGED <<startBlock, scanPc, txPc, parsePc, parseTx, parseNext, procPc,
                     latestL1Batch>>
  BY DEF StoreLatestBlock, TasksOver, vars, scanVars, txVars, parseVars, procVars
<1>2. CASE lastParsed = None
  <2>1. latestL1Block' = latestL1Block
    BY <1>1, <1>2
  <2>2. latestL1Block' \in 0..tip
    BY <2>1 DEF PipeInv, PipeTypeOK
  <2>3. RunInv'
    BY <1>1, <2>1 DEF PipeInv, RunInv, ResumeCovered
  <2> QED BY <1>1, <2>2, <2>3, RunFrame
<1>3. CASE lastParsed # None
  <2>1. /\ latestL1Block' = lastParsed /\ lastParsed \in Nat
        /\ parseTx # None /\ parseTx \in Txs /\ lastParsed <= TxBlock[parseTx]
        /\ StartTx < parseTx
    BY <1>1, <1>3, ParseTypes DEF PipeInv, ParseInv
  <2>2. latestL1Block' \in 0..tip
    <3>1. parseTx <= sent
      BY <2>1, FlowTypes DEF PipeInv, TxFlow, Taken
    <3>2. TxBlock[parseTx] <= tip /\ TxBlock[parseTx] \in Nat
      BY <2>1, <3>1, LedgerTypes DEF PipeInv, TxFlow
    <3> QED BY <2>1, <3>2, FlowTypes
  <2>3. ASSUME NEW b \in Batches, BlockOf(b) < lastParsed PROVE b < parseNext
    <3>1. BatchTx[b] \in Txs /\ BatchTx[b] \in Nat /\ parseTx \in Nat /\ b \in Nat
          /\ TxBlock[BatchTx[b]] \in Nat /\ TxBlock[parseTx] \in Nat
      BY <2>1, LedgerTypes
    <3>2. parseTx <= BatchTx[b] => TxBlock[parseTx] <= TxBlock[BatchTx[b]]
      BY <2>1, <3>1, LedgerAssumption
    <3>3. BatchTx[b] < parseTx
      BY <2>1, <2>3, <3>1, <3>2 DEF BlockOf
    <3>4. b < FirstBatch(parseTx)
      BY <2>1, <3>3, BatchesBefore
    <3>5. FirstBatch(parseTx) <= parseNext /\ FirstBatch(parseTx) \in Nat
      <4>1. FirstBatch(parseTx) \in Nat
        BY <2>1, FirstBatchIsFirst, LedgerTypes
      <4> QED BY <2>1, <4>1, ParseTypes DEF PipeInv, ParseInv
    <3> QED BY <3>1, <3>4, <3>5, ParseTypes
  <2>4. RunInv'
    BY <1>1, <2>1, <2>3 DEF PipeInv, RunInv
  <2> QED BY <1>1, <2>2, <2>4, RunFrame
<1> QED BY <1>2, <1>3

\* run joins its tasks, main exits.
LEMMA RunKeeps == ASSUME PipeInv, RunStep PROVE PipeInv'
<1>0. latestL1Block \in 0..tip
  BY DEF PipeInv, PipeTypeOK
<1>1. CASE StoreLatestBlock
  BY <1>1, StoreKeeps
<1>2. CASE RunFails
  <2>1. /\ runPc = "running" /\ runPc' = "failed"
        /\ UNCHANGED <<vars, txVars, txChan, parseVars, sinkChan, procVars, lostTail>>
        /\ UNCHANGED <<startBlock, procPc, latestL1Batch, latestL1Block, lostTail>>
    BY <1>2 DEF RunFails, vars, scanVars, procVars
  <2>2. RunInv'
    BY <2>1 DEF PipeInv, RunInv, ResumeCovered
  <2> QED BY <1>0, <2>1, <2>2, RunFrame
<1>3. CASE Exit
  <2>1. /\ runPc = "stored" /\ ProcOver /\ runPc' = "exited"
        /\ UNCHANGED <<vars, txVars, txChan, parseVars, sinkChan, procVars, lostTail>>
        /\ UNCHANGED <<startBlock, procPc, latestL1Batch, latestL1Block, lostTail>>
        /\ UNCHANGED <<scanPc, txPc, parsePc, parseTx, parseNext>>
    BY <1>3 DEF Exit, vars, scanVars, txVars, parseVars, procVars
  <2>2. RunInv'
    BY <2>1 DEF PipeInv, RunInv, ProcOver
  <2> QED BY <1>0, <2>1, <2>2, RunFrame
<1> QED BY <1>1, <1>2, <1>3 DEF RunStep

-----------------------------------------------------------------------------
\* A session that begins.
LEMMA BeginsFresh ==
  ASSUME PipeInv, StartsAtGenesis, StartSession,
         lostTail => lostTail', lostTail' \/ ResumeCovered
  PROVE  FreshSession'
<1>1. /\ config' \in Options /\ startBlock' = DecideStart /\ currentBlock' = DecideStart
      /\ sent' \in 0..NumTxs /\ TxsBefore(sent', DecideStart)
      /\ sends' = 0 /\ endBlock' = None /\ scanPc' = "top" /\ nextLog' = 1
      /\ latestBatch' = 0 /\ previousHash' = None
      /\ hashChan' = <<>> /\ hashRxOpen' = TRUE /\ cancelled' = FALSE
      /\ txPc' = "recv" /\ txHash' = None /\ txChan' = <<>>
      /\ parsePc' = "recv" /\ parseTx' = None /\ parseNext' = 0 /\ lastParsed' = None
      /\ sinkChan' = <<>> /\ procPc' = "recv" /\ procBatch' = 0 /\ runPc' = "running"
      /\ UNCHANGED <<tip, treeBatch, latestL1Batch, latestL1Block>>
  BY DEF StartSession
<1>2. /\ tip \in Nat /\ treeBatch \in 0..NumBatches /\ latestL1Batch \in 0..treeBatch
      /\ latestL1Block \in 0..tip
  BY DEF PipeInv, PipeTypeOK, ScanTypeOK
<1>3. DecideStart \in Nat /\ DecideStart \in {ConfigStart, latestL1Block}
  BY <1>2, PipelineAssumption DEF DecideStart
<1>4. FreshScanner'
  BY <1>1, <1>2, <1>3 DEF FreshScanner, ScannerInit
<1>5. ResumeCovered' <=> ResumeCovered
  BY <1>1 DEF ResumeCovered
<1>6. lostTail' \/ \A b \in Batches : BlockOf(b) < startBlock' => b <= latestL1Batch'
  <2> SUFFICES ASSUME ~lostTail', NEW b \in Batches, BlockOf(b) < startBlock'
               PROVE  b <= latestL1Batch'
    OBVIOUS
  <2>1. ~(BlockOf(b) < ConfigStart)
    BY LedgerTypes, PipelineAssumption DEF StartsAtGenesis
  <2>2. BlockOf(b) < latestL1Block
    BY <1>1, <1>3, <2>1
  <2> QED BY <1>1, <2>2 DEF ResumeCovered
<1> QED BY <1>1, <1>2, <1>4, <1>5, <1>6 DEF FreshSession

\* When main returns, the processor has taken what the parse task handed over.
LEMMA ProcessorTookAll ==
  ASSUME PipeInv, runPc = "exited", procPc # "rejected", ~lostTail,
         parseTx # None, NEW b \in Batches, b < parseNext
  PROVE  b <= latestL1Batch
<1>1. procPc = "done"
  BY DEF PipeInv, RunInv, ProcOver
<1>2. sinkChan = <<>>
  BY <1>1 DEF PipeInv, SinkInv, ProcOver
<1>3. Len(sinkChan) = 0
  BY <1>2
<1>4. parseNext - Len(sinkChan) <= latestL1Batch + 1
  BY <1>1 DEF PipeInv, SinkInv
<1> QED BY <1>3, <1>4, ParseTypes, LedgerTypes

\* The invariant implies ExitIsResumable.
LEMMA ExitCovers == PipeInv => ExitIsResumable
<1> SUFFICES ASSUME PipeInv, runPc = "exited", procPc # "rejected", ~lostTail
             PROVE  ResumeCovered
  BY DEF ExitIsResumable
<1>1. \A b \in Batches : BlockOf(b) < latestL1Block =>
        b <= latestL1Batch \/ (parseTx # None /\ b < parseNext)
  BY DEF PipeInv, RunInv
<1> QED BY <1>1, ProcessorTookAll DEF ResumeCovered

\* Sessions end, are killed and begin.
LEMMA SessionsKeep ==
  ASSUME PipeInv, StartsAtGenesis, StartAgain \/ KillAndStart
  PROVE  PipeInv'
<1>1. StartSession /\ (lostTail => lostTail') /\ (lostTail' \/ ResumeCovered)
  <2>1. CASE KillAndStart
    BY <2>1 DEF KillAndStart
  <2>2. CASE StartAgain
    <3>1. /\ StartSession /\ runPc \in {"exited", "failed"}
          /\ lostTail' = (lostTail \/ (procPc = "rejected" /\ ~ResumeCovered))
      BY <2>2 DEF StartAgain
    <3>2. lostTail => lostTail'
      BY <3>1
    <3>3. ASSUME ~lostTail' PROVE ResumeCovered
      <4>1. ~lostTail /\ (procPc = "rejected" => ResumeCovered)
        BY <3>1, <3>3
      <4>2. CASE runPc = "failed" \/ procPc = "rejected"
        BY <4>1, <4>2 DEF PipeInv, RunInv
      <4>3. CASE runPc = "exited" /\ procPc # "rejected"
        BY <4>1, <4>3, ExitCovers DEF ExitIsResumable
      <4> QED BY <3>1, <4>2, <4>3
    <3> QED BY <3>1, <3>2, <3>3
  <2> QED BY <2>1, <2>2
<1>2. FreshSession'
  BY <1>1, BeginsFresh
<1> QED BY <1>2, FreshSessionInvNext

\* The first session satisfies the invariant if it leaves out no batch.
LEMMA PipeInitInv == StartsAtGenesis /\ PipeInit => PipeInv
<1> SUFFICES ASSUME StartsAtGenesis, PipeInit PROVE PipeInv
  OBVIOUS
<1>1. /\ tip \in Nat /\ cancelled = FALSE /\ ScannerInit(ConfigStart)
      /\ startBlock = ConfigStart /\ ConfigStart \in Nat
  BY PipelineAssumption DEF PipeInit, ScannerInit
<1>2. FreshScanner
  BY <1>1 DEF FreshScanner
<1>3. /\ txPc = "recv" /\ txHash = None /\ txChan = <<>>
      /\ parsePc = "recv" /\ parseTx = None /\ parseNext = 0 /\ lastParsed = None
      /\ sinkChan = <<>> /\ procPc = "recv" /\ procBatch = 0 /\ treeBatch = 0
      /\ latestL1Batch = 0 /\ latestL1Block = 0 /\ runPc = "running"
  BY DEF PipeInit
<1>4. /\ treeBatch \in 0..NumBatches /\ latestL1Batch \in 0..treeBatch
      /\ latestL1Block \in 0..tip
  BY <1>1, <1>3, LedgerTypes
<1>5. ResumeCovered
  BY <1>3, LedgerTypes DEF ResumeCovered
<1>6. \A b \in Batches : BlockOf(b) < startBlock => b <= latestL1Batch
  BY <1>1, LedgerTypes DEF StartsAtGenesis
<1>7. FreshSession
  BY <1>2, <1>3, <1>4, <1>5, <1>6 DEF FreshSession
<1> QED BY <1>7, FreshSessionInv

\* Every step keeps the invariant.
LEMMA PipeInvStep == StartsAtGenesis /\ PipeInv /\ [PipeNext]_pipeVars => PipeInv'
<1> SUFFICES ASSUME StartsAtGenesis, PipeInv, [PipeNext]_pipeVars PROVE PipeInv'
  OBVIOUS
<1>1. CASE MainStep
  BY <1>1, MainKeeps
<1>2. CASE TxLocal \/ TxFetched
  BY <1>2, TxKeeps
<1>3. CASE ParseStep
  BY <1>3, ParseKeeps
<1>4. CASE ProcStep
  BY <1>4, ProcKeeps
<1>5. CASE RunStep
  BY <1>5, RunKeeps
<1>6. CASE StartAgain \/ KillAndStart
  BY <1>6, SessionsKeep
<1>7. CASE FinalizeL1 \/ Sigint
  BY <1>7, SurroundingsKeep
<1>8. CASE UNCHANGED pipeVars
  <2>1. UNCHANGED <<vars, txVars, txChan, parseVars, sinkChan, procVars, runVars>>
    BY <1>8 DEF pipeVars
  <2>2. UNCHANGED <<lostTail, latestL1Block, runPc, startBlock, scanPc, txPc>>
    BY <2>1 DEF runVars, vars, scanVars, txVars
  <2>3. RunInv'
    BY <2>1, <2>2, RunInvKept DEF PipeInv
  <2>4. latestL1Block' \in 0..tip /\ runPc' \in {"running", "stored", "exited", "failed"}
    BY <2>2 DEF PipeInv, PipeTypeOK
  <2> QED BY <2>1, <2>2, <2>3, <2>4, RunFrame
<1> QED BY <1>1, <1>2, <1>3, <1>4, <1>5, <1>6, <1>7, <1>8 DEF PipeNext

\* The invariant holds over all sessions.
LEMMA PipeInvHolds == StartsAtGenesis /\ PipeSpec => []PipeInv
<1> SUFFICES ASSUME StartsAtGenesis PROVE PipeSpec => []PipeInv
  OBVIOUS
<1>1. PipeInit => PipeInv
  BY PipeInitInv
<1>2. PipeInv /\ [PipeNext]_pipeVars => PipeInv'
  BY PipeInvStep
<1> QED BY <1>1, <1>2, PTL DEF PipeSpec

\* When the node returns every transaction with its block number, the tasks only end
\* after one another, and a run is complete.
LEMMA ExitIsComplete == Unmined = {} /\ PipeInv => CompleteAtExit
<1> SUFFICES ASSUME Unmined = {}, PipeInv, runPc = "exited", ~cancelled,
                    procPc # "rejected", ~lostTail,
                    NEW b \in Batches, BlockOf(b) <= endBlock
             PROVE  b <= latestL1Batch
  BY DEF CompleteAtExit
<1>1. scanPc = "done" /\ txPc = "done" /\ parsePc = "done"
  BY DEF PipeInv, RunInv
<1>2. BatchTx[b] <= sent
  BY <1>1, LedgerTypes DEF PipeInv, ScanInv, FinishedScanIsComplete, BlockOf
<1>3. Taken + Len(txChan) = sent /\ (parseTx # None => TxBatchesSent)
  BY <1>1 DEF PipeInv, EndInv
<1>4. txChan = <<>>
  BY <1>1 DEF PipeInv, TxFlow
<1>5. Taken = sent
  <2>1. Len(txChan) = 0
    BY <1>4
  <2> QED BY <1>3, <2>1, FlowTypes
<1>6. CASE parseTx # None
  <2>1. parseTx \in Txs /\ BatchTx[b] <= parseTx /\ parseNext \notin BatchesOf(parseTx)
    BY <1>2, <1>3, <1>5, <1>6, ParseTypes DEF Taken, TxBatchesSent
  <2>2. parseNext - 1 \in BatchesOf(parseTx)
    BY <1>6, <2>1, FirstBatchIsFirst DEF PipeInv, ParseInv, BatchesOf
  <2>3. b < parseNext
    BY <2>1, <2>2, ParseTypes, BatchesBehind
  <2> QED BY <1>6, <2>3, ProcessorTookAll
<1>7. CASE parseTx = None
  <2>1. BatchTx[b] <= StartTx /\ BatchTx[b] \in Txs
    BY <1>2, <1>5, <1>7, LedgerTypes DEF Taken
  <2>2. BlockOf(b) < startBlock
    BY <2>1 DEF PipeInv, TxFlow, TxsBefore, BlockOf
  <2> QED BY <2>2 DEF PipeInv, RunInv
<1> QED BY <1>6, <1>7

-----------------------------------------------------------------------------
\* How many batches of its transaction the parse task has handed on.
Handed == IF parseTx = None THEN 0 ELSE parseNext - FirstBatch(parseTx)

\* A transaction commits a run of batches: the task is through with them when it
\* has handed on as many as there are.
LEMMA HandedCount ==
  ASSUME PipeInv, parsePc = "send"
  PROVE  /\ ~TxBatchesSent => Handed < Cardinality(BatchesOf(parseTx))
         /\ TxBatchesSent => Handed = Cardinality(BatchesOf(parseTx))
<1> DEFINE S == BatchesOf(parseTx)
           f == FirstBatch(parseTx)
<1>1. /\ parseTx \in Txs /\ parseTx # None /\ f \in S /\ f \in Nat /\ parseNext \in Nat
      /\ \A b \in S : f <= b
      /\ S = {b \in Batches : BatchTx[b] = parseTx} /\ f <= parseNext
  BY ParseHasTx, ParseTypes, FirstBatchIsFirst DEF PipeInv, ParseInv, BatchesOf
<1>2. S \subseteq Batches /\ S \subseteq Nat /\ IsFiniteSet(S)
  <2>1. IsFiniteSet(Batches)
    BY FS_Interval, LedgerTypes DEF Batches
  <2> QED BY <1>1, <2>1, FS_Subset, LedgerTypes
<1>3. parseNext = f \/ parseNext - 1 \in S
  BY <1>1 DEF PipeInv, ParseInv
<1>4. Handed = parseNext - f
  BY <1>1 DEF Handed
<1>5. TxBatchesSent <=> parseNext \notin S
  BY DEF TxBatchesSent
<1> HIDE DEF S, f
<1>6. \A b, c \in S : b..c \subseteq S
  <2> SUFFICES ASSUME NEW b \in S, NEW c \in S, NEW d \in b..c PROVE d \in S
    OBVIOUS
  <2>1. b \in Batches /\ c \in Batches /\ d \in Nat /\ b <= d /\ d <= c
    BY <1>2
  <2>2. d \in Batches
    BY <2>1, LedgerTypes DEF Batches
  <2>3. BatchTx[b] <= BatchTx[d] /\ BatchTx[d] <= BatchTx[c]
    BY <2>1, <2>2, LedgerOrder
  <2>4. BatchTx[b] = parseTx /\ BatchTx[c] = parseTx
    BY <1>1
  <2>5. BatchTx[d] = parseTx
    BY <1>1, <2>2, <2>3, <2>4, LedgerTypes
  <2> QED BY <1>1, <2>2, <2>5
<1>7. CASE parseNext \in S
  <2>1. f..parseNext \subseteq S
    BY <1>1, <1>6, <1>7
  <2>2. Cardinality(f..parseNext) = parseNext - f + 1
    BY <1>1, FS_Interval
  <2>3. Cardinality(f..parseNext) <= Cardinality(S) /\ Cardinality(S) \in Nat
    BY <1>2, <2>1, FS_Subset, FS_CardinalityType
  <2> QED BY <1>1, <1>4, <1>5, <1>7, <2>2, <2>3 DEF S
<1>8. CASE parseNext \notin S
  <2>1. parseNext - 1 \in S
    BY <1>1, <1>3, <1>8
  <2>2. f..(parseNext - 1) \subseteq S
    BY <1>1, <1>6, <2>1
  <2>3. ASSUME NEW b \in S PROVE b \in f..(parseNext - 1)
    <3>1. b \in Nat /\ f <= b
      BY <1>1, <1>2
    <3>2. b < parseNext
      <4> SUFFICES ASSUME parseNext <= b PROVE FALSE
        BY <1>1, <3>1
      <4>1. parseNext \in (parseNext - 1)..b
        BY <1>1, <3>1
      <4> QED BY <1>6, <1>8, <2>1, <4>1
    <3> QED BY <1>1, <3>1, <3>2
  <2>4. S = f..(parseNext - 1)
    BY <2>2, <2>3
  <2>5. Cardinality(f..(parseNext - 1)) = parseNext - f
    <3>1. parseNext - 1 \in Nat /\ f <= parseNext - 1
      BY <1>1, <1>2, <2>1
    <3> QED BY <1>1, <3>1, FS_Interval
  <2> QED BY <1>4, <1>5, <1>8, <2>4, <2>5 DEF S
<1> QED BY <1>7, <1>8

\* The parse task begins as ParseTask does.
LEMMA TaskInitMapped == PipeInit => Task!TaskInit
BY DEF PipeInit, Task!TaskInit

\* Every step of the pipeline is a step of ParseTask or leaves it alone.
LEMMA TaskStepMapped ==
  ASSUME PipeInv, PipeInv', [PipeNext]_pipeVars
  PROVE  [Task!TaskNext]_(Task!taskVars)
<1>1. CASE UNCHANGED parseVars /\ (cancelled' = cancelled \/ cancelled' = TRUE)
  <2>1. UNCHANGED <<parsePc, parseTx, parseNext, lastParsed>>
    BY <1>1 DEF parseVars
  <2>2. CASE cancelled' = cancelled
    BY <2>1, <2>2 DEF Task!taskVars
  <2>3. CASE cancelled' = TRUE
    BY <2>1, <2>3 DEF Task!TaskNext, Task!Stop
  <2> QED BY <1>1, <2>2, <2>3
<1>2. CASE ParseRecv
  <2> DEFINE t == Head(txChan)
  <2>1. /\ parsePc = "recv" /\ txChan # <<>> /\ ~cancelled /\ parseTx' = t
        /\ parseNext' = FirstBatch(t) /\ parsePc' = "parse"
        /\ lastParsed' = lastParsed /\ cancelled' = cancelled
    BY <1>2 DEF ParseRecv, vars
  <2>2. t \in Txs /\ t # None
    BY <2>1, FlowTypes, TailIsShifted, LedgerTypes
  <2>3. FirstBatch(t) \in Nat
    BY <2>2, FirstBatchIsFirst, LedgerTypes
  <2> HIDE DEF t
  <2>4. Handed' = 0
    BY <2>1, <2>2, <2>3 DEF Handed
  <2> QED BY <2>1, <2>2, <2>4 DEF Task!TaskNext, Task!Receive, Handed
<1>3. CASE ParseOk
  BY <1>3 DEF ParseOk, vars, Task!TaskNext, Task!Parsed
<1>4. ASSUME ParseReturn PROVE Task!Return
  BY <1>4 DEF ParseReturn, Task!Return
<1>5. CASE ParseStop \/ ParseEnd
  <2>1. parsePc = "recv" /\ cancelled' = cancelled /\ ParseReturn
    BY <1>5 DEF ParseStop, ParseEnd
  <2> QED BY <1>4, <2>1 DEF Task!TaskNext, Task!Leave
<1>6. CASE ParseFails
  BY <1>4, <1>6 DEF ParseFails, Task!TaskNext, Task!Fail
<1>7. CASE ParseGiveUp
  BY <1>4, <1>7 DEF ParseGiveUp, Task!TaskNext, Task!GiveUp
<1>8. CASE SinkSend
  <2>1. /\ parsePc = "send" /\ ~TxBatchesSent /\ parseNext' = parseNext + 1
        /\ UNCHANGED <<parsePc, parseTx, lastParsed, cancelled>>
    BY <1>8 DEF SinkSend, vars
  <2>2. /\ parseTx \in Txs /\ parseTx # None /\ FirstBatch(parseTx) \in Nat /\ parseNext \in Nat
    BY <2>1, ParseHasTx, ParseTypes
  <2>3. Handed < Cardinality(BatchesOf(parseTx)) /\ Handed' = Handed + 1
    BY <2>1, <2>2, HandedCount DEF Handed
  <2> QED BY <2>1, <2>2, <2>3 DEF Task!TaskNext, Task!HandOn, Handed
<1>9. CASE SinkSendFails
  <2>1. parsePc = "send" /\ ~TxBatchesSent /\ cancelled' = TRUE /\ ParseReturn
    BY <1>9 DEF SinkSendFails
  <2>2. parseTx \in Txs /\ Handed < Cardinality(BatchesOf(parseTx))
    BY <2>1, ParseHasTx, HandedCount
  <2> QED BY <1>4, <2>1, <2>2 DEF Task!TaskNext, Task!NobodyTakes, Handed
<1>10. CASE ParseTxDone
  <2>1. /\ parsePc = "send" /\ TxBatchesSent /\ lastParsed' = TxBlock[parseTx] /\ parsePc' = "recv"
        /\ UNCHANGED <<parseTx, parseNext, cancelled>>
    BY <1>10 DEF ParseTxDone, vars
  <2>2. parseTx \in Txs /\ Handed = Cardinality(BatchesOf(parseTx)) /\ Handed' = Handed
    BY <2>1, ParseHasTx, HandedCount DEF Handed
  <2> QED BY <2>1, <2>2 DEF Task!TaskNext, Task!NameBlock, Handed
<1>11. CASE StartAgain \/ KillAndStart
  <2>1. StartSession
    BY <1>11 DEF StartAgain, KillAndStart
  <2> QED BY <2>1 DEF StartSession, Task!TaskNext, Task!Begin
<1>12. CASE MainStep
  <2>1. ScanInv /\ ScanStep /\ UNCHANGED parseVars
    BY <1>12 DEF PipeInv, MainStep, MainLocal, MainRemote, ScanStep
  <2>2. cancelled \in BOOLEAN /\ cancelled' \in BOOLEAN /\ (cancelled => cancelled')
    BY <2>1, ScanEffect DEF PipeInv, ScanInv, ScanTypeOK
  <2>3. cancelled' = cancelled \/ cancelled' = TRUE
    BY <2>2
  <2> QED BY <1>1, <2>1, <2>3
<1>13. CASE TxLocal \/ TxFetched
  BY <1>1, <1>13 DEF TxLocal, TxFetched, TxRecv, TxEnd, TxGiveUp, TxSend, TxSendFails, TxReturn, vars
<1>14. CASE ProcStep
  BY <1>1, <1>14 DEF ProcStep, ProcSkip, ProcRecv, ProcEnd, InsertBatch, RejectBatch,
                     PersistBatch, vars
<1>15. CASE RunStep
  BY <1>1, <1>15 DEF RunStep, StoreLatestBlock, RunFails, Exit, vars
<1>16. CASE FinalizeL1 \/ Sigint
  BY <1>1, <1>16 DEF FinalizeL1, FinalizeBlock, Sigint, Cancel
<1>17. CASE UNCHANGED pipeVars
  BY <1>1, <1>17 DEF pipeVars, vars
<1>18. CASE ParsePanics
  BY <1>18 DEF ParsePanics, vars, Task!TaskNext, Task!Panic
<1> QED BY <1>2, <1>3, <1>5, <1>6, <1>7, <1>8, <1>9, <1>10, <1>11, <1>12, <1>13, <1>14, <1>15,
           <1>16, <1>17, <1>18
        DEF PipeNext, ParseStep

-----------------------------------------------------------------------------
\* Every variable of the pipeline keeps its type and no channel overflows: the tree
\* never holds less than the database says, and the block that is stored for the
\* next run is a finalized one.
THEOREM PipeTypesHold == StartsAtGenesis /\ PipeSpec => []PipeTypeOK
<1>1. PipeInv => PipeTypeOK
  BY DEF PipeInv
<1> QED BY <1>1, PipeInvHolds, PTL

\* Through any number of sessions, kills and interrupts, the processor takes a batch
\* that does not follow the last one in the database only after a tail was lost
\* behind the stored block.
THEOREM GapsComeFromLostTails == StartsAtGenesis /\ PipeSpec => []GapOnlyAfterLostTail
<1>1. PipeInv => GapOnlyAfterLostTail
  BY DEF PipeInv, SinkInv, GapOnlyAfterLostTail
<1> QED BY <1>1, PipeInvHolds, PTL

\* When main returns and the tree rejected nothing, every batch below the stored block
\* is in the database, so that the next run may start there.
THEOREM ExitsAreResumable == StartsAtGenesis /\ PipeSpec => []ExitIsResumable
BY ExitCovers, PipeInvHolds, PTL

\* If the node returns every transaction with its block number, a run with polling
\* off that nobody cancels leaves the batches of all its blocks in the tree.
THEOREM ExitsAreComplete ==
  Unmined = {} /\ StartsAtGenesis /\ PipeSpec => []CompleteAtExit
<1> SUFFICES ASSUME Unmined = {}, StartsAtGenesis PROVE PipeSpec => []CompleteAtExit
  OBVIOUS
<1>1. PipeInv => CompleteAtExit
  BY ExitIsComplete
<1>2. PipeSpec => []PipeInv
  BY PipeInvHolds
<1> QED BY <1>1, <1>2, PTL

\* The parse task of the pipeline does what ParseTask promises of it, through every
\* restart: it hands on all batches of a transaction, in one go, before it names its
\* block, and what it refuses either cancels the run or panics and cancels nobody.
THEOREM PipelineKeepsTheTask == StartsAtGenesis /\ PipeSpec => ParseTaskInPipeline
<1> SUFFICES ASSUME StartsAtGenesis PROVE PipeSpec => ParseTaskInPipeline
  OBVIOUS
<1>1. PipeInit => Task!TaskInit
  BY TaskInitMapped
<1>2. PipeInv /\ PipeInv' /\ [PipeNext]_pipeVars => [Task!TaskNext]_(Task!taskVars)
  BY TaskStepMapped
<1>3. PipeSpec => []PipeInv
  BY PipeInvHolds
<1> QED BY <1>1, <1>2, <1>3, PTL DEF PipeSpec, ParseTaskInPipeline, Task!TaskSpec

=============================================================================
