---------------------------- MODULE FetchPipeline ----------------------------
(***************************************************************************)
(* `reconstruct l1`: the three tasks of L1Fetcher::run (main, tx, parse),  *)
(* the tree processor behind them, the main function that waits for them,  *)
(* and the two numbers the database keeps for the next run.                *)
(*                                                                         *)
(*   main --hashChan--> tx --txChan--> parse --sinkChan--> processor       *)
(*                                                                         *)
(* The process may be killed between any two steps and started again; only *)
(* the tree and the database survive.  What a batch does to the tree is    *)
(* abstracted to its number: the tree accepts the batch after the one it   *)
(* holds and rejects any other, as the state roots of the chain differ.    *)
(***************************************************************************)
EXTENDS LogScanner, FiniteSets

CONSTANTS
  ConfigStart,  \* L1FetcherOptions.start_block; 0 stands for GENESIS_BLOCK
  BadBatches,   \* batches whose root hash the tree does not reproduce
  BadTxs,       \* transactions whose calldata or blobs never parse
  BlobTxs,      \* those that need the blob server, which may answer with anything
  Unmined,      \* transactions the node may return without a block number
  MaxSessions,  \* bound: how often the tool is started
  MaxCrashes    \* bound: how often it is killed

ASSUME PipelineAssumption ==
  /\ ConfigStart \in Nat
  /\ BadBatches \subseteq Batches
  /\ {BadTxs, BlobTxs, Unmined} \subseteq SUBSET Txs
  /\ MaxSessions \in Nat \ {0} /\ MaxCrashes \in Nat

VARIABLES
  txPc,           \* tx task: "recv", "fetch", "send" or "done"
  txHash,         \* the hash it works on
  txChan,         \* calldata_tx / calldata_rx
  parsePc,        \* parse task: "recv", "parse", "send", "done" or "panicked"
  parseTx,        \* the transaction it works on
  parseNext,      \* the next batch of parseTx to send
  lastParsed,     \* last_block_number_processed
  sinkChan,       \* the channel to the processor
  procPc,         \* processor: "recv", "insert", "persist", "done", "rejected"
  procBatch,      \* the batch it works on
  runPc,          \* main: "running", "stored", "exited" or "failed"
  treeBatch,      \* the tree holds the batches up to this one
  latestL1Batch,  \* LATEST_L1_BATCH in the database
  latestL1Block,  \* LATEST_L1_BLOCK in the database
  sessions,       \* how often the tool was started
  crashes,        \* how often it was killed
  lostTail        \* history: a run was killed, or its tree rejected a batch,
                  \* while the stored block was ahead of the tree

txVars    == <<txPc, txHash>>
parseVars == <<parsePc, parseTx, parseNext, lastParsed>>
procVars  == <<procPc, procBatch, treeBatch, latestL1Batch>>
runVars   == <<runPc, latestL1Block, sessions, crashes, lostTail>>
pipeVars  == <<vars, txVars, txChan, parseVars, sinkChan, procVars, runVars>>

-----------------------------------------------------------------------------
ScanOver  == scanPc \in {"done", "panicked"}
ParseOver == parsePc \in {"done", "panicked"}
ProcOver  == procPc \in {"done", "rejected"}

BatchesOf(t)  == {b \in Batches : BatchTx[b] = t}
FirstBatch(t) == CHOOSE b \in BatchesOf(t) : \A c \in BatchesOf(t) : b <= c
TxBatchesSent == parseNext \notin BatchesOf(parseTx)

\* The parse task keeps the metrics locked while it sends a transaction's
\* batches; the steps of the other tasks that write metrics wait for it.
MetricsFree == parsePc # "send"

\* A mutant: the block after the stored one, as for a finished block.
DecideStartAfter ==
  IF ConfigStart = 0 /\ latestL1Block > 0 THEN latestL1Block + 1 ELSE ConfigStart

\* decide_start_block, when no snapshot was imported.
DecideStart ==
  IF ConfigStart = 0 /\ latestL1Block > 0 THEN latestL1Block ELSE ConfigStart

\* Every batch below the stored block is in the tree, so that a run from the
\* stored block on misses nothing.
ResumeCovered == \A b \in Batches : BlockOf(b) < latestL1Block => b <= latestL1Batch

-----------------------------------------------------------------------------
\* The main task; the steps in the second disjunct lock the metrics.
MainLocal ==
  StopCancelled \/ WaitForUpstream \/ PollingAssertFails \/ SkipLog \/ SendHash
    \/ SendHashFails \/ (MetricsFree /\ (FinishScan \/ Advance))

MainRemote == MetricsFree /\ (LearnEndBlock \/ ReceiveLogs)

MainStep ==
  /\ runPc = "running"
  /\ MainLocal \/ MainRemote
  /\ UNCHANGED <<txVars, txChan, parseVars, sinkChan, procVars, runVars>>

-----------------------------------------------------------------------------
TxRecv ==
  /\ txPc = "recv"
  /\ hashChan # <<>>
  /\ txHash' = Head(hashChan)
  /\ hashChan' = Tail(hashChan)
  /\ txPc' = "fetch"
  /\ UNCHANGED <<tip, cancelled, hashRxOpen, scanVars, txChan, parseVars,
                 sinkChan, procVars, runVars>>

\* The task returns and drops hash_rx.
TxReturn ==
  /\ txPc' = "done"
  /\ hashRxOpen' = FALSE
  /\ hashChan' = <<>>
  /\ UNCHANGED <<tip, cancelled, scanVars, txHash, txChan, parseVars, sinkChan,
                 procVars, runVars>>

TxEnd == txPc = "recv" /\ hashChan = <<>> /\ ScanOver /\ TxReturn

\* The node answers; before that, failed calls are retried without end.
TxFetched ==
  /\ txPc = "fetch"
  /\ MetricsFree
  /\ txPc' = "send"
  /\ UNCHANGED <<vars, txHash, txChan, parseVars, sinkChan, procVars, runVars>>

\* A mutant: a failed call is retried after the cancellation as well.
TxGiveUpNever == FALSE /\ UNCHANGED pipeVars

TxGiveUp == txPc = "fetch" /\ cancelled /\ TxReturn

TxSend ==
  /\ txPc = "send"
  /\ ~ParseOver
  /\ Len(txChan) < ChanCap
  /\ txChan' = Append(txChan, txHash)
  /\ txPc' = "recv"
  /\ UNCHANGED <<vars, txHash, parseVars, sinkChan, procVars, runVars>>

\* A mutant: the task waits for room although nobody takes what it sends.
TxSendFailsNever == FALSE /\ UNCHANGED pipeVars

\* The parse task is gone; the tx task returns as well, and does not cancel.
TxSendFails == txPc = "send" /\ ParseOver /\ TxReturn

TxLocal == TxRecv \/ TxEnd \/ TxGiveUp \/ TxSend \/ TxSendFails

-----------------------------------------------------------------------------
\* The task returns lastParsed and drops its receiver and the sink.
ParseReturn ==
  /\ parsePc' = "done"
  /\ txChan' = <<>>
  /\ UNCHANGED <<tip, hashChan, hashRxOpen, scanVars, txVars, parseTx, parseNext,
                 lastParsed, sinkChan, procVars, runVars>>

ParseRecv ==
  /\ parsePc = "recv"
  /\ txChan # <<>>
  /\ ~cancelled
  /\ parseTx' = Head(txChan)
  /\ parseNext' = FirstBatch(Head(txChan))
  /\ txChan' = Tail(txChan)
  /\ parsePc' = "parse"
  /\ UNCHANGED <<vars, txVars, lastParsed, sinkChan, procVars, runVars>>

\* A transaction arrives after the cancellation, or has no block number.
ParseStop ==
  /\ parsePc = "recv"
  /\ txChan # <<>>
  /\ cancelled \/ Head(txChan) \in Unmined
  /\ UNCHANGED cancelled
  /\ ParseReturn

\* A mutant: an empty channel is taken for a closed one.
ParseEndEarly ==
  /\ parsePc = "recv"
  /\ txChan = <<>>
  /\ scanPc = "done"
  /\ UNCHANGED cancelled
  /\ ParseReturn

ParseEnd ==
  /\ parsePc = "recv"
  /\ txChan = <<>>
  /\ txPc = "done"
  /\ UNCHANGED cancelled
  /\ ParseReturn

ParseOk ==
  /\ parsePc = "parse"
  /\ parseTx \notin BadTxs
  /\ parsePc' = "send"
  /\ UNCHANGED <<vars, txVars, txChan, parseTx, parseNext, lastParsed, sinkChan,
                 procVars, runVars>>

\* An error that is not that of the blob storage.
ParseFails ==
  /\ parsePc = "parse"
  /\ parseTx \in BadTxs \cup BlobTxs
  /\ cancelled' = TRUE
  /\ ParseReturn

\* A read past the end, or one of the assertions: the task is unwound and drops its
\* receiver and the sink, but cancels nobody.
ParsePanics ==
  /\ parsePc = "parse"
  /\ parseTx \in BadTxs \cup BlobTxs
  /\ parsePc' = "panicked"
  /\ txChan' = <<>>
  /\ UNCHANGED <<vars, txVars, parseTx, parseNext, lastParsed, sinkChan, procVars,
                 runVars>>

\* The blob server fails and the token is cancelled.
ParseGiveUp ==
  /\ parsePc = "parse"
  /\ cancelled
  /\ UNCHANGED cancelled
  /\ ParseReturn

SinkSend ==
  /\ parsePc = "send"
  /\ ~TxBatchesSent
  /\ ~ProcOver
  /\ Len(sinkChan) < ChanCap
  /\ sinkChan' = Append(sinkChan, parseNext)
  /\ parseNext' = parseNext + 1
  /\ UNCHANGED <<vars, txVars, txChan, parsePc, parseTx, lastParsed, procVars,
                 runVars>>

\* A mutant: the failure is reported and nobody else is told.
SinkSendFailsQuietly ==
  /\ parsePc = "send"
  /\ ~TxBatchesSent
  /\ ProcOver
  /\ UNCHANGED cancelled
  /\ ParseReturn

SinkSendFails ==
  /\ parsePc = "send"
  /\ ~TxBatchesSent
  /\ ProcOver
  /\ cancelled' = TRUE
  /\ ParseReturn

\* A mutant: the block after the one that is done is kept.
ParseTxDoneNext ==
  /\ parsePc = "send"
  /\ TxBatchesSent
  /\ lastParsed' = TxBlock[parseTx] + 1
  /\ parsePc' = "recv"
  /\ UNCHANGED <<vars, txVars, txChan, parseTx, parseNext, sinkChan, procVars,
                 runVars>>

ParseTxDone ==
  /\ parsePc = "send"
  /\ TxBatchesSent
  /\ lastParsed' = TxBlock[parseTx]
  /\ parsePc' = "recv"
  /\ UNCHANGED <<vars, txVars, txChan, parseTx, parseNext, sinkChan, procVars,
                 runVars>>

ParseStep ==
  \/ ParseRecv \/ ParseStop \/ ParseEnd \/ ParseOk \/ ParseFails \/ ParsePanics
  \/ ParseGiveUp \/ SinkSend \/ SinkSendFails \/ ParseTxDone

-----------------------------------------------------------------------------
\* A batch that is in the database already is skipped.
ProcSkip ==
  /\ procPc = "recv"
  /\ sinkChan # <<>>
  /\ latestL1Batch >= Head(sinkChan)
  /\ sinkChan' = Tail(sinkChan)
  /\ UNCHANGED <<vars, txVars, txChan, parseVars, procVars, runVars>>

ProcRecv ==
  /\ procPc = "recv"
  /\ sinkChan # <<>>
  /\ latestL1Batch < Head(sinkChan)
  /\ procBatch' = Head(sinkChan)
  /\ sinkChan' = Tail(sinkChan)
  /\ procPc' = "insert"
  /\ UNCHANGED <<vars, txVars, txChan, parseVars, treeBatch, latestL1Batch,
                 runVars>>

ProcEnd ==
  /\ procPc = "recv"
  /\ sinkChan = <<>>
  /\ ParseOver
  /\ procPc' = "done"
  /\ UNCHANGED <<vars, txVars, txChan, parseVars, sinkChan, procBatch, treeBatch,
                 latestL1Batch, runVars>>

\* insert_block succeeds; a batch inserted before a crash may pass once more.
InsertBatch ==
  /\ procPc = "insert"
  /\ procBatch \notin BadBatches
  /\ treeBatch \in {procBatch - 1, procBatch}
  /\ treeBatch' = procBatch
  /\ procPc' = "persist"
  /\ UNCHANGED <<vars, txVars, txChan, parseVars, sinkChan, procBatch,
                 latestL1Batch, runVars>>

\* The root hash differs: the tree is rolled back and the processor returns.
RejectBatch ==
  /\ procPc = "insert"
  /\ procBatch \in BadBatches \/ treeBatch # procBatch - 1
  /\ procPc' = "rejected"
  /\ sinkChan' = <<>>
  /\ UNCHANGED <<vars, txVars, txChan, parseVars, procBatch, treeBatch,
                 latestL1Batch, runVars>>

PersistBatch ==
  /\ procPc = "persist"
  /\ latestL1Batch' = procBatch
  /\ procPc' = "recv"
  /\ UNCHANGED <<vars, txVars, txChan, parseVars, sinkChan, procBatch, treeBatch,
                 runVars>>

ProcStep ==
  \/ ProcSkip \/ ProcRecv \/ ProcEnd
  \/ InsertBatch \/ RejectBatch \/ PersistBatch

-----------------------------------------------------------------------------
TasksOver == ScanOver /\ txPc = "done" /\ parsePc = "done"

\* run stores the last parsed block, if there is one, for the next run.
StoreLatestBlock ==
  /\ runPc = "running"
  /\ TasksOver
  /\ scanPc = "done"
  /\ latestL1Block' = IF lastParsed # None THEN lastParsed ELSE latestL1Block
  /\ runPc' = "stored"
  /\ UNCHANGED <<vars, txVars, txChan, parseVars, sinkChan, procVars, sessions,
                 crashes, lostTail>>

\* A mutant: the three tasks are joined before any result is looked at.
RunFailsLast ==
  /\ runPc = "running"
  /\ ScanOver /\ txPc = "done" /\ ParseOver
  /\ scanPc = "panicked" \/ parsePc = "panicked"
  /\ runPc' = "failed"
  /\ UNCHANGED <<vars, txVars, txChan, parseVars, sinkChan, procVars,
                 latestL1Block, sessions, crashes, lostTail>>

\* parse_handle.await? gives the panic of the parse task, even while the main task
\* goes on; then main_handle.await? that of the main task.  Nothing is stored, main
\* returns the error, and waits neither for the processor nor for any other task.
RunFails ==
  /\ runPc = "running"
  /\ txPc = "done"
  /\ parsePc = "panicked" \/ (parsePc = "done" /\ scanPc = "panicked")
  /\ runPc' = "failed"
  /\ UNCHANGED <<vars, txVars, txChan, parseVars, sinkChan, procVars,
                 latestL1Block, sessions, crashes, lostTail>>

\* A mutant: main does not wait for the processor.
ExitAtOnce ==
  /\ runPc = "stored"
  /\ runPc' = "exited"
  /\ UNCHANGED <<vars, txVars, txChan, parseVars, sinkChan, procVars,
                 latestL1Block, sessions, crashes, lostTail>>

\* processor_handle.await.
Exit ==
  /\ runPc = "stored"
  /\ ProcOver
  /\ runPc' = "exited"
  /\ UNCHANGED <<vars, txVars, txChan, parseVars, sinkChan, procVars,
                 latestL1Block, sessions, crashes, lostTail>>

RunStep == StoreLatestBlock \/ RunFails \/ Exit

\* The process is started on what the tree and the database hold.
StartSession ==
  /\ sessions < MaxSessions
  /\ sessions' = sessions + 1
  /\ config' \in Options
  /\ startBlock' = DecideStart
  /\ currentBlock' = DecideStart
  /\ \E last \in 0..NumTxs : TxsBefore(last, DecideStart) /\ sent' = last
  /\ sends' = 0
  /\ endBlock' = None /\ scanPc' = "top" /\ nextLog' = 1
  /\ latestBatch' = 0 /\ previousHash' = None
  /\ hashChan' = <<>> /\ hashRxOpen' = TRUE /\ cancelled' = FALSE
  /\ txPc' = "recv" /\ txHash' = None /\ txChan' = <<>>
  /\ parsePc' = "recv" /\ parseTx' = None /\ parseNext' = 0 /\ lastParsed' = None
  /\ sinkChan' = <<>>
  /\ procPc' = "recv" /\ procBatch' = 0
  /\ runPc' = "running"
  /\ UNCHANGED <<tip, treeBatch, latestL1Batch, latestL1Block>>

StartAgain ==
  /\ runPc \in {"exited", "failed"}
  /\ lostTail' = (lostTail \/ (procPc = "rejected" /\ ~ResumeCovered))
  /\ StartSession
  /\ UNCHANGED crashes

KillAndStart ==
  /\ runPc \in {"running", "stored"}
  /\ crashes < MaxCrashes
  /\ crashes' = crashes + 1
  /\ lostTail' = (lostTail \/ ~ResumeCovered)
  /\ StartSession

FinalizeL1 ==
  /\ FinalizeBlock
  /\ UNCHANGED <<txVars, txChan, parseVars, sinkChan, procVars, runVars>>

\* ctrl_c: the sigint handler cancels the token.
Sigint ==
  /\ runPc = "running"
  /\ Cancel
  /\ UNCHANGED <<txVars, txChan, parseVars, sinkChan, procVars, runVars>>

-----------------------------------------------------------------------------
PipeInit ==
  /\ tip \in {0, 1}
  /\ cancelled = FALSE
  /\ ScannerInit(ConfigStart)
  /\ txPc = "recv" /\ txHash = None /\ txChan = <<>>
  /\ parsePc = "recv" /\ parseTx = None /\ parseNext = 0 /\ lastParsed = None
  /\ sinkChan = <<>>
  /\ procPc = "recv" /\ procBatch = 0 /\ treeBatch = 0
  /\ latestL1Batch = 0 /\ latestL1Block = 0
  /\ runPc = "running" /\ sessions = 1 /\ crashes = 0 /\ lostTail = FALSE

PipeNext ==
  \/ MainStep \/ TxLocal \/ TxFetched \/ ParseStep \/ ProcStep \/ RunStep
  \/ StartAgain \/ KillAndStart \/ FinalizeL1 \/ Sigint

\* Every task runs, the processor only as long as main is there; nothing is said of
\* the answers of L1.
TaskFairness ==
  /\ WF_pipeVars(runPc = "running" /\ MainLocal
                 /\ UNCHANGED <<txVars, txChan, parseVars, sinkChan, procVars,
                                runVars>>)
  /\ WF_pipeVars(TxLocal)
  /\ WF_pipeVars(ParseStep)
  /\ WF_pipeVars(runPc # "failed" /\ ProcStep)
  /\ WF_pipeVars(RunStep)

\* The L1 node answers in the end: a premise of what depends on it.
NodeFairness == WF_pipeVars(MainStep) /\ WF_pipeVars(TxFetched)

\* The L1 node may stay silent for ever.
PipeSpec == PipeInit /\ [][PipeNext]_pipeVars /\ TaskFairness

-----------------------------------------------------------------------------
(***************************************************************************)
(* Properties                                                              *)
(***************************************************************************)
\* The parsing task as TxParser shows it from the inside: the batches of a
\* transaction are handed on together, the block that is named in the end is one
\* whose batches all were, and only a transaction that is broken or needs the blob
\* server cancels a run, or panics.
Task == INSTANCE ParseTask WITH
  Transactions <- Txs,
  Count    <- [t \in Txs |-> Cardinality(BatchesOf(t))],
  Block    <- TxBlock,
  Broken   <- BadTxs,
  Fallible <- BlobTxs,
  pc       <- parsePc,
  tx       <- parseTx,
  handed   <- IF parseTx = None THEN 0 ELSE parseNext - FirstBatch(parseTx),
  last     <- lastParsed,
  stopping <- cancelled

ParseTaskInPipeline == Task!TaskSpec

\* The type invariant of the pipeline.
PipeTypeOK ==
  /\ ScanTypeOK
  /\ txPc \in {"recv", "fetch", "send", "done"}
  /\ txHash \in Txs \cup {None}
  /\ txChan \in Seq(Txs) /\ Len(txChan) <= ChanCap
  /\ parsePc \in {"recv", "parse", "send", "done", "panicked"}
  /\ parseTx \in Txs \cup {None}
  /\ parseNext \in 0..(NumBatches + 1)
  /\ lastParsed \in Nat \cup {None}
  /\ sinkChan \in Seq(Batches) /\ Len(sinkChan) <= ChanCap
  /\ procPc \in {"recv", "insert", "persist", "done", "rejected"}
  /\ procBatch \in 0..NumBatches
  /\ treeBatch \in 0..NumBatches
  /\ latestL1Batch \in 0..treeBatch
  /\ latestL1Block \in 0..tip
  /\ runPc \in {"running", "stored", "exited", "failed"}

\* Whatever the interleaving, the user's interrupts, the restarts and the kills,
\* the tree is only ever handed the batch that follows the last one the database
\* knows: resuming in the middle of an L1 block repeats batches and misses none.
\* There are two exceptions: a kill in the window between the store of
\* LATEST_L1_BLOCK and the end of the processor, and a run in which the tree
\* rejected a batch, since LATEST_L1_BLOCK moves past that one as well.
GapOnlyAfterLostTail ==
  procPc = "insert" /\ procBatch # latestL1Batch + 1 => lostTail

\* When main returns and the tree rejected nothing, the block stored for the
\* next run leaves no batch behind that the tree does not hold, because main
\* waits for the processor.
ExitIsResumable ==
  runPc = "exited" /\ procPc # "rejected" /\ ~lostTail => ResumeCovered

\* A run with polling off that nobody cancelled leaves every batch of the blocks up
\* to its end block in the tree, unless the tree rejected one or batches were lost
\* in a run before.
CompleteAtExit ==
  runPc = "exited" /\ ~cancelled /\ procPc # "rejected" /\ ~lostTail =>
    \A b \in Batches : BlockOf(b) <= endBlock => b <= latestL1Batch

\* A session with polling off comes to an end by itself if the node answers: every
\* task sees the end of the one before it, or that the one behind it is gone.
RunEnds == NodeFairness => (NoPolling ~> runPc \in {"exited", "failed"} \/ ~NoPolling)

\* After an interrupt every task returns and main exits, even if the L1 node
\* never answers again and whatever channel is full.
GracefulShutdown == cancelled ~> (runPc \in {"exited", "failed"} \/ ~cancelled)

\* While polling a node that answers, every finalized batch before one without a
\* block number, and before a transaction that does not parse, reaches the tree unless
\* the session is cancelled, the parse task panicked and main returned, the batch is
\* bad, a kill left it in the tree but not in the database, or batches were lost as
\* described above: full channels and the metrics lock block nobody for ever.
EveryBatchIsApplied ==
  NodeFairness =>
    \A b \in Batches :
      (\A t \in Unmined \cup BadTxs : BatchTx[b] < t) =>
        (BlockOf(b) <= tip /\ ~NoPolling ~>
           \/ b <= latestL1Batch
           \/ cancelled \/ lostTail \/ NoPolling
           \/ parsePc = "panicked" /\ runPc = "failed"
           \/ procPc = "rejected" /\ procBatch \in BadBatches \cup {treeBatch})

\* When the tree rejects a batch the fetcher is stopped as soon as it has one
\* more batch to hand over, and main exits.
RejectionStopsTheRun ==
  procPc = "rejected" /\ parsePc = "send" /\ ~TxBatchesSent
    ~> runPc \in {"exited", "failed"} \/ procPc # "rejected"

\* A panic of the parse task cancels nobody, but once the tx task has one more
\* transaction for it, main returns the error, whatever the main task is doing and
\* even if the L1 node never answers again.
PanicEndsTheRun ==
  parsePc = "panicked" /\ txPc = "send" ~> runPc = "failed" \/ parsePc # "panicked"

=============================================================================
