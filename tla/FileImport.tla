------------------------------ MODULE FileImport ------------------------------
(***************************************************************************)
(* `reconstruct file`: the main function reads the batches of a file that  *)
(* `download` has written and sends them to a tree processor in a task of  *)
(* its own.  It does not wait for that task: when it returns, the runtime  *)
(* lets the task run on until it next waits, and then drops it.            *)
(*                                                                         *)
(*   file --> main --chan--> TreeProcessor::run                            *)
(*                                                                         *)
(* A task waits at every .await that is not ready, and at any .await at    *)
(* all once it has used up its budget of tokio; so it may be dropped at    *)
(* each of them.                                                           *)
(***************************************************************************)
EXTENDS TreeProcessor

CONSTANT ChanCap  \* the capacity of the channel

ASSUME FileAssumption == ChanCap \in Nat \ {0}

VARIABLES
  fileEnd,    \* the last complete batch of the file
  fileWhole,  \* the array of the file is closed
  chan,       \* tx / rx: the batches on their way to the processor
  mainPc      \* main: "off", "send", "done" or "failed"

fileVars   == <<fileEnd, fileWhole, chan, mainPc>>
importVars == <<allVars, fileVars>>

-----------------------------------------------------------------------------
MainOver == mainPc \in {"done", "failed"}
TaskOver == pc \in {"rejected", "panicked"}

\* The batch that main reads next: those before it are in the channel or gone.
NextInFile == offer + Len(chan)

\* A session: the file begins with some batch and ends with a later one; if the
\* download was killed, its array is not closed or its last batch is torn.
OpenFile ==
  /\ Open
  /\ mainPc' = "send"
  /\ chan' = <<>>
  /\ fileEnd' \in (offer' - 1)..NumBatches
  /\ fileWhole' \in BOOLEAN

\* A mutant: the channel takes whatever is sent.
SendBlockUnbounded ==
  /\ mainPc = "send" /\ pc # "genesis"
  /\ NextInFile <= fileEnd
  /\ ~TaskOver
  /\ chan' = Append(chan, NextInFile)
  /\ UNCHANGED <<allVars, fileEnd, fileWhole, mainPc>>

\* TreeProcessor::new ends before main reads the file.
SendBlock ==
  /\ mainPc = "send" /\ pc # "genesis"
  /\ NextInFile <= fileEnd
  /\ ~TaskOver
  /\ Len(chan) < ChanCap
  /\ chan' = Append(chan, NextInFile)
  /\ UNCHANGED <<allVars, fileEnd, fileWhole, mainPc>>

\* A mutant: the error of a send is dropped and the next batch is tried.
SendFailsQuietly == FALSE /\ UNCHANGED importVars

\* tx.send(..).await? after the processor is gone.
SendFails ==
  /\ mainPc = "send"
  /\ NextInFile <= fileEnd
  /\ TaskOver
  /\ mainPc' = "failed"
  /\ UNCHANGED <<allVars, fileEnd, fileWhole, chan>>

\* "objects imported": main returns, or panics on what is no batch.
EndOfFile ==
  /\ mainPc = "send" /\ pc # "genesis"
  /\ NextInFile > fileEnd
  /\ mainPc' = IF fileWhole THEN "done" ELSE "failed"
  /\ UNCHANGED <<allVars, fileEnd, fileWhole, chan>>

MainStep == SendBlock \/ SendFails \/ EndOfFile

-----------------------------------------------------------------------------
\* rx.recv().await: the batch is skipped or worked on.
TakeBlock ==
  /\ chan # <<>>
  /\ SkipBlock \/ ReceiveBlock
  /\ chan' = Tail(chan)
  /\ UNCHANGED <<fileEnd, fileWhole, mainPc>>

\* The steps of insert_block and what follows it.
WorkOnBlock ==
  /\ \/ AddGenesisKeys \/ ExtendGenesis \/ AddInitialKeys \/ AddKeyWrite
     \/ InsertPanics \/ RollBack \/ PersistBatch
  /\ UNCHANGED fileVars

InsertBlock == ExtendTree /\ UNCHANGED fileVars

TaskStep == TakeBlock \/ WorkOnBlock \/ InsertBlock

\* The task has returned, or sees that the sender is gone.
TaskReturns ==
  /\ MainOver
  /\ TaskOver \/ chan = <<>>
  /\ Close
  /\ chan' = <<>>
  /\ UNCHANGED <<fileEnd, fileWhole, mainPc>>

\* The .await of recv, of the lock around a lookup or around add_key, and of the
\* lock taken to store LATEST_L1_BATCH.
TaskWaits == pc \in {"recv", "persist"} \/ (pc = "insert" /\ addPc = "idle")

\* The runtime is dropped and the task with it.
DropTask ==
  /\ MainOver
  /\ TaskWaits
  /\ pc' = "closed"
  /\ torn' = torn \cup OpenWrites
  /\ chan' = <<>>
  /\ UNCHANGED <<keyVars, dirExists, treeVars, latestL1Batch, block, pos, known,
                 offer, sessions, gapped, fileEnd, fileWhole, mainPc>>

KillImport ==
  /\ KillProcessor
  /\ chan' = <<>>
  /\ mainPc' = "failed"
  /\ UNCHANGED <<fileEnd, fileWhole>>

-----------------------------------------------------------------------------
FileInit ==
  /\ TreeInit
  /\ fileEnd = 0 /\ fileWhole = TRUE /\ chan = <<>> /\ mainPc = "off"

FileNext ==
  \/ OpenFile \/ MainStep \/ TaskStep \/ TaskReturns \/ DropTask \/ KillImport

\* Main and the task run; the task also ends when main does.  The third conjunct is
\* the weak fairness of InsertBlock, which is enabled when the block is resolved.
FileSpec ==
  /\ FileInit /\ [][FileNext]_importVars
  /\ WF_importVars(MainStep)
  /\ WF_importVars(TakeBlock \/ WorkOnBlock)
  /\ []<>~BlockResolved \/ []<><<InsertBlock>>_importVars
  /\ WF_importVars(TaskReturns)

-----------------------------------------------------------------------------
(***************************************************************************)
(* Properties                                                              *)
(***************************************************************************)
\* The program is over although main had read the whole file.
ImportIsOver == mainPc = "done" /\ pc = "closed"

\* Of a file that main says was imported, at most the batches of a full channel
\* and the one in work are missing, unless there was a reason to reject one.
LossIsBounded ==
  ImportIsOver /\ torn = {} /\ gapped = 0 /\ (\A b \in BadBatches : b > fileEnd)
    => fileEnd - latestL1Batch <= ChanCap + 1

\* What the runtime drops can be imported again: an honest batch is rejected
\* only after a session that started past the due batch, or one whose last write
\* to the tree and the database that belongs with it were separated.
OnlySeparatedWritesHurt ==
  TaskOver => torn # {} \/ gapped # 0 \/ block \in BadBatches

\* The program comes to an end: a processor that rejects a batch or panics never
\* leaves main waiting for room in the channel, and the task ends with main.
ImportEnds == mainPc = "send" ~> pc = "closed"

\* The message of main says how many objects of the file were imported: once
\* the program is over, the database has got to the end of the file.
ImportedMeansImported == ImportIsOver => latestL1Batch >= fileEnd

=============================================================================
