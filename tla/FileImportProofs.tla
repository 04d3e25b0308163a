-------------------------- MODULE FileImportProofs --------------------------
(***************************************************************************)
(* `reconstruct file` for every chain, every file and every capacity of    *)
(* the channel: when the program can say that a file was imported, what    *)
(* may be missing, and that the tree replays the chain.                    *)
(***************************************************************************)
EXTENDS FileImport, TreeProcessorProofs

-----------------------------------------------------------------------------
(***************************************************************************)
(* The invariant.                                                          *)
(***************************************************************************)
\* The channel, and what main and the task have of the file between them.
ChanInv ==
  /\ chan \in Seq(Nat) /\ Len(chan) <= ChanCap
  /\ fileEnd \in 0..NumBatches
  /\ pc # "import"
  /\ pc = "closed" => mainPc # "send"
  /\ pc # "closed" => offer + Len(chan) <= fileEnd + 1
  /\ pc # "closed" /\ mainPc = "done" => offer + Len(chan) > fileEnd
  /\ pc = "rejected" => offer = block + 1

FileInv == TreeInv /\ (Spoilt \/ StoreInv) /\ ChanInv /\ LossIsBounded

-----------------------------------------------------------------------------
\* The task is dropped where it waits.
LEMMA DropTaskKeeps ==
  ASSUME TreeInv, DropTask
  PROVE  TreeInv' /\ (~Spoilt' => ~Spoilt) /\ (~Spoilt' /\ StoreInv => StoreInv')
<1>1. /\ UNCHANGED <<idx2key, key2idx, lastIndex, addPc, addKey, kills, dirExists>>
      /\ UNCHANGED <<tree, versions, latestL1Batch, block, pos, known, offer, sessions, gapped>>
      /\ pc' = "closed" /\ torn' = torn \cup OpenWrites
      /\ pc \in {"recv", "persist"} \/ (pc = "insert" /\ addPc = "idle")
  BY DEF DropTask, TaskWaits, keyVars, treeVars
<1>2. KeyInv /\ TypeInv /\ PlaceInv
  BY DEF TreeInv
<1>3. addPc = "idle" /\ dirExists /\ KnownKeys' = KnownKeys
  <2>1. pc \in {"recv", "persist"} => addPc = "idle"
    BY <1>2 DEF PlaceInv
  <2> QED BY <1>1, <1>2, <2>1 DEF PlaceInv, KnownKeys
<1>4. OpenWrites \subseteq {"persist"} /\ (pc = "persist" => OpenWrites # {})
  <2>1. {addPc} \cap {"last"} = {}
    BY <1>3
  <2>2. {pc} \cap {"genesis", "persist", "rollback"} \subseteq {"persist"}
    BY <1>1
  <2>3. pc = "persist" => pc \in {pc} \cap {"genesis", "persist", "rollback"}
    OBVIOUS
  <2> QED BY <2>1, <2>2, <2>3 DEF OpenWrites
<1>5. KeyInv' /\ FoundInv' /\ OrderInv' /\ UnkilledStores'
  <2>1. InOrder' => InOrder
    BY <1>1 DEF InOrder
  <2>2. "last" \notin torn' => "last" \notin torn
    BY <1>1
  <2> QED BY <1>1, <2>1, <2>2, SameIndex
<1>6. TypeInv'
  <2>1. "last" \notin torn => "last" \notin torn'
    BY <1>1, <1>4
  <2>2. torn' \subseteq {"genesis", "persist", "rollback", "last"}
    BY <1>1, <1>2, <1>4 DEF TypeInv, TreeTypeOK
  <2>3. TreeTypeOK'
    BY <1>1, <1>2, <1>5, <2>2 DEF TypeInv, TreeTypeOK, KeyInv
  <2> QED BY <1>1, <1>2, <2>1, <2>3 DEF TypeInv
<1>7. PlaceInv'
  BY <1>1, <1>2, <1>3 DEF PlaceInv
<1>8. ~Spoilt' => ~Spoilt /\ pc # "persist"
  <2>1. torn' = {} => torn = {} /\ OpenWrites = {}
    BY <1>1
  <2> QED BY <1>1, <1>4, <2>1 DEF Spoilt
<1>9. ~Spoilt' /\ StoreInv => StoreInv'
  BY <1>1, <1>3, <1>8 DEF StoreInv, KnownAsOf, LeavesOf
<1> QED BY <1>5, <1>6, <1>7, <1>8, <1>9 DEF TreeInv

\* Every step of the program keeps what TreeProcessorProofs proves of the stores.
LEMMA FileStoresKept ==
  ASSUME TreeInv, pc # "import", [FileNext]_importVars
  PROVE  TreeInv' /\ (~Spoilt' => ~Spoilt) /\ (~Spoilt' /\ StoreInv => StoreInv')
<1>1. CASE OpenFile
  BY <1>1, OpenKeeps DEF OpenFile
<1>2. CASE MainStep \/ UNCHANGED importVars
  <2>1. UNCHANGED allVars
    BY <1>2 DEF MainStep, SendBlock, SendFails, EndOfFile, importVars
  <2> QED BY <2>1, TreeStutters
<1>3. CASE TaskStep
  <2>1. TreeStep
    BY <1>3 DEF TaskStep, TakeBlock, WorkOnBlock, InsertBlock, TreeStep
  <2> QED BY <2>1, TreeStepKeeps
<1>4. CASE TaskReturns
  BY <1>4, CloseKeeps DEF TaskReturns
<1>5. CASE DropTask
  BY <1>5, DropTaskKeeps
<1>6. CASE KillImport
  BY <1>6, KillProcessorKeeps DEF KillImport
<1> QED BY <1>1, <1>2, <1>3, <1>4, <1>5, <1>6 DEF FileNext

\* What a step of the task does to the place of the processor.
LEMMA WorkMoves ==
  ASSUME TreeInv, TreeStep, pc # "import",
         ~(SkipBlock \/ ReceiveBlock)
  PROVE  /\ UNCHANGED <<offer, block>>
         /\ pc # "closed" /\ pc' \notin {"closed", "import"}
         /\ pc' = "rejected" => offer = block + 1
<1>1. PlaceInv
  BY DEF TreeInv
<1>2. CASE AddGenesisKeys \/ AddInitialKeys
  BY <1>2 DEF AddGenesisKeys, AddInitialKeys, AddKeys
<1>3. CASE AddKeyWrite
  <2>1. addPc # "idle" /\ UNCHANGED <<pc, block, offer>>
    BY <1>3 DEF AddKeyWrite, AddStep, PutIndexToKey, PutKeyToIndex, PutLastIndex, procVars
  <2> QED BY <1>1, <2>1 DEF PlaceInv
<1>4. CASE ExtendGenesis \/ InsertPanics \/ PersistBatch
  BY <1>4 DEF ExtendGenesis, InsertPanics, PersistBatch
<1>5. CASE ExtendTree
  <2>1. pc' \in {"persist", "rollback"} /\ pc = "insert"
    BY <1>5, ExtendTreeKeeps
  <2> QED BY <1>5, <2>1 DEF ExtendTree
<1>6. CASE RollBack
  BY <1>1, <1>6 DEF RollBack, PlaceInv
<1> QED BY <1>2, <1>3, <1>4, <1>5, <1>6 DEF TreeStep

\* The channel and the file.
LEMMA ChanInvKept ==
  ASSUME FileInv, [FileNext]_importVars
  PROVE  ChanInv'
<1>0. TreeInv /\ ChanInv /\ TypeInv /\ PlaceInv
  BY DEF FileInv, TreeInv
<1>1. /\ offer \in Nat /\ Len(chan) \in Nat /\ fileEnd \in Nat /\ NumBatches \in Nat
      /\ ChanCap \in Nat \ {0}
  BY <1>0, L2Assumption, FileAssumption DEF TypeInv, TreeTypeOK, ChanInv
<1>2. CASE OpenFile
  <2>1. /\ chan' = <<>> /\ mainPc' = "send" /\ fileEnd' \in (offer' - 1)..NumBatches
        /\ offer' \in Batches /\ pc' \in {"recv", "genesis"}
    BY <1>2 DEF OpenFile, Open
  <2>2. chan' \in Seq(Nat) /\ Len(chan') = 0
    BY <2>1
  <2>3. PICK o \in 1..NumBatches : o = offer' /\ \E e \in (o - 1)..NumBatches : e = fileEnd'
    BY <2>1 DEF Batches
  <2>8. PICK e \in (o - 1)..NumBatches : e = fileEnd'
    BY <2>3
  <2>4. pc' \notin {"closed", "import", "rejected"} /\ mainPc' # "done"
    BY <2>1
  <2>5. PICK l \in Nat : l = Len(chan') /\ l = 0
    BY <2>2
  <2>6. e \in 0..NumBatches /\ o + l <= e + 1 /\ l <= ChanCap
    <3>1. NumBatches \in Nat /\ ChanCap \in Nat
      BY <1>1
    <3>2. e \in Int /\ o \in Int /\ o - 1 <= e /\ e <= NumBatches /\ 1 <= o
      BY <3>1
    <3> QED BY <3>1, <3>2, <2>5
  <2>7. fileEnd' \in 0..NumBatches /\ offer' + Len(chan') <= fileEnd' + 1 /\ Len(chan') <= ChanCap
    BY <2>3, <2>5, <2>6, <2>8, Zenon
  <2> QED BY <2>2, <2>4, <2>7 DEF ChanInv
<1>3. CASE SendBlock
  <2>1. /\ mainPc = "send" /\ NextInFile <= fileEnd /\ Len(chan) < ChanCap
        /\ chan' = Append(chan, NextInFile)
        /\ UNCHANGED <<pc, block, offer, fileEnd, mainPc>>
    BY <1>3 DEF SendBlock, allVars, procVars
  <2>2. NextInFile \in Nat /\ NextInFile = offer + Len(chan)
    BY <1>1 DEF NextInFile
  <2>3. chan' \in Seq(Nat) /\ Len(chan') = Len(chan) + 1
    BY <1>0, <2>1, <2>2 DEF ChanInv
  <2> QED BY <1>0, <1>1, <2>1, <2>2, <2>3 DEF ChanInv
<1>4. CASE SendFails \/ EndOfFile
  <2>1. /\ UNCHANGED <<pc, block, offer, fileEnd, chan>> /\ mainPc = "send"
        /\ mainPc' \in {"done", "failed"} /\ (mainPc' = "done" => NextInFile > fileEnd)
    BY <1>4 DEF SendFails, EndOfFile, allVars, procVars
  <2> QED BY <1>0, <2>1 DEF ChanInv, NextInFile
<1>5. CASE TakeBlock
  <2>1. /\ chan # <<>> /\ chan' = Tail(chan) /\ UNCHANGED <<fileEnd, mainPc>>
        /\ offer' = offer + 1 /\ pc = "recv" /\ pc' \in {"recv", "insert"}
    BY <1>5 DEF TakeBlock, SkipBlock, ReceiveBlock
  <2>2. chan' \in Seq(Nat) /\ Len(chan') = Len(chan) - 1
    BY <1>0, <2>1 DEF ChanInv
  <2> QED BY <1>0, <1>1, <2>1, <2>2 DEF ChanInv
<1>6. CASE WorkOnBlock \/ InsertBlock
  <2>1. UNCHANGED <<fileEnd, fileWhole, chan, mainPc>> /\ TreeStep
    BY <1>6 DEF WorkOnBlock, InsertBlock, fileVars, TreeStep
  <2>2. ~(SkipBlock \/ ReceiveBlock)
    <3>1. pc = "recv" => ~(WorkOnBlock \/ InsertBlock)
      <4> SUFFICES ASSUME pc = "recv", WorkOnBlock \/ InsertBlock PROVE FALSE
        OBVIOUS
      <4>1. addPc = "idle"
        BY <1>0 DEF PlaceInv
      <4> QED
        BY <4>1
           DEF WorkOnBlock, InsertBlock, AddGenesisKeys, ExtendGenesis, AddInitialKeys,
               AddKeyWrite, AddStep, PutIndexToKey, PutKeyToIndex, PutLastIndex,
               InsertPanics, RollBack, PersistBatch, ExtendTree, BlockResolved
    <3> QED BY <1>6, <3>1 DEF SkipBlock, ReceiveBlock
  <2>3. /\ UNCHANGED <<offer, block>> /\ pc # "closed" /\ pc' \notin {"closed", "import"}
        /\ pc' = "rejected" => offer = block + 1
    BY <1>0, <2>1, <2>2, WorkMoves DEF ChanInv
  <2> QED BY <1>0, <2>1, <2>3 DEF ChanInv
<1>7. CASE TaskReturns \/ DropTask \/ KillImport
  <2>1. chan' = <<>> /\ fileEnd' = fileEnd /\ pc' = "closed" /\ mainPc' # "send"
    BY <1>7 DEF TaskReturns, Close, DropTask, KillImport, KillProcessor, MainOver
  <2>2. chan' \in Seq(Nat) /\ Len(chan') = 0
    BY <2>1
  <2> QED BY <1>0, <1>1, <2>1, <2>2 DEF ChanInv
<1>8. CASE UNCHANGED importVars
  BY <1>0, <1>8 DEF ChanInv, importVars, allVars, procVars, fileVars
<1> QED BY <1>2, <1>3, <1>4, <1>5, <1>6, <1>7, <1>8 DEF FileNext, MainStep, TaskStep
-----------------------------------------------------------------------------
(***************************************************************************)
(* What is missing of a file that was imported.                            *)
(***************************************************************************)
\* When the program ends, main has read the file, and neither a kill nor a gap
\* nor a wrong batch was in the way, what is missing was in the channel or in
\* work.
LEMMA LossAtEnd ==
  ASSUME FileInv, TaskReturns \/ DropTask
  PROVE  LossIsBounded'
<1> SUFFICES ASSUME mainPc' = "done", pc' = "closed", torn' = {}, gapped' = 0,
                    \A b \in BadBatches : b > fileEnd'
             PROVE  fileEnd' - latestL1Batch' <= ChanCap + 1
  BY DEF LossIsBounded, ImportIsOver
<1>0. TreeInv /\ ChanInv /\ TypeInv /\ PlaceInv
  BY DEF FileInv, TreeInv
<1>1. /\ UNCHANGED <<fileEnd, latestL1Batch, block, offer, gapped>>
      /\ mainPc = "done" /\ gapped = 0
      /\ torn' = torn \/ torn' = torn \cup OpenWrites
  BY DEF TaskReturns, Close, DropTask, history
<1>2. torn = {} /\ ~Spoilt
  BY <1>1 DEF Spoilt
<1>3. StoreInv
  BY <1>2 DEF FileInv
<1>4. /\ offer \in Nat /\ Len(chan) \in Nat /\ fileEnd \in Nat /\ latestL1Batch \in Nat
      /\ ChanCap \in Nat \ {0} /\ Len(chan) <= ChanCap
  BY <1>0, L2Assumption, FileAssumption DEF TypeInv, TreeTypeOK, ChanInv
<1>5. pc # "closed" /\ offer + Len(chan) <= fileEnd + 1 /\ offer + Len(chan) > fileEnd
  BY <1>0, <1>1 DEF TaskReturns, Close, DropTask, TaskWaits, ChanInv
<1>6. CASE pc = "recv"
  <2>1. offer <= latestL1Batch + 1
    BY <1>0, <1>1, <1>6 DEF PlaceInv
  <2> QED BY <1>1, <1>4, <1>5, <2>1
<1>7. CASE pc \in {"insert", "persist"}
  <2>1. offer = block + 1 /\ block = latestL1Batch + 1
    BY <1>0, <1>1, <1>7 DEF PlaceInv
  <2> QED BY <1>1, <1>4, <1>5, <2>1
<1>8. CASE pc \in {"rejected", "panicked"}
  <2>1. pc = "rejected" /\ block \in BadBatches
    BY <1>1, <1>3, <1>8 DEF StoreInv
  <2>2. offer = block + 1 /\ block \in Nat
    BY <1>0, <2>1 DEF ChanInv, TypeInv, TreeTypeOK
  <2>3. block > fileEnd
    BY <1>1, <2>1
  <2> QED BY <1>4, <1>5, <2>2, <2>3
<1> QED
  BY <1>5, <1>6, <1>7, <1>8 DEF TaskReturns, Close, DropTask, TaskWaits

\* The bound holds from one end of the program to the next start.
LEMMA LossIsBoundedKept ==
  ASSUME FileInv, [FileNext]_importVars
  PROVE  LossIsBounded'
<1>0. TreeInv /\ ChanInv /\ LossIsBounded
  BY DEF FileInv
<1>1. CASE TaskReturns \/ DropTask
  BY <1>1, LossAtEnd
<1>2. CASE OpenFile \/ KillImport
  BY <1>2 DEF OpenFile, KillImport, LossIsBounded, ImportIsOver
<1>3. CASE TaskStep
  <2>1. pc' # "closed"
    <3>1. CASE SkipBlock \/ ReceiveBlock
      BY <3>1 DEF SkipBlock, ReceiveBlock
    <3>2. CASE ~(SkipBlock \/ ReceiveBlock)
      <4>1. TreeStep
        BY <1>3 DEF TaskStep, TakeBlock, WorkOnBlock, InsertBlock, TreeStep
      <4> QED BY <1>0, <3>2, <4>1, WorkMoves DEF ChanInv
    <3> QED BY <3>1, <3>2
  <2> QED BY <2>1 DEF LossIsBounded, ImportIsOver
<1>4. CASE MainStep
  <2>1. mainPc = "send" /\ pc' = pc
    BY <1>4 DEF MainStep, SendBlock, SendFails, EndOfFile, allVars, procVars
  <2>2. pc # "closed"
    BY <1>0, <2>1 DEF ChanInv
  <2> QED BY <2>1, <2>2 DEF LossIsBounded, ImportIsOver
<1>5. CASE UNCHANGED importVars
  BY <1>0, <1>5
     DEF LossIsBounded, ImportIsOver, importVars, fileVars, allVars, procVars, history
<1> QED BY <1>1, <1>2, <1>3, <1>4, <1>5 DEF FileNext

\* Before the first run there is nothing.
LEMMA FileInitInv == FileInit => FileInv
<1> SUFFICES ASSUME FileInit PROVE FileInv
  OBVIOUS
<1>1. TreeInit /\ fileEnd = 0 /\ chan = <<>> /\ mainPc = "off"
  BY DEF FileInit
<1>2. TreeInv /\ StoreInv
  BY <1>1, TreeInitInv
<1>3. pc = "closed"
  BY <1>1 DEF TreeInit
<1>4. chan \in Seq(Nat) /\ Len(chan) = 0 /\ 0 \in 0..NumBatches
  BY <1>1, L2Assumption
<1>5. ChanInv
  BY <1>1, <1>3, <1>4, FileAssumption DEF ChanInv
<1>6. LossIsBounded
  BY <1>1 DEF LossIsBounded, ImportIsOver
<1> QED BY <1>2, <1>5, <1>6 DEF FileInv

\* Every step of the program keeps the invariant.
LEMMA FileInvStep == FileInv /\ [FileNext]_importVars => FileInv'
<1> SUFFICES ASSUME FileInv, [FileNext]_importVars PROVE FileInv'
  OBVIOUS
<1>1. TreeInv /\ pc # "import" /\ (Spoilt \/ StoreInv)
  BY DEF FileInv, ChanInv
<1>2. TreeInv' /\ (Spoilt' \/ StoreInv')
  BY <1>1, FileStoresKept
<1> QED BY <1>2, ChanInvKept, LossIsBoundedKept DEF FileInv

\* The inductive invariant of the program.
THEOREM FileInvHolds == FileSpec => []FileInv
BY FileInitInv, FileInvStep, PTL DEF FileSpec

\* Of a file that main says was imported at most the batches of a full channel
\* and the one in work are missing, unless there was a reason to reject one.
THEOREM ImportLossIsBounded == FileSpec => []LossIsBounded
<1>1. FileInv => LossIsBounded
  BY DEF FileInv
<1> QED BY <1>1, FileInvHolds, PTL

\* The processor rejects an honest batch, or panics, only after a start past the
\* due batch or a kill between two writes that belong together.
THEOREM OnlyTornImportsHurt == FileSpec => []OnlySeparatedWritesHurt
<1>1. FileInv => OnlySeparatedWritesHurt
  <2> SUFFICES ASSUME FileInv, TaskOver, torn = {}, gapped = 0 PROVE block \in BadBatches
    BY DEF OnlySeparatedWritesHurt
  <2>1. StoreInv
    BY DEF FileInv, Spoilt
  <2> QED BY <2>1 DEF StoreInv, TaskOver
<1> QED BY <1>1, FileInvHolds, PTL

\* The types of the processor in this program.
THEOREM FileTypesOK == FileSpec => []TreeTypeOK
<1>1. FileInv => TreeTypeOK
  BY DEF FileInv, TreeInv, TypeInv
<1> QED BY <1>1, FileInvHolds, PTL
-----------------------------------------------------------------------------
(***************************************************************************)
(* The tree replays the chain.                                             *)
(***************************************************************************)
\* An accepted batch takes the tree from the state before it to the one after.
LEMMA AcceptedIsReplayed ==
  ASSUME FileInv, ExtendTree, ~Harmed', pc' = "persist"
  PROVE  Replay!ReplayBatch
<1>1. TreeInv /\ TypeInv /\ PlaceInv
  BY DEF FileInv, TreeInv
<1>2. /\ pc = "insert" /\ block \in Batches /\ block \notin BadBatches
      /\ tree' = ChainState[block]
      /\ gapped = 0 => block = latestL1Batch + 1
  BY <1>1, ExtendTreeKeeps
<1>3. UNCHANGED <<block, torn, gapped, latestL1Batch>>
  BY DEF ExtendTree, history
<1>4. gapped = 0 /\ torn = {}
  BY <1>3 DEF Harmed
<1>5. tree = ChainState[latestL1Batch]
  <2>1. StoreInv
    BY <1>4 DEF FileInv, Spoilt
  <2>2. dirExists
    BY <1>1, <1>2 DEF PlaceInv
  <2> QED BY <1>2, <1>4, <2>1, <2>2 DEF StoreInv
<1>6. /\ ReplayedBatch = latestL1Batch /\ ReplayedBatch' = block
      /\ block = latestL1Batch + 1 /\ latestL1Batch < NumBatches
  <2>1. latestL1Batch \in Nat /\ NumBatches \in Nat
    BY <1>1, L2Assumption DEF TypeInv, TreeTypeOK
  <2>2. block = latestL1Batch + 1 /\ block <= NumBatches
    BY <1>2, <1>4, <2>1 DEF Batches
  <2> QED BY <1>2, <1>3, <2>1, <2>2 DEF ReplayedBatch
<1> QED BY <1>2, <1>5, <1>6 DEF Replay!ReplayBatch

\* Whatever is not spoilt rejects only wrong batches.
LEMMA RejectedIsBad ==
  ASSUME FileInv, ExtendTree \/ RollBack, ~Harmed', pc' # "persist"
  PROVE  pc \in {"insert", "rollback"} /\ block \in BadBatches
<1>1. TreeInv /\ UNCHANGED <<block, torn, gapped>>
  BY DEF FileInv, ExtendTree, RollBack, history
<1>2. gapped = 0 /\ torn = {} /\ ~Spoilt /\ ~Spoilt'
  BY <1>1 DEF Harmed, Spoilt
<1>3. StoreInv
  BY <1>2 DEF FileInv
<1>4. CASE ExtendTree
  <2>1. StoreInv' /\ pc' = "rollback" /\ pc = "insert"
    BY <1>1, <1>2, <1>3, <1>4, ExtendTreeKeeps
  <2> QED BY <1>1, <1>2, <2>1 DEF StoreInv
<1>5. CASE RollBack
  <2>1. pc = "rollback"
    BY <1>5 DEF RollBack
  <2> QED BY <1>2, <1>3, <2>1 DEF StoreInv
<1> QED BY <1>4, <1>5

\* All other steps leave what is replayed as it is, or are the harm themselves.
LEMMA OthersStutter ==
  ASSUME FileInv, FileNext, ~ExtendTree, ~RollBack, ~ExtendGenesis, ~Harmed'
  PROVE  UNCHANGED <<tree, ReplayedBatch>>
<1>1. PlaceInv /\ pc # "import"
  BY DEF FileInv, TreeInv, ChanInv
<1>2. CASE OpenFile
  BY <1>2 DEF OpenFile, Open, treeVars, ReplayedBatch
<1>3. CASE MainStep
  BY <1>3 DEF MainStep, SendBlock, SendFails, EndOfFile, allVars, treeVars, procVars, ReplayedBatch
<1>4. CASE SkipBlock \/ ReceiveBlock \/ InsertPanics
  BY <1>4 DEF SkipBlock, ReceiveBlock, InsertPanics, treeVars, ReplayedBatch
<1>5. CASE AddGenesisKeys \/ AddInitialKeys
  BY <1>5 DEF AddGenesisKeys, AddInitialKeys, AddKeys, treeVars, ReplayedBatch
<1>6. CASE AddKeyWrite
  BY <1>6 DEF AddKeyWrite, treeVars, procVars, ReplayedBatch
<1>7. CASE PersistBatch
  BY <1>7 DEF PersistBatch, treeVars, ReplayedBatch
<1>8. CASE TaskReturns
  BY <1>8 DEF TaskReturns, Close, treeVars, ReplayedBatch
<1>9. CASE DropTask \/ KillImport
  <2>1. /\ UNCHANGED <<tree, latestL1Batch>> /\ pc' = "closed" /\ torn' = torn \cup OpenWrites
    BY <1>9 DEF DropTask, KillImport, KillProcessor, treeVars
  <2>2. pc = "persist" => OpenWrites # {}
    <3>1. pc = "persist" => pc \in {pc} \cap {"genesis", "persist", "rollback"}
      OBVIOUS
    <3> QED BY <3>1 DEF OpenWrites
  <2>3. pc # "persist"
    BY <2>1, <2>2 DEF Harmed
  <2> QED BY <2>1, <2>3 DEF ReplayedBatch
<1> QED
  BY <1>2, <1>3, <1>4, <1>5, <1>6, <1>7, <1>8, <1>9
     DEF FileNext, TaskStep, TakeBlock, WorkOnBlock, InsertBlock

\* Until it is harmed the tree goes through the states of the chain, batch by
\* batch: the program implements L2Replay.
THEOREM FileReplaysTheChain == FileSpec => ChainIsReplayed
<1>1. FileInit => Replay!ReplayInit
  <2> SUFFICES ASSUME FileInit PROVE Replay!ReplayInit
    OBVIOUS
  <2>1. DOMAIN tree = {} /\ latestL1Batch = 0 /\ pc = "closed"
    BY DEF FileInit, TreeInit
  <2> QED BY <2>1 DEF Replay!ReplayInit, ReplayedBatch
<1>2. FileInv /\ [FileNext]_importVars =>
        [~Harmed' /\ ~(pc \in {"insert", "rollback"} /\ block \in BadBatches)
           => Replay!ReplayNext]_<<tree, ReplayedBatch>>
  <2> SUFFICES ASSUME FileInv, [FileNext]_importVars, ~Harmed',
                      ~(pc \in {"insert", "rollback"} /\ block \in BadBatches)
               PROVE  Replay!ReplayNext \/ UNCHANGED <<tree, ReplayedBatch>>
    OBVIOUS
  <2>1. CASE UNCHANGED importVars
    BY <2>1 DEF importVars, allVars, treeVars, procVars, ReplayedBatch
  <2>2. CASE ExtendTree
    <3>1. pc' = "persist"
      BY <2>2, RejectedIsBad
    <3> QED BY <2>2, <3>1, AcceptedIsReplayed DEF Replay!ReplayNext
  <2>3. CASE RollBack
    <3>1. pc' # "persist"
      BY <2>3 DEF RollBack
    <3> QED BY <2>3, <3>1, RejectedIsBad
  <2>4. CASE ExtendGenesis
    <3>1. tree' = ChainState[0] /\ DOMAIN tree = {}
      BY <2>4, ExtendGenesisKeeps DEF FileInv
    <3>2. ReplayedBatch' = ReplayedBatch
      BY <2>4 DEF ExtendGenesis, ReplayedBatch
    <3> QED BY <3>1, <3>2 DEF Replay!ReplayNext, Replay!StartFromGenesis
  <2> QED BY <2>1, <2>2, <2>3, <2>4, OthersStutter
<1> QED BY <1>1, <1>2, FileInvHolds, PTL DEF FileSpec, ChainIsReplayed

=============================================================================
