--------------------------- MODULE SnapshotProofs ---------------------------
(***************************************************************************)
(* `prepare-snapshot` and the export of what it has built.  First the      *)
(* database: for every chain and however often the tool is killed, what    *)
(* it holds of a batch whose block is stored is the state of that batch.   *)
(* WriteInv says of the three writes of insert_storage_log what            *)
(* LogsPointBack leaves open: the entry of the index is there before the   *)
(* counter moves, and the counter has moved before the log is written.     *)
(* Then the directory: for every number of batches, chunks, exports and    *)
(* kills, any spellings of the directory and any lengths of the paths in   *)
(* the header, the chunks and the header of a directory are what the       *)
(* exports so far have left, an import reads the state of one export but   *)
(* for the two ways that the property names, and what was finished can be  *)
(* read.                                                                   *)
(***************************************************************************)
EXTENDS SnapshotBuilder, SnapshotFiles, L2LedgerProofs

\* An insertion that is under way has written what comes before its step.
WriteInv ==
  /\ write \in {"index", "last", "log"}
  /\ write # "index" => pc \in {"genesis", "initial"}
  /\ write = "last" =>
       lastIdx + 1 \in DOMAIN idx2key /\ idx2key[lastIdx + 1] = Inserts[pos].key
  /\ write = "log" =>
       lastIdx >= 1 /\ idx2key[lastIdx] = Inserts[pos].key

\* Every log is a record whose index is not above the counter.
LogInv ==
  \A k \in DOMAIN logs :
    /\ logs[k] = [index |-> logs[k].index, value |-> logs[k].value]
    /\ logs[k].index \in 1..lastIdx

SnapInv == lastIdx \in Nat /\ LogsPointBack /\ LogInv /\ WriteInv

-----------------------------------------------------------------------------
\* An empty database satisfies the invariant.
LEMMA SnapInitInv == SnapInit => SnapInv
BY DEF SnapInit, SnapInv, LogsPointBack, LogInv, WriteInv

\* The first write of insert_storage_log.
LEMMA PutIndexKeepsInv == SnapInv /\ PutIndex => SnapInv'
<1> SUFFICES ASSUME SnapInv, PutIndex PROVE SnapInv'
  OBVIOUS
<1>1. /\ idx2key' = Put(idx2key, lastIdx + 1, Inserts[pos].key)
      /\ write' = "last" /\ pc \in {"genesis", "initial"}
      /\ UNCHANGED <<logs, lastIdx, pc, pos, block>> /\ lastIdx \in Nat
  BY DEF PutIndex, SnapInv
<1>2. /\ DOMAIN idx2key' = DOMAIN idx2key \cup {lastIdx + 1}
      /\ idx2key'[lastIdx + 1] = Inserts[pos].key
      /\ \A i \in DOMAIN idx2key : i # lastIdx + 1 => idx2key'[i] = idx2key[i]
  BY <1>1 DEF Put
<1>3. Inserts' = Inserts
  BY <1>1 DEF Inserts, InitialChanges
<1>4. LogInv'
  BY <1>1 DEF SnapInv, LogInv
<1>5. LogsPointBack'
  BY <1>1, <1>2 DEF SnapInv, LogsPointBack, LogInv
<1>6. WriteInv'
  BY <1>1, <1>2, <1>3 DEF WriteInv
<1> QED BY <1>1, <1>4, <1>5, <1>6 DEF SnapInv

\* The second write.
LEMMA PutLastKeepsInv == SnapInv /\ PutLast => SnapInv'
<1> SUFFICES ASSUME SnapInv, PutLast PROVE SnapInv'
  OBVIOUS
<1>1. /\ write = "last" /\ write' = "log" /\ lastIdx' = lastIdx + 1
      /\ UNCHANGED <<logs, idx2key, pc, pos, block>> /\ lastIdx \in Nat
      /\ pc \in {"genesis", "initial"}
      /\ lastIdx + 1 \in DOMAIN idx2key /\ idx2key[lastIdx + 1] = Inserts[pos].key
  BY DEF PutLast, SnapInv, WriteInv
<1>2. Inserts' = Inserts
  BY <1>1 DEF Inserts, InitialChanges
<1>3. LogInv'
  BY <1>1 DEF SnapInv, LogInv
<1>4. LogsPointBack'
  BY <1>1 DEF SnapInv, LogsPointBack
<1>5. WriteInv'
  BY <1>1, <1>2 DEF WriteInv
<1> QED BY <1>1, <1>3, <1>4, <1>5 DEF SnapInv

\* The third write.
LEMMA PutLogKeepsInv == SnapInv /\ PutLog => SnapInv'
<1> SUFFICES ASSUME SnapInv, PutLog PROVE SnapInv'
  OBVIOUS
<1> DEFINE key == Inserts[pos].key
           log == [index |-> lastIdx,
                   value |-> ProcessValue(key, Inserts[pos].op, Inserts[pos].value)]
<1>1. /\ write = "log" /\ write' = "index" /\ logs' = Put(logs, key, log)
      /\ UNCHANGED <<idx2key, lastIdx>> /\ lastIdx \in Nat
      /\ lastIdx >= 1 /\ idx2key[lastIdx] = key
  BY DEF PutLog, SnapInv, WriteInv
<1>2. /\ DOMAIN logs' = DOMAIN logs \cup {key} /\ logs'[key] = log
      /\ \A k \in DOMAIN logs : k # key => logs'[k] = logs[k]
  BY <1>1 DEF Put
<1>3. log.index = lastIdx /\ log = [index |-> log.index, value |-> log.value]
  OBVIOUS
<1> HIDE DEF key, log
<1>4. LogInv'
  BY <1>1, <1>2, <1>3 DEF SnapInv, LogInv
<1>5. LogsPointBack'
  BY <1>1, <1>2, <1>3 DEF SnapInv, LogsPointBack
<1>6. WriteInv'
  BY <1>1 DEF WriteInv
<1> QED BY <1>1, <1>4, <1>5, <1>6 DEF SnapInv

\* The write of update_storage_log_entry.
LEMMA UpdateLogKeepsInv == SnapInv /\ UpdateLog => SnapInv'
<1> SUFFICES ASSUME SnapInv, UpdateLog PROVE SnapInv'
  OBVIOUS
<1>1. PICK r \in pending :
        /\ idx2key[r.index] \in DOMAIN logs
        /\ logs' = [logs EXCEPT ![idx2key[r.index]].value =
                      ProcessValue(idx2key[r.index], r.op, r.value)]
  BY DEF UpdateLog
<1>2. pc = "repeated" /\ UNCHANGED <<idx2key, lastIdx, pc, write>> /\ lastIdx \in Nat
  BY DEF UpdateLog, SnapInv
<1>3. DOMAIN logs' = DOMAIN logs
  BY <1>1
<1>4. ASSUME NEW k \in DOMAIN logs
      PROVE  logs'[k].index = logs[k].index
             /\ logs'[k] = [index |-> logs'[k].index, value |-> logs'[k].value]
  <2> DEFINE v == ProcessValue(idx2key[r.index], r.op, r.value)
  <2> HIDE DEF v
  <2>1. logs' = [logs EXCEPT ![idx2key[r.index]] = [logs[idx2key[r.index]] EXCEPT !.value = v]]
    BY <1>1 DEF v
  <2>2. logs[k] = [index |-> logs[k].index, value |-> logs[k].value]
    BY DEF SnapInv, LogInv
  <2> QED BY <1>1, <2>1, <2>2
<1>5. LogInv'
  BY <1>2, <1>3, <1>4 DEF SnapInv, LogInv
<1>6. LogsPointBack'
  BY <1>2, <1>3, <1>4 DEF SnapInv, LogsPointBack
<1>7. WriteInv'
  BY <1>2 DEF SnapInv, WriteInv
<1> QED BY <1>2, <1>5, <1>6, <1>7 DEF SnapInv

\* The other steps leave the logs and the index alone, and no insertion is under
\* way after them.
LEMMA OtherStepsKeepInv ==
  ASSUME SnapInv, UNCHANGED <<logs, idx2key, lastIdx>>, write' = "index"
  PROVE  SnapInv'
BY DEF SnapInv, LogsPointBack, LogInv, WriteInv

\* Every step keeps the invariant.
LEMMA SnapInvStep == SnapInv /\ [SnapNext]_snapVars => SnapInv'
<1> SUFFICES ASSUME SnapInv, [SnapNext]_snapVars PROVE SnapInv'
  OBVIOUS
<1>1. CASE PutIndex
  BY <1>1, PutIndexKeepsInv
<1>2. CASE PutLast
  BY <1>2, PutLastKeepsInv
<1>3. CASE PutLog
  BY <1>3, PutLogKeepsInv
<1>4. CASE UpdateLog
  BY <1>4, UpdateLogKeepsInv
<1>5. CASE Open \/ KillBuilder
  <2>1. UNCHANGED <<logs, idx2key, lastIdx>> /\ write' = "index"
    BY <1>5 DEF Open, KillBuilder, dbVars
  <2> QED BY <2>1, OtherStepsKeepInv
<1>6. CASE GenesisDone \/ InitialDone
  <2>1. UNCHANGED <<logs, idx2key, lastIdx>> /\ write' = "index"
    BY <1>6 DEF GenesisDone, InitialDone, Inserted, dbVars
  <2> QED BY <2>1, OtherStepsKeepInv
<1>7. CASE ReceiveBlock \/ LookupPanics \/ SetBatch \/ SetBlock \/ Close
  <2>1. UNCHANGED <<logs, idx2key, lastIdx, write>> /\ pc \notin {"genesis", "initial"}
    BY <1>7 DEF ReceiveBlock, LookupPanics, SetBatch, SetBlock, Close, dbVars
  <2>2. write = "index"
    BY <2>1 DEF SnapInv, WriteInv
  <2> QED BY <2>1, <2>2, OtherStepsKeepInv
<1>8. CASE UNCHANGED snapVars
  <2>1. UNCHANGED <<logs, idx2key, lastIdx, pc, write, pos, block>>
    BY <1>8 DEF snapVars, dbVars, workVars
  <2>2. Inserts' = Inserts
    BY <2>1 DEF Inserts, InitialChanges
  <2> QED BY <2>1, <2>2 DEF SnapInv, LogsPointBack, LogInv, WriteInv
<1> QED
  BY <1>1, <1>2, <1>3, <1>4, <1>5, <1>6, <1>7, <1>8 DEF SnapNext

\* SnapInv is an inductive invariant of the builder.
THEOREM SnapInvHolds == SnapSpec => []SnapInv
BY SnapInitInv, SnapInvStep, PTL DEF SnapSpec

\* Wherever the builder is killed, each index up to the counter of
\* SnapshotDatabase::insert_storage_log has a key, and each log an index that
\* leads back to its key.
THEOREM ExportedIndicesPointBack == SnapSpec => []LogsPointBack
<1>1. SnapInv => LogsPointBack
  BY DEF SnapInv
<1> QED BY <1>1, SnapInvHolds, PTL

-----------------------------------------------------------------------------
(***************************************************************************)
(* The state of the chain.                                                 *)
(***************************************************************************)
Clean == ~torn /\ ~split

\* The indices that were given so far are those of the chain.
IndicesAreOf(b) ==
  \A i \in 1..lastIdx :
    idx2key[i] \in DOMAIN ChainState[b] /\ ChainState[b][idx2key[i]].index = i

\* The database holds the state after batch b.
HoldsAllOf(b) == lastIdx = NumKeys(b) /\ logs = ChainState[b] /\ IndicesAreOf(b)

BlockIsStored == latestL1Block = IF latestBatch = 0 THEN 0 ELSE L1Block[latestBatch]

\* The keys that were there before the insertions, and how many.
OldKeys == IF pc = "genesis" THEN {} ELSE DOMAIN ChainState[block - 1]
NumOld  == IF pc = "genesis" THEN 0 ELSE NumKeys(block - 1)
Target  == IF pc = "genesis" THEN 0 ELSE block

\* The first pos - 1 logs are inserted, and none of the old ones has changed.
InsertInv ==
  /\ pos \in 1..(Len(Inserts) + 1)
  /\ write # "index" => pos <= Len(Inserts)
  /\ DOMAIN logs = OldKeys \cup {Inserts[j].key : j \in 1..(pos - 1)}
  /\ \A j \in 1..(pos - 1) : logs[Inserts[j].key] = ChainState[Target][Inserts[j].key]
  /\ \A k \in OldKeys : logs[k] = ChainState[block - 1][k]
  /\ lastIdx = NumOld + (pos - 1) + (IF write = "log" THEN 1 ELSE 0)
  /\ IndicesAreOf(Target)

\* The repeated changes that are left are those of the logs that still have the
\* value of the batch before.
UpdateInv ==
  /\ pending \subseteq RepeatedChanges(block)
  /\ lastIdx = NumKeys(block) /\ IndicesAreOf(block)
  /\ DOMAIN logs = DOMAIN ChainState[block]
  /\ \A k \in DOMAIN logs :
       logs[k] = IF \E r \in pending : r.index = ChainState[block][k].index
                 THEN ChainState[block - 1][k] ELSE ChainState[block][k]

OnBatch == block \in Batches /\ latestBatch = block - 1 /\ offer = block + 1 /\ BlockIsStored

\* The database at each point of a session, and between two of them.
ChainInv ==
  Clean =>
    /\ pc \in {"closed", "genesis", "recv", "initial", "repeated", "stored"}
    /\ latestBatch \in 0..NumBatches
    /\ pc = "closed" =>
         \/ lastIdx = 0 /\ DOMAIN logs = {} /\ latestBatch = 0 /\ latestL1Block = 0
         \/ HoldsAllOf(latestBatch) /\ BlockIsStored
    /\ pc = "genesis" => latestBatch = 0 /\ latestL1Block = 0 /\ offer = 1 /\ InsertInv
    /\ pc = "recv" => HoldsAllOf(latestBatch) /\ BlockIsStored /\ offer = latestBatch + 1
    /\ pc = "initial" => OnBatch /\ InsertInv
    /\ pc = "repeated" => OnBatch /\ UpdateInv
    /\ pc = "stored" =>
         block \in Batches /\ latestBatch = block /\ offer = block + 1 /\ HoldsAllOf(block)

BuilderInv == SnapInv /\ ChainInv /\ logs = [k \in DOMAIN logs |-> logs[k]]

-----------------------------------------------------------------------------
\* The logs that are inserted are the keys which the state they lead to adds, in
\* the order of their indices.
LEMMA InsertFacts ==
  ASSUME pc = "genesis" \/ (pc = "initial" /\ block \in Batches)
  PROVE  /\ Len(Inserts) \in Nat /\ NumOld \in Nat /\ Target \in 0..NumBatches
         /\ NumKeys(Target) = NumOld + Len(Inserts)
         /\ DOMAIN ChainState[Target] = OldKeys \cup {Inserts[j].key : j \in 1..Len(Inserts)}
         /\ \A j \in 1..Len(Inserts) :
              /\ Inserts[j].key \notin OldKeys
              /\ ChainState[Target][Inserts[j].key]
                   = [index |-> NumOld + j, value |-> Unpack(Inserts[j].op, 0, Inserts[j].value)]
         /\ \A j, l \in 1..Len(Inserts) : Inserts[j].key = Inserts[l].key => j = l
         /\ \A k \in OldKeys : ChainState[Target][k].index = ChainState[block - 1][k].index
<1>0. NumBatches \in Nat \ {0}
  BY L2Assumption
<1>1. CASE pc = "genesis"
  <2>1. /\ Genesis \in Seq([key : KeysOf(Genesis), value : Words])
        /\ \A i, j \in DOMAIN Genesis : Genesis[i].key = Genesis[j].key => i = j
    BY L2Assumption DEF OneWritePerKey
  <2>2. Len(Genesis) \in Nat /\ DOMAIN Genesis = 1..Len(Genesis)
    BY <2>1
  <2>3. Inserts = [i \in 1..Len(Genesis) |->
                    [key |-> Genesis[i].key, op |-> "none", value |-> Genesis[i].value]]
    BY <1>1, <2>2 DEF Inserts
  <2>4. Len(Inserts) = Len(Genesis)
    BY <2>2, <2>3
  <2>5. \A j \in 1..Len(Inserts) : /\ Inserts[j].key = Genesis[j].key
                                  /\ Unpack(Inserts[j].op, 0, Inserts[j].value) = Genesis[j].value
    BY <2>3, <2>4 DEF Unpack
  <2>6. OldKeys = {} /\ NumOld = 0 /\ Target = 0
    BY <1>1 DEF OldKeys, NumOld, Target
  <2>7. ChainState[0] = GenesisState /\ DOMAIN ChainState[0] = KeysOf(Genesis)
        /\ EnumeratedBy(ChainState[0], Len(Genesis))
    BY ChainFacts, GenesisFacts
  <2>8. NumKeys(0) = Len(Genesis)
    BY <2>7, EnumeratedCardinality DEF NumKeys
  <2>9. KeysOf(Genesis) = {Inserts[j].key : j \in 1..Len(Inserts)}
    BY <2>2, <2>4, <2>5 DEF KeysOf
  <2>10. ASSUME NEW j \in 1..Len(Inserts)
         PROVE  ChainState[0][Inserts[j].key]
                  = [index |-> NumOld + j, value |-> Unpack(Inserts[j].op, 0, Inserts[j].value)]
    BY <2>4, <2>5, <2>6, <2>7, GenesisFacts
  <2>11. \A j, l \in 1..Len(Inserts) : Inserts[j].key = Inserts[l].key => j = l
    BY <2>1, <2>2, <2>4, <2>5
  <2> QED BY <1>0, <2>2, <2>4, <2>6, <2>7, <2>8, <2>9, <2>10, <2>11
<1>2. CASE pc = "initial" /\ block \in Batches
  <2>1. Inserts = InitialChanges(block) /\ OldKeys = DOMAIN ChainState[block - 1]
        /\ NumOld = NumKeys(block - 1) /\ Target = block
    BY <1>2 DEF Inserts, OldKeys, NumOld, Target
  <2>2. block \in 0..NumBatches /\ block - 1 \in 0..NumBatches
    BY <1>0, <1>2 DEF Batches
  <2>3. NumKeys(block - 1) \in Nat
    BY <2>2, StateFacts
  <2> DEFINE new == InitialChanges(block)
  <2>4. /\ Len(new) \in Nat /\ NumKeys(block) = NumKeys(block - 1) + Len(new)
        /\ DOMAIN ChainState[block]
             = DOMAIN ChainState[block - 1] \cup {new[j].key : j \in 1..Len(new)}
        /\ \A j \in 1..Len(new) :
             /\ new[j].key \notin DOMAIN ChainState[block - 1]
             /\ ChainState[block][new[j].key]
                  = [index |-> NumKeys(block - 1) + j,
                     value |-> Unpack(new[j].op, 0, new[j].value)]
        /\ \A k \in DOMAIN ChainState[block - 1] :
             ChainState[block][k].index = ChainState[block - 1][k].index
    BY <1>2, InitialFacts
  <2> HIDE DEF new
  <2>5. ASSUME NEW j \in 1..Len(new)
        PROVE  ChainState[block][new[j].key].index = NumKeys(block - 1) + j
    <3> DEFINE v == Unpack(new[j].op, 0, new[j].value)
    <3>1. ChainState[block][new[j].key] = [index |-> NumKeys(block - 1) + j, value |-> v]
      BY <2>4
    <3> HIDE DEF v
    <3> QED BY <3>1
  <2>6. \A j, l \in 1..Len(new) : new[j].key = new[l].key => j = l
    BY <2>3, <2>5
  <2>7. /\ Inserts = new /\ Target = block
        /\ OldKeys = DOMAIN ChainState[block - 1] /\ NumOld = NumKeys(block - 1)
    BY <2>1 DEF new
  <2> QED BY <2>2, <2>3, <2>4, <2>6, <2>7
<1> QED BY <1>1, <1>2

\* A key of a state has an index there that no other key has.
LEMMA SameIndexSameKey ==
  ASSUME NEW b \in 0..NumBatches, NEW k \in DOMAIN ChainState[b],
         NEW l \in DOMAIN ChainState[b], ChainState[b][k].index = ChainState[b][l].index
  PROVE  k = l
BY StateFacts

\* Two databases with the same logs are the same.
LEMMA SameLogs ==
  ASSUME NEW b \in 0..NumBatches, logs = [k \in DOMAIN logs |-> logs[k]],
         DOMAIN logs = DOMAIN ChainState[b],
         \A k \in DOMAIN logs : logs[k] = ChainState[b][k]
  PROVE  logs = ChainState[b]
<1> DEFINE f == ChainState[b]
<1>1. f = [k \in DOMAIN f |-> [index |-> f[k].index, value |-> f[k].value]]
  BY StateFacts, Zenon
<1>2. f = [k \in DOMAIN f |-> f[k]]
  <2> HIDE DEF f
  <2> QED BY <1>1
<1> HIDE DEF f
<1> QED BY <1>2 DEF f

\* While no index above those of an earlier state was given, the indices that
\* were given are those of that state.
LEMMA EarlierIndices ==
  ASSUME NEW a \in 0..NumBatches, NEW b \in a..NumBatches, lastIdx = NumKeys(a)
  PROVE  IndicesAreOf(b) <=> IndicesAreOf(a)
<1>1. b \in 0..NumBatches /\ NumKeys(a) \in Nat
  <2>1. NumKeys(a) \in Nat
    BY StateFacts
  <2> QED BY <2>1, L2Assumption
<1>2. /\ \A k \in DOMAIN ChainState[a] :
           k \in DOMAIN ChainState[b] /\ ChainState[b][k].index = ChainState[a][k].index
      /\ \A k \in DOMAIN ChainState[b] :
           ChainState[b][k].index <= NumKeys(a) => k \in DOMAIN ChainState[a]
  BY ChainGrows
<1>3. ASSUME NEW i \in 1..lastIdx, NEW k
      PROVE  k \in DOMAIN ChainState[a] /\ ChainState[a][k].index = i
             <=> k \in DOMAIN ChainState[b] /\ ChainState[b][k].index = i
  BY <1>1, <1>2
<1> QED BY <1>3 DEF IndicesAreOf

\* The genesis state is never empty, and neither is a later one.
LEMMA SomeKeys ==
  ASSUME NEW b \in 0..NumBatches
  PROVE  NumKeys(b) \in Nat \ {0}
<1>1. Len(Genesis) \in Nat \ {0}
  <2>1. Genesis \in Seq([key : KeysOf(Genesis), value : Words]) /\ Genesis # <<>>
    BY L2Assumption
  <2> QED BY <2>1
<1>2. NumKeys(0) = Len(Genesis)
  BY ChainFacts, GenesisFacts, EnumeratedCardinality DEF NumKeys
<1>3. 0 \in 0..NumBatches /\ b \in 0..NumBatches
  BY L2Assumption
<1>4. NumKeys(0) <= NumKeys(b)
  BY <1>3, ChainGrows
<1>5. NumKeys(b) \in Nat
  BY StateFacts
<1> QED BY <1>1, <1>2, <1>4, <1>5

\* When the session did not begin inside an L1 block, the first batch from the
\* start block on is the one after the stored batch.
LEMMA FirstFromNext ==
  ASSUME latestBatch \in 0..NumBatches, BlockIsStored,
         ~(latestBatch \in 1..(NumBatches - 1) /\ L1Block[latestBatch + 1] = latestL1Block)
  PROVE  FirstFrom(StartBlock) = latestBatch + 1
<1>1. /\ NumBatches \in Nat \ {0} /\ \A b \in Batches : L1Block[b] \in Nat \ {0}
      /\ \A a, b \in Batches : a <= b => L1Block[a] <= L1Block[b]
  BY L2Assumption, SnapshotAssumption
<1> DEFINE n == StartBlock
<1>2. CASE latestBatch = NumBatches
  <2>1. NumBatches \in Batches /\ latestL1Block = L1Block[NumBatches] /\ latestL1Block > 0
        /\ n = latestL1Block + 1
    BY <1>1, <1>2 DEF BlockIsStored, StartBlock, Batches
  <2>2. \A b \in Batches : b <= NumBatches
    BY DEF Batches
  <2>3. \A b \in Batches : ~(L1Block[b] >= n)
    BY <1>1, <2>1, <2>2
  <2> QED BY <1>2, <2>3 DEF FirstFrom
<1>3. CASE latestBatch # NumBatches
  <2> DEFINE next == latestBatch + 1
  <2>1. next \in Batches /\ latestBatch \in Nat
    BY <1>1, <1>3 DEF Batches
  <2>2. L1Block[next] >= n /\ \A c \in Batches : L1Block[c] >= n => next <= c
    <3>1. CASE latestBatch = 0
      <4>1. n = 0
        BY <3>1 DEF BlockIsStored, StartBlock
      <4> QED BY <1>1, <2>1, <3>1, <4>1 DEF Batches
    <3>2. CASE latestBatch # 0
      <4>1. latestBatch \in Batches /\ latestBatch \in 1..(NumBatches - 1)
        BY <1>1, <1>3, <2>1, <3>2 DEF Batches
      <4>2. latestL1Block = L1Block[latestBatch]
        BY <3>2 DEF BlockIsStored
      <4>3. n = latestL1Block + 1 /\ latestL1Block \in Nat
        BY <1>1, <4>1, <4>2 DEF StartBlock
      <4>4. L1Block[next] # latestL1Block /\ L1Block[latestBatch] <= L1Block[next]
        BY <1>1, <2>1, <4>1
      <4>5. L1Block[next] \in Nat
        BY <1>1, <2>1
      <4>6. \A c \in Batches : c <= latestBatch => L1Block[c] <= latestL1Block
        BY <1>1, <4>1, <4>2
      <4>7. \A c \in Batches : c \in Nat /\ L1Block[c] \in Nat
        BY <1>1 DEF Batches
      <4> HIDE DEF n
      <4>8. L1Block[next] >= n
        <5> HIDE DEF next
        <5> QED BY <4>2, <4>3, <4>4, <4>5
      <4> QED BY <2>1, <4>3, <4>6, <4>7, <4>8
    <3> QED BY <3>1, <3>2
  <2>3. \A b \in Batches : (L1Block[b] >= n /\ \A c \in Batches : L1Block[c] >= n => b <= c)
                           => b = next
    <3> HIDE DEF next, n
    <3>1. \A b \in Batches : b \in Nat
      BY DEF Batches
    <3> QED BY <2>1, <2>2, <3>1
  <2> HIDE DEF n, next
  <2>4. FirstFrom(n) = CHOOSE b \in Batches : L1Block[b] >= n
                          /\ \A c \in Batches : L1Block[c] >= n => b <= c
    BY <2>1, <2>2 DEF FirstFrom
  <2>5. FirstFrom(n) = next
    BY <2>1, <2>2, <2>3, <2>4
  <2> QED BY <2>5 DEF n, next
<1> QED BY <1>2, <1>3

-----------------------------------------------------------------------------
\* The steps of insert_storage_log, and the fetcher's.  The state is that of a
\* database that no kill and no start of a session has spoilt.
CleanInv == BuilderInv /\ Clean

\* The entry of the index is that of the chain for the key.
LEMMA PutIndexKeepsChain ==
  ASSUME CleanInv, PutIndex
  PROVE  ChainInv'
<1>1. /\ pc \in {"genesis", "initial"} /\ pos <= Len(Inserts) /\ lastIdx \in Nat
      /\ UNCHANGED <<logs, lastIdx, latestBatch, latestL1Block, pc, pos, block, offer>>
      /\ write = "index" /\ write' = "last"
      /\ idx2key' = Put(idx2key, lastIdx + 1, Inserts[pos].key)
      /\ InsertInv /\ (pc = "initial" => OnBatch)
  BY DEF PutIndex, CleanInv, BuilderInv, SnapInv, ChainInv
<1>2. \A i \in 1..lastIdx : i \in DOMAIN idx2key
  BY DEF CleanInv, BuilderInv, SnapInv, LogsPointBack
<1>3. \A i \in 1..lastIdx : idx2key'[i] = idx2key[i]
  BY <1>1, <1>2 DEF Put
<1>4. Inserts' = Inserts /\ OldKeys' = OldKeys /\ NumOld' = NumOld /\ Target' = Target
  BY <1>1 DEF Inserts, InitialChanges, OldKeys, NumOld, Target
<1>5. IndicesAreOf(Target) => IndicesAreOf(Target)'
  BY <1>1, <1>3, <1>4 DEF IndicesAreOf
<1>6. InsertInv'
  <2>1. /\ UNCHANGED <<logs, lastIdx, pos, block>> /\ write = "index" /\ write' = "last"
        /\ pos <= Len(Inserts) /\ InsertInv
    BY <1>1
  <2> QED BY ONLY <1>4, <1>5, <2>1 DEF InsertInv
<1>7. pc = "initial" => OnBatch'
  BY <1>1 DEF OnBatch, BlockIsStored
<1> QED BY <1>1, <1>6, <1>7 DEF ChainInv, CleanInv, BuilderInv

\* The counter moves to the index of the key.
LEMMA PutLastKeepsChain ==
  ASSUME CleanInv, PutLast
  PROVE  ChainInv'
<1>1. /\ pc \in {"genesis", "initial"} /\ lastIdx \in Nat /\ lastIdx' = lastIdx + 1
      /\ UNCHANGED <<logs, idx2key, latestBatch, latestL1Block, pc, pos, block, offer>>
      /\ write = "last" /\ write' = "log"
      /\ idx2key[lastIdx + 1] = Inserts[pos].key
  BY DEF PutLast, CleanInv, BuilderInv, SnapInv, WriteInv
<1>2. InsertInv /\ (pc = "initial" => OnBatch)
  BY <1>1 DEF CleanInv, BuilderInv, ChainInv
<1>3. Inserts' = Inserts /\ OldKeys' = OldKeys /\ NumOld' = NumOld /\ Target' = Target
  BY <1>1 DEF Inserts, InitialChanges, OldKeys, NumOld, Target
<1>4. pc = "genesis" \/ (pc = "initial" /\ block \in Batches)
  BY <1>1, <1>2 DEF OnBatch
<1>5. /\ pos \in 1..Len(Inserts) /\ lastIdx = NumOld + (pos - 1) /\ Len(Inserts) \in Nat
      /\ NumOld \in Nat
  BY <1>1, <1>2, <1>4, InsertFacts DEF InsertInv
<1>6. ChainState[Target][Inserts[pos].key].index = lastIdx + 1
      /\ Inserts[pos].key \in DOMAIN ChainState[Target]
  <2> DEFINE v == Unpack(Inserts[pos].op, 0, Inserts[pos].value)
  <2>1. /\ ChainState[Target][Inserts[pos].key] = [index |-> NumOld + pos, value |-> v]
        /\ Inserts[pos].key \in DOMAIN ChainState[Target]
    BY <1>4, <1>5, InsertFacts
  <2> HIDE DEF v
  <2> QED BY <1>5, <2>1
<1>7. IndicesAreOf(Target)'
  BY <1>1, <1>2, <1>3, <1>6 DEF IndicesAreOf, InsertInv
<1>8. lastIdx' = NumOld' + (pos' - 1) + 1
  BY <1>1, <1>3, <1>5
<1>9. InsertInv'
  BY <1>1, <1>2, <1>3, <1>5, <1>7, <1>8 DEF InsertInv
<1>10. pc = "initial" => OnBatch'
  BY <1>1, <1>2 DEF OnBatch, BlockIsStored
<1> QED BY <1>1, <1>2, <1>9, <1>10 DEF ChainInv, CleanInv, BuilderInv

\* The log of a new key is the leaf that the chain has for it.
LEMMA PutLogKeepsChain ==
  ASSUME CleanInv, PutLog
  PROVE  ChainInv'
<1> DEFINE w == Inserts[pos]
           log == [index |-> lastIdx, value |-> ProcessValue(w.key, w.op, w.value)]
<1>1. /\ pc \in {"genesis", "initial"} /\ lastIdx \in Nat
      /\ UNCHANGED <<lastIdx, idx2key, latestBatch, latestL1Block, pc, block, offer>>
      /\ write = "log" /\ write' = "index" /\ pos' = pos + 1
      /\ logs' = Put(logs, w.key, log)
  BY DEF PutLog, CleanInv, BuilderInv, SnapInv, WriteInv
<1>2. InsertInv /\ (pc = "initial" => OnBatch)
  BY <1>1 DEF CleanInv, BuilderInv, ChainInv
<1>3. Inserts' = Inserts /\ OldKeys' = OldKeys /\ NumOld' = NumOld /\ Target' = Target
  BY <1>1 DEF Inserts, InitialChanges, OldKeys, NumOld, Target
<1>4. pc = "genesis" \/ (pc = "initial" /\ block \in Batches)
  BY <1>1, <1>2 DEF OnBatch
<1>5. /\ pos \in 1..Len(Inserts) /\ lastIdx = NumOld + pos /\ Len(Inserts) \in Nat
      /\ NumOld \in Nat
  BY <1>1, <1>2, <1>4, InsertFacts DEF InsertInv
<1>6. \A j, l \in 1..Len(Inserts) : Inserts[j].key = Inserts[l].key => j = l
  BY <1>4, InsertFacts
<1>7. w.key \notin OldKeys
      /\ ChainState[Target][w.key] = [index |-> NumOld + pos, value |-> Unpack(w.op, 0, w.value)]
  BY <1>4, <1>5, InsertFacts
<1>8. w.key \notin DOMAIN logs
  BY <1>2, <1>5, <1>6, <1>7 DEF InsertInv
<1>9. log = ChainState[Target][w.key]
  BY <1>5, <1>7, <1>8 DEF ProcessValue, ValueIn, Unpack
<1> HIDE DEF log
<1>10. /\ DOMAIN logs' = DOMAIN logs \cup {w.key} /\ logs'[w.key] = log
       /\ \A k \in DOMAIN logs : logs'[k] = logs[k]
  BY <1>1, <1>8 DEF Put
<1> HIDE DEF w
<1>11. pos' \in 1..(Len(Inserts) + 1) /\ 1..(pos' - 1) = 1..(pos - 1) \cup {pos}
       /\ lastIdx = NumOld + (pos' - 1) + 0
  BY <1>1, <1>5
<1>12. DOMAIN logs' = OldKeys \cup {Inserts[j].key : j \in 1..(pos' - 1)}
  <2>1. {Inserts[j].key : j \in 1..(pos' - 1)} = {Inserts[j].key : j \in 1..(pos - 1)} \cup {w.key}
    BY <1>11 DEF w
  <2>2. DOMAIN logs = OldKeys \cup {Inserts[j].key : j \in 1..(pos - 1)}
    BY <1>2 DEF InsertInv
  <2> QED BY <1>10, <2>1, <2>2
<1>13. \A j \in 1..(pos' - 1) : logs'[Inserts[j].key] = ChainState[Target][Inserts[j].key]
  <2>1. \A j \in 1..(pos - 1) : /\ Inserts[j].key \in DOMAIN logs
                                /\ logs[Inserts[j].key] = ChainState[Target][Inserts[j].key]
    BY <1>2 DEF InsertInv
  <2>2. \A j \in 1..(pos - 1) : logs'[Inserts[j].key] = ChainState[Target][Inserts[j].key]
    BY <1>10, <2>1
  <2>3. logs'[Inserts[pos].key] = ChainState[Target][Inserts[pos].key]
    BY <1>9, <1>10 DEF w
  <2>4. \A j \in 1..(pos' - 1) : j \in 1..(pos - 1) \/ j = pos
    BY <1>11
  <2> QED BY <2>2, <2>3, <2>4, Zenon
<1>14. \A k \in OldKeys : logs'[k] = ChainState[block - 1][k]
  BY <1>2, <1>10 DEF InsertInv
<1>15. IndicesAreOf(Target)'
  BY <1>1, <1>2, <1>3 DEF IndicesAreOf, InsertInv
<1>16. InsertInv'
  BY <1>1, <1>3, <1>11, <1>12, <1>13, <1>14, <1>15 DEF InsertInv
<1>17. pc = "initial" => OnBatch'
  BY <1>1, <1>2 DEF OnBatch, BlockIsStored
<1> QED BY <1>1, <1>2, <1>16, <1>17 DEF ChainInv, CleanInv, BuilderInv

\* With the last genesis key the state of batch 0 is complete.
LEMMA GenesisDoneKeepsChain ==
  ASSUME CleanInv, GenesisDone
  PROVE  ChainInv'
<1>1. /\ pc = "genesis" /\ pc' = "recv" /\ Inserted
      /\ UNCHANGED <<logs, idx2key, lastIdx, latestBatch, latestL1Block, block, offer>>
      /\ latestBatch = 0 /\ latestL1Block = 0 /\ offer = 1 /\ InsertInv
  BY DEF GenesisDone, CleanInv, BuilderInv, ChainInv, dbVars
<1>2. OldKeys = {} /\ NumOld = 0 /\ Target = 0
  BY <1>1 DEF OldKeys, NumOld, Target
<1>3. /\ Len(Inserts) \in Nat /\ NumKeys(0) = Len(Inserts)
      /\ DOMAIN ChainState[0] = {Inserts[j].key : j \in 1..Len(Inserts)}
      /\ 0 \in 0..NumBatches
  BY <1>1, <1>2, InsertFacts
<1>4. pos = Len(Inserts) + 1 /\ pos - 1 = Len(Inserts) /\ lastIdx = NumKeys(0)
  BY <1>1, <1>2, <1>3 DEF InsertInv, Inserted
<1>5. logs = ChainState[0]
  <2>1. DOMAIN logs = DOMAIN ChainState[0]
    BY <1>1, <1>2, <1>3, <1>4 DEF InsertInv
  <2>2. \A k \in DOMAIN logs : logs[k] = ChainState[0][k]
    BY <1>1, <1>2, <1>3, <1>4, <2>1 DEF InsertInv
  <2> QED BY <1>3, <2>1, <2>2, SameLogs DEF CleanInv, BuilderInv
<1>6. HoldsAllOf(0)
  BY <1>1, <1>2, <1>4, <1>5 DEF HoldsAllOf, InsertInv
<1>7. HoldsAllOf(latestBatch)' /\ BlockIsStored'
  BY <1>1, <1>6 DEF HoldsAllOf, IndicesAreOf, BlockIsStored
<1> QED BY <1>1, <1>3, <1>7 DEF ChainInv

\* A batch is taken on when the one before it is complete.
LEMMA ReceiveBlockKeepsChain ==
  ASSUME CleanInv, ReceiveBlock
  PROVE  ChainInv'
<1>1. /\ pc = "recv" /\ pc' = "initial" /\ offer <= NumBatches
      /\ block' = offer /\ offer' = offer + 1 /\ pos' = 1
      /\ UNCHANGED <<logs, idx2key, lastIdx, latestBatch, latestL1Block, write>>
      /\ latestBatch \in 0..NumBatches /\ offer = latestBatch + 1
      /\ HoldsAllOf(latestBatch) /\ BlockIsStored
  BY DEF ReceiveBlock, CleanInv, BuilderInv, ChainInv, dbVars
<1>2. write = "index"
  BY <1>1 DEF CleanInv, BuilderInv, SnapInv, WriteInv
<1>3. /\ offer \in Batches /\ offer - 1 = latestBatch /\ offer \in latestBatch..NumBatches
      /\ offer \in 0..NumBatches
  BY <1>1, L2Assumption DEF Batches
<1>4. Inserts' = InitialChanges(offer) /\ OldKeys' = DOMAIN ChainState[latestBatch]
      /\ NumOld' = NumKeys(latestBatch) /\ Target' = offer /\ block' - 1 = latestBatch
  BY <1>1, <1>3 DEF Inserts, OldKeys, NumOld, Target, InitialChanges
<1>5. Len(InitialChanges(offer)) \in Nat /\ NumKeys(latestBatch) \in Nat
  BY <1>1, <1>3, InitialFacts, StateFacts
<1>6. IndicesAreOf(offer)
  BY <1>1, <1>3, EarlierIndices DEF HoldsAllOf
<1>7. InsertInv'
  <2>1. IndicesAreOf(Target)'
    BY <1>1, <1>4, <1>6 DEF IndicesAreOf
  <2>2. lastIdx' = NumKeys(latestBatch) /\ logs' = ChainState[latestBatch]
    BY <1>1 DEF HoldsAllOf
  <2>3. pos' \in 1..(Len(Inserts') + 1) /\ 1..(pos' - 1) = {} /\ write' = "index"
        /\ lastIdx' = NumOld' + (pos' - 1) + 0
    BY <1>1, <1>2, <1>4, <1>5, <2>2
  <2> QED BY <1>4, <2>1, <2>2, <2>3 DEF InsertInv
<1>8. OnBatch'
  BY <1>1, <1>3 DEF OnBatch, BlockIsStored
<1> QED BY <1>1, <1>7, <1>8 DEF ChainInv

\* After the new keys the repeated ones are still those of the batch before.
LEMMA InitialDoneKeepsChain ==
  ASSUME CleanInv, InitialDone
  PROVE  ChainInv'
<1>1. /\ pc = "initial" /\ pc' = "repeated" /\ Inserted
      /\ pending' = RepeatedChanges(block)
      /\ UNCHANGED <<logs, idx2key, lastIdx, latestBatch, latestL1Block, block, offer>>
      /\ latestBatch \in 0..NumBatches /\ OnBatch /\ InsertInv
  BY DEF InitialDone, CleanInv, BuilderInv, ChainInv, dbVars
<1>2. block \in Batches /\ block \in 0..NumBatches /\ block - 1 \in 0..NumBatches
  BY <1>1, L2Assumption DEF OnBatch, Batches
<1>3. OldKeys = DOMAIN ChainState[block - 1] /\ NumOld = NumKeys(block - 1) /\ Target = block
  BY <1>1 DEF OldKeys, NumOld, Target
<1>4. /\ Len(Inserts) \in Nat /\ NumOld \in Nat /\ NumKeys(block) = NumOld + Len(Inserts)
      /\ DOMAIN ChainState[block] = OldKeys \cup {Inserts[j].key : j \in 1..Len(Inserts)}
      /\ \A j \in 1..Len(Inserts) :
           /\ Inserts[j].key \notin OldKeys
           /\ ChainState[block][Inserts[j].key]
                = [index |-> NumOld + j, value |-> Unpack(Inserts[j].op, 0, Inserts[j].value)]
  BY <1>1, <1>2, <1>3, InsertFacts
<1>0. \A k \in OldKeys : ChainState[block][k].index = ChainState[block - 1][k].index
  BY <1>1, <1>2, <1>3, InsertFacts
<1>5. pos = Len(Inserts) + 1 /\ pos - 1 = Len(Inserts) /\ lastIdx = NumKeys(block)
  <2>1. write = "index" /\ pos > Len(Inserts)
    BY <1>1 DEF Inserted
  <2>2. /\ pos \in 1..(Len(Inserts) + 1)
        /\ lastIdx = NumOld + (pos - 1) + (IF write = "log" THEN 1 ELSE 0)
    BY <1>1 DEF InsertInv
  <2>3. Len(Inserts) \in Nat /\ NumOld \in Nat /\ NumKeys(block) = NumOld + Len(Inserts)
    BY <1>4
  <2> QED BY ONLY <2>1, <2>2, <2>3
<1>6. /\ DOMAIN logs = DOMAIN ChainState[block]
      /\ \A j \in 1..Len(Inserts) : logs[Inserts[j].key] = ChainState[block][Inserts[j].key]
      /\ \A k \in OldKeys : logs[k] = ChainState[block - 1][k]
      /\ IndicesAreOf(block)
  BY <1>1, <1>3, <1>4, <1>5 DEF InsertInv
<1>7. ASSUME NEW k \in DOMAIN logs
      PROVE  logs[k] = IF \E r \in RepeatedChanges(block) : r.index = ChainState[block][k].index
                       THEN ChainState[block - 1][k] ELSE ChainState[block][k]
  <2>1. CASE k \in OldKeys
    <3>1. \/ ChainState[block][k] = ChainState[block - 1][k]
          \/ \E r \in RepeatedChanges(block) : r.index = ChainState[block - 1][k].index
      BY <1>2, <1>3, <2>1, RepeatedFacts
    <3>2. logs[k] = ChainState[block - 1][k]
          /\ ChainState[block][k].index = ChainState[block - 1][k].index
      BY <1>0, <1>6, <2>1
    <3> QED BY <3>1, <3>2
  <2>2. CASE k \notin OldKeys
    <3>1. PICK j \in 1..Len(Inserts) : k = Inserts[j].key
      BY <1>4, <1>6, <2>2
    <3>2. ChainState[block][k].index = NumOld + j
      <4> DEFINE v == Unpack(Inserts[j].op, 0, Inserts[j].value)
      <4>1. ChainState[block][k] = [index |-> NumOld + j, value |-> v]
        BY <1>4, <3>1
      <4> HIDE DEF v
      <4> QED BY <4>1
    <3>3. ~ \E r \in RepeatedChanges(block) : r.index = ChainState[block][k].index
      <4> SUFFICES ASSUME NEW r \in RepeatedChanges(block), r.index = ChainState[block][k].index
                   PROVE  FALSE
        OBVIOUS
      <4>1. PICK l \in DOMAIN ChainState[block - 1] : ChainState[block - 1][l].index = r.index
        BY <1>2, RepeatedKeys
      <4>2. ChainState[block - 1][l].index \in 1..NumOld
        BY <1>2, <1>3, StateFacts
      <4> QED BY <1>4, <3>2, <4>1, <4>2
    <3> QED BY <1>6, <3>1, <3>3
  <2> QED BY <2>1, <2>2
<1>8. UpdateInv'
  <2>1. IndicesAreOf(block)'
    <3>1. UNCHANGED <<idx2key, lastIdx, block>> /\ IndicesAreOf(block)
      BY <1>1, <1>6
    <3> QED BY <3>1 DEF IndicesAreOf
  <2>2. RepeatedChanges(block)' = RepeatedChanges(block) /\ NumKeys(block)' = NumKeys(block)
    BY <1>1 DEF RepeatedChanges, NumKeys
  <2> QED BY <1>1, <1>5, <1>6, <1>7, <2>1, <2>2 DEF UpdateInv
<1>9. OnBatch'
  BY <1>1 DEF OnBatch, BlockIsStored
<1> QED BY <1>1, <1>8, <1>9 DEF ChainInv

\* The key that a pending change looks up is the one whose index it names, and its
\* log is still that of the batch before.
LEMMA PendingKey ==
  ASSUME CleanInv, pc = "repeated", NEW r \in pending
  PROVE  LET key == idx2key[r.index]
         IN  /\ r.index \in DOMAIN idx2key /\ key \in DOMAIN logs
             /\ key \in DOMAIN ChainState[block - 1]
             /\ ChainState[block][key].index = r.index
             /\ logs[key] = ChainState[block - 1][key]
             /\ ChainState[block][key]
                  = [index |-> r.index, value |-> Unpack(r.op, logs[key].value, r.value)]
<1>1. OnBatch /\ UpdateInv
  BY DEF CleanInv, BuilderInv, ChainInv
<1>2. block \in Batches /\ block \in 0..NumBatches /\ block - 1 \in 0..NumBatches
      /\ block \in (block - 1)..NumBatches
  BY <1>1, L2Assumption DEF OnBatch, Batches
<1>3. r \in RepeatedChanges(block)
  BY <1>1 DEF UpdateInv
<1>4. PICK k \in DOMAIN ChainState[block - 1] :
        /\ ChainState[block - 1][k].index = r.index
        /\ ChainState[block][k]
             = [index |-> r.index, value |-> Unpack(r.op, ChainState[block - 1][k].value, r.value)]
  BY <1>2, <1>3, RepeatedFacts
<1>5. k \in DOMAIN ChainState[block] /\ ChainState[block][k].index = r.index
  BY <1>2, <1>4, ChainGrows
<1>6. r.index \in 1..lastIdx
  <2>1. ChainState[block][k].index \in 1..NumKeys(block)
    BY <1>2, <1>5, StateFacts
  <2> QED BY <1>1, <1>5, <2>1 DEF UpdateInv
<1>7. /\ r.index \in DOMAIN idx2key /\ idx2key[r.index] \in DOMAIN ChainState[block]
      /\ ChainState[block][idx2key[r.index]].index = r.index
  BY <1>1, <1>6 DEF UpdateInv, IndicesAreOf, CleanInv, BuilderInv, SnapInv, LogsPointBack
<1>8. idx2key[r.index] = k
  BY <1>2, <1>5, <1>7, SameIndexSameKey
<1>9. k \in DOMAIN logs /\ logs[k] = ChainState[block - 1][k]
  BY <1>1, <1>5 DEF UpdateInv
<1> QED BY <1>4, <1>5, <1>7, <1>8, <1>9

\* An updated log is the leaf that the chain has for the key after the batch.
LEMMA UpdateLogKeepsChain ==
  ASSUME CleanInv, UpdateLog
  PROVE  ChainInv'
<1>1. /\ pc = "repeated" /\ pc' = "repeated"
      /\ UNCHANGED <<idx2key, lastIdx, latestBatch, latestL1Block, block, offer>>
      /\ latestBatch \in 0..NumBatches /\ OnBatch /\ UpdateInv
  BY DEF UpdateLog, CleanInv, BuilderInv, ChainInv
<1>2. PICK r \in pending :
        /\ logs' = [logs EXCEPT ![idx2key[r.index]].value =
                      ProcessValue(idx2key[r.index], r.op, r.value)]
        /\ pending' = pending \ {r}
  BY DEF UpdateLog
<1> DEFINE key == idx2key[r.index]
           v   == ProcessValue(key, r.op, r.value)
<1>3. /\ key \in DOMAIN logs /\ ChainState[block][key].index = r.index
      /\ ChainState[block][key] = [index |-> r.index, value |-> Unpack(r.op, logs[key].value, r.value)]
      /\ logs[key] = ChainState[block - 1][key]
  BY <1>1, PendingKey
<1>4. v = Unpack(r.op, logs[key].value, r.value)
  BY <1>3 DEF ProcessValue, ValueIn, Unpack
<1>5. logs[key] = [index |-> r.index, value |-> logs[key].value]
  <2>1. logs[key] = [index |-> logs[key].index, value |-> logs[key].value]
    BY <1>3 DEF CleanInv, BuilderInv, SnapInv, LogInv
  <2>2. logs[key].index = r.index
    <3>1. block \in Batches /\ block - 1 \in 0..NumBatches /\ block \in (block - 1)..NumBatches
      BY <1>1, L2Assumption DEF OnBatch, Batches
    <3>2. ChainState[block - 1][key].index = ChainState[block][key].index
      BY <1>1, <3>1, PendingKey, ChainGrows
    <3> QED BY <1>3, <3>2
  <2> QED BY <2>1, <2>2
<1>6. DOMAIN logs' = DOMAIN logs /\ \A k \in DOMAIN logs : k # key => logs'[k] = logs[k]
  BY <1>2
<1>7. logs'[key] = ChainState[block][key]
  <2> HIDE DEF v
  <2>1. logs' = [logs EXCEPT ![key] = [logs[key] EXCEPT !.value = v]]
    BY <1>2 DEF v
  <2> HIDE DEF key
  <2>2. logs'[key] = [logs[key] EXCEPT !.value = v]
    BY <1>3, <2>1
  <2>3. logs'[key] = [index |-> r.index, value |-> v]
    BY <1>5, <2>2
  <2> QED BY <1>3, <1>4, <2>3 DEF key
<1>8. block \in Batches /\ pending \subseteq RepeatedChanges(block)
  BY <1>1 DEF OnBatch, UpdateInv
<1>9. ASSUME NEW k \in DOMAIN logs
      PROVE  logs'[k] = IF \E q \in pending' : q.index = ChainState[block][k].index
                        THEN ChainState[block - 1][k] ELSE ChainState[block][k]
  <2>1. CASE k = key
    <3>1. \A q \in pending' : q.index # r.index
      <4> SUFFICES ASSUME NEW q \in pending', q.index = r.index PROVE FALSE
        OBVIOUS
      <4>1. q \in pending /\ q # r
        BY <1>2
      <4>2. q \in RepeatedChanges(block) /\ r \in RepeatedChanges(block)
        BY <1>8, <4>1
      <4> QED BY <1>8, <4>1, <4>2, RepeatedFacts
    <3> QED BY <1>3, <1>7, <2>1, <3>1
  <2>2. CASE k # key
    <3>1. ChainState[block][k].index # r.index
      <4>1. block \in 0..NumBatches /\ DOMAIN logs = DOMAIN ChainState[block]
        BY <1>1, L2Assumption DEF OnBatch, Batches, UpdateInv
      <4> HIDE DEF key
      <4> QED BY <1>3, <2>2, <4>1, SameIndexSameKey
    <3>2. (\E q \in pending' : q.index = ChainState[block][k].index)
          <=> (\E q \in pending : q.index = ChainState[block][k].index)
      BY <1>2, <3>1
    <3>3. logs[k] = IF \E q \in pending : q.index = ChainState[block][k].index
                    THEN ChainState[block - 1][k] ELSE ChainState[block][k]
      BY <1>1 DEF UpdateInv
    <3> HIDE DEF key
    <3> QED BY <1>6, <2>2, <3>2, <3>3
  <2> QED BY <2>1, <2>2
<1>10. UpdateInv'
  <2>1. UNCHANGED <<idx2key, lastIdx, block>> /\ IndicesAreOf(block)
        /\ lastIdx = NumKeys(block) /\ DOMAIN logs = DOMAIN ChainState[block]
    BY <1>1 DEF UpdateInv
  <2>2. IndicesAreOf(block)' /\ NumKeys(block)' = NumKeys(block)
        /\ RepeatedChanges(block)' = RepeatedChanges(block)
    BY <2>1 DEF IndicesAreOf, NumKeys, RepeatedChanges
  <2>3. pending' \subseteq RepeatedChanges(block)
    BY <1>2, <1>8
  <2> QED BY <1>6, <1>9, <2>1, <2>2, <2>3 DEF UpdateInv
<1>11. OnBatch'
  BY <1>1 DEF OnBatch, BlockIsStored
<1> QED BY <1>1, <1>10, <1>11 DEF ChainInv

\* The keys of repeated writes are always found.
LEMMA LookupNeverPanics ==
  ASSUME CleanInv
  PROVE  ~LookupPanics
<1> SUFFICES ASSUME pc = "repeated", NEW r \in pending,
                    r.index \in DOMAIN idx2key => idx2key[r.index] \notin DOMAIN logs
             PROVE  FALSE
  BY DEF LookupPanics
<1> QED BY PendingKey

\* The number of the batch is written when its state is complete.
LEMMA SetBatchKeepsChain ==
  ASSUME CleanInv, SetBatch
  PROVE  ChainInv'
<1>1. /\ pc = "repeated" /\ pc' = "stored" /\ pending = {} /\ latestBatch' = block
      /\ UNCHANGED <<logs, idx2key, lastIdx, latestL1Block, block, offer>>
      /\ OnBatch /\ UpdateInv
  BY DEF SetBatch, CleanInv, BuilderInv, ChainInv
<1>2. block \in Batches /\ block \in 0..NumBatches
  BY <1>1, L2Assumption DEF OnBatch, Batches
<1>3. DOMAIN logs = DOMAIN ChainState[block] /\ \A k \in DOMAIN logs : logs[k] = ChainState[block][k]
  BY <1>1 DEF UpdateInv
<1>4. logs = ChainState[block]
  BY <1>2, <1>3, SameLogs DEF CleanInv, BuilderInv
<1>5. lastIdx = NumKeys(block) /\ IndicesAreOf(block)
  BY <1>1 DEF UpdateInv
<1>6. HoldsAllOf(block)'
  <2>1. UNCHANGED <<logs, idx2key, lastIdx, block>>
    BY <1>1
  <2> QED BY <1>4, <1>5, <2>1 DEF HoldsAllOf, IndicesAreOf, NumKeys
<1> QED BY <1>1, <1>2, <1>6 DEF ChainInv, OnBatch

\* The L1 block is written last, and marks the state as whole.
LEMMA SetBlockKeepsChain ==
  ASSUME CleanInv, SetBlock
  PROVE  ChainInv'
<1>1. /\ pc = "stored" /\ pc' = "recv" /\ latestL1Block' = L1Block[block]
      /\ UNCHANGED <<logs, idx2key, lastIdx, latestBatch, block, offer>>
      /\ block \in Batches /\ latestBatch = block /\ offer = block + 1 /\ HoldsAllOf(block)
      /\ latestBatch \in 0..NumBatches
  BY DEF SetBlock, CleanInv, BuilderInv, ChainInv
<1>2. HoldsAllOf(latestBatch)'
  <2>1. UNCHANGED <<logs, idx2key, lastIdx, latestBatch>> /\ HoldsAllOf(latestBatch)
    BY <1>1
  <2> QED BY <2>1 DEF HoldsAllOf, IndicesAreOf, NumKeys
<1>3. BlockIsStored'
  BY <1>1 DEF BlockIsStored, Batches
<1> QED BY <1>1, <1>2, <1>3 DEF ChainInv

\* The database that the end of a session leaves behind.
LEMMA ClosedChain ==
  ASSUME UNCHANGED dbVars, pc' = "closed", latestBatch \in 0..NumBatches,
         \/ lastIdx = 0 /\ DOMAIN logs = {} /\ latestBatch = 0 /\ latestL1Block = 0
         \/ HoldsAllOf(latestBatch) /\ BlockIsStored
  PROVE  ChainInv'
<1>1. UNCHANGED <<logs, idx2key, lastIdx, latestBatch, latestL1Block>>
  BY DEF dbVars
<1>2. HoldsAllOf(latestBatch) => HoldsAllOf(latestBatch)'
  BY <1>1 DEF HoldsAllOf, IndicesAreOf, NumKeys
<1>3. BlockIsStored => BlockIsStored'
  BY <1>1 DEF BlockIsStored
<1> QED BY <1>1, <1>2, <1>3 DEF ChainInv

\* The end of the program changes nothing.
LEMMA CloseKeepsChain ==
  ASSUME CleanInv, Close
  PROVE  ChainInv'
<1>1. UNCHANGED dbVars /\ pc' = "closed" /\ latestBatch \in 0..NumBatches
      /\ HoldsAllOf(latestBatch) /\ BlockIsStored
  BY DEF Close, CleanInv, BuilderInv, ChainInv
<1> QED BY <1>1, ClosedChain

\* A kill before the first write that lasts.
LEMMA KillKeepsChain ==
  ASSUME CleanInv, KillBuilder, Untouched
  PROVE  ChainInv'
<1>1. UNCHANGED dbVars /\ pc' = "closed" /\ latestBatch \in 0..NumBatches
  BY DEF KillBuilder, CleanInv, BuilderInv, ChainInv
<1>2. CASE pc = "recv"
  BY <1>1, <1>2, ClosedChain DEF CleanInv, BuilderInv, ChainInv
<1>3. CASE pc = "genesis" /\ pos = 1 /\ write # "log"
  <2>1. InsertInv /\ latestBatch = 0 /\ latestL1Block = 0
    BY <1>3 DEF CleanInv, BuilderInv, ChainInv
  <2>2. lastIdx = 0 /\ DOMAIN logs = {}
    BY <1>3, <2>1 DEF InsertInv, OldKeys, NumOld
  <2> QED BY <1>1, <2>1, <2>2, ClosedChain
<1>4. CASE pc = "initial" /\ pos = 1 /\ write # "log"
  <2>1. InsertInv /\ OnBatch
    BY <1>4 DEF CleanInv, BuilderInv, ChainInv
  <2>2. /\ latestBatch = block - 1 /\ block \in latestBatch..NumBatches /\ BlockIsStored
    BY <1>1, <2>1, L2Assumption DEF OnBatch, Batches
  <2>3. /\ OldKeys = DOMAIN ChainState[latestBatch] /\ NumOld = NumKeys(latestBatch)
        /\ Target = block
    BY <1>4, <2>2 DEF OldKeys, NumOld, Target
  <2>4. /\ DOMAIN logs = DOMAIN ChainState[latestBatch] /\ lastIdx = NumKeys(latestBatch)
        /\ \A k \in DOMAIN logs : logs[k] = ChainState[latestBatch][k]
        /\ IndicesAreOf(block)
    <3>1. NumKeys(latestBatch) \in Nat
      BY <1>1, StateFacts
    <3> QED BY <1>4, <2>1, <2>2, <2>3, <3>1 DEF InsertInv
  <2>5. logs = ChainState[latestBatch]
    BY <1>1, <2>4, SameLogs DEF CleanInv, BuilderInv
  <2>6. IndicesAreOf(latestBatch)
    BY <1>1, <2>2, <2>4, EarlierIndices
  <2>7. HoldsAllOf(latestBatch)
    BY <2>4, <2>5, <2>6 DEF HoldsAllOf
  <2> QED BY <1>1, <2>2, <2>7, ClosedChain
<1> QED BY <1>2, <1>3, <1>4 DEF Untouched

\* A session that does not begin inside an L1 block.
LEMMA OpenKeepsChain ==
  ASSUME CleanInv, Open, Clean'
  PROVE  ChainInv'
<1>1. /\ pc = "closed" /\ pc' = (IF lastIdx = 0 THEN "genesis" ELSE "recv")
      /\ write' = "index" /\ pos' = 1 /\ offer' = FirstFrom(StartBlock)
      /\ UNCHANGED <<logs, idx2key, lastIdx, latestBatch, latestL1Block>>
      /\ latestBatch \in 0..NumBatches
      /\ \/ lastIdx = 0 /\ DOMAIN logs = {} /\ latestBatch = 0 /\ latestL1Block = 0
         \/ HoldsAllOf(latestBatch) /\ BlockIsStored
      /\ ~(latestBatch \in 1..(NumBatches - 1) /\ L1Block[latestBatch + 1] = latestL1Block)
  BY DEF Open, CleanInv, BuilderInv, ChainInv, Clean, dbVars
<1>2. BlockIsStored
  BY <1>1 DEF BlockIsStored
<1>3. offer' = latestBatch + 1
  BY <1>1, <1>2, FirstFromNext
<1>4. HoldsAllOf(latestBatch) => lastIdx # 0
  BY <1>1, SomeKeys DEF HoldsAllOf
<1>5. CASE lastIdx = 0
  <2>1. /\ pc' = "genesis" /\ offer' = 1
        /\ lastIdx = 0 /\ DOMAIN logs = {} /\ latestBatch = 0 /\ latestL1Block = 0
    BY <1>1, <1>3, <1>4, <1>5
  <2>2. OldKeys' = {} /\ NumOld' = 0 /\ Len(Inserts') \in Nat
    <3>1. Inserts' = [i \in DOMAIN Genesis |->
                       [key |-> Genesis[i].key, op |-> "none", value |-> Genesis[i].value]]
      BY <2>1 DEF Inserts
    <3>2. Len(Genesis) \in Nat /\ DOMAIN Genesis = 1..Len(Genesis)
      BY L2Assumption
    <3> QED BY <2>1, <3>1, <3>2 DEF OldKeys, NumOld
  <2>3. pos' \in 1..(Len(Inserts') + 1) /\ 1..(pos' - 1) = {} /\ 1..lastIdx' = {}
        /\ lastIdx' = NumOld' + (pos' - 1) + 0
    BY <1>1, <2>1, <2>2
  <2>4. InsertInv'
    BY <1>1, <2>1, <2>2, <2>3 DEF InsertInv, IndicesAreOf
  <2> QED BY <1>1, <2>1, <2>4 DEF ChainInv
<1>6. CASE lastIdx # 0
  <2>1. pc' = "recv" /\ HoldsAllOf(latestBatch)
    BY <1>1, <1>6
  <2>2. HoldsAllOf(latestBatch)' /\ BlockIsStored'
    BY <1>1, <1>2, <2>1 DEF HoldsAllOf, IndicesAreOf, NumKeys, BlockIsStored
  <2> QED BY <1>1, <1>3, <2>1, <2>2 DEF ChainInv
<1> QED BY <1>5, <1>6

-----------------------------------------------------------------------------
\* The empty database.
LEMMA InitBuilderInv == SnapInit => BuilderInv
<1> SUFFICES ASSUME SnapInit PROVE BuilderInv
  OBVIOUS
<1>1. ChainInv
  BY L2Assumption DEF SnapInit, ChainInv
<1>2. logs = [k \in DOMAIN logs |-> logs[k]]
  BY DEF SnapInit
<1> QED BY <1>1, <1>2, SnapInitInv DEF BuilderInv

\* The logs remain a function.
LEMMA LogsAreAFunction ==
  ASSUME logs = [k \in DOMAIN logs |-> logs[k]], [SnapNext]_snapVars
  PROVE  logs' = [k \in DOMAIN logs' |-> logs'[k]]
<1>1. CASE PutLog
  <2> DEFINE w == Inserts[pos]
             v == [index |-> lastIdx, value |-> ProcessValue(w.key, w.op, w.value)]
  <2>1. logs' = Put(logs, w.key, v)
    BY <1>1 DEF PutLog
  <2> HIDE DEF w, v
  <2> QED BY <2>1 DEF Put
<1>2. CASE UpdateLog
  <2>1. PICK r \in pending :
          logs' = [logs EXCEPT ![idx2key[r.index]].value =
                     ProcessValue(idx2key[r.index], r.op, r.value)]
    BY <1>2 DEF UpdateLog
  <2> DEFINE key == idx2key[r.index]
             l   == [logs[key] EXCEPT !.value = ProcessValue(key, r.op, r.value)]
  <2>2. logs' = [logs EXCEPT ![key] = l]
    BY <2>1
  <2> HIDE DEF key, l
  <2> QED BY <2>2
<1>3. CASE UNCHANGED logs
  BY <1>3
<1>4. CASE ~PutLog /\ ~UpdateLog
  <2>1. UNCHANGED logs
    BY <1>4 DEF SnapNext, Open, PutIndex, PutLast, GenesisDone, ReceiveBlock, InitialDone,
               LookupPanics, SetBatch, SetBlock, Close, KillBuilder, snapVars, dbVars
  <2> QED BY <1>3, <2>1
<1> QED BY <1>1, <1>2, <1>4

\* A session or a kill that spoils the database is remembered.
LEMMA CleanBefore == ASSUME [SnapNext]_snapVars, Clean' PROVE Clean
<1>1. CASE Open
  <2>1. ~split' /\ ~torn'
    BY DEF Clean
  <2>2. torn' = torn
    BY <1>1 DEF Open
  <2>3. split' = (split \/ (latestBatch \in 1..(NumBatches - 1)
                              /\ L1Block[latestBatch + 1] = latestL1Block))
    BY <1>1 DEF Open
  <2> QED BY <2>1, <2>2, <2>3, Zenon DEF Clean
<1>2. CASE KillBuilder
  <2>1. ~split' /\ ~torn'
    BY DEF Clean
  <2>2. split' = split
    BY <1>2 DEF KillBuilder
  <2>3. torn' = (torn \/ ~Untouched)
    BY <1>2 DEF KillBuilder
  <2> QED BY <2>1, <2>2, <2>3, Zenon DEF Clean
<1>3. CASE ~Open /\ ~KillBuilder
  <2>1. UNCHANGED <<torn, split>>
    BY <1>3 DEF SnapNext, PutIndex, PutLast, PutLog, GenesisDone, ReceiveBlock, InitialDone,
                UpdateLog, LookupPanics, SetBatch, SetBlock, Close, snapVars
  <2> QED BY <2>1 DEF Clean
<1> QED BY <1>1, <1>2, <1>3

\* Every step keeps the invariant.
LEMMA BuilderInvStep == BuilderInv /\ [SnapNext]_snapVars => BuilderInv'
<1> SUFFICES ASSUME BuilderInv, [SnapNext]_snapVars PROVE BuilderInv'
  OBVIOUS
<1>1. SnapInv'
  BY SnapInvStep DEF BuilderInv
<1>2. logs' = [k \in DOMAIN logs' |-> logs'[k]]
  BY LogsAreAFunction DEF BuilderInv
<1>3. ChainInv'
  <2>1. CASE ~Clean'
    BY <2>1 DEF ChainInv
  <2>2. CASE Clean'
    <3>1. CleanInv
      BY <2>2, CleanBefore DEF CleanInv
    <3>2. CASE Open
      BY <2>2, <3>1, <3>2, OpenKeepsChain
    <3>3. CASE PutIndex
      BY <3>1, <3>3, PutIndexKeepsChain
    <3>4. CASE PutLast
      BY <3>1, <3>4, PutLastKeepsChain
    <3>5. CASE PutLog
      BY <3>1, <3>5, PutLogKeepsChain
    <3>6. CASE GenesisDone
      BY <3>1, <3>6, GenesisDoneKeepsChain
    <3>7. CASE ReceiveBlock
      BY <3>1, <3>7, ReceiveBlockKeepsChain
    <3>8. CASE InitialDone
      BY <3>1, <3>8, InitialDoneKeepsChain
    <3>9. CASE UpdateLog
      BY <3>1, <3>9, UpdateLogKeepsChain
    <3>10. CASE LookupPanics
      BY <3>1, <3>10, LookupNeverPanics
    <3>11. CASE SetBatch
      BY <3>1, <3>11, SetBatchKeepsChain
    <3>12. CASE SetBlock
      BY <3>1, <3>12, SetBlockKeepsChain
    <3>13. CASE Close
      BY <3>1, <3>13, CloseKeepsChain
    <3>14. CASE KillBuilder
      <4>1. Untouched
        BY <2>2, <3>14 DEF KillBuilder, Clean
      <4> QED BY <3>1, <3>14, <4>1, KillKeepsChain
    <3>15. CASE UNCHANGED snapVars
      <4>1. /\ UNCHANGED <<logs, idx2key, lastIdx, latestBatch, latestL1Block>>
            /\ UNCHANGED <<pc, write, pos, pending, block, offer, torn, split>>
        BY <3>15 DEF snapVars, dbVars, workVars
      <4>2. Inserts' = Inserts /\ OldKeys' = OldKeys /\ NumOld' = NumOld /\ Target' = Target
        BY <4>1 DEF Inserts, InitialChanges, OldKeys, NumOld, Target
      <4>3. InsertInv => InsertInv'
        BY <4>1, <4>2 DEF InsertInv, IndicesAreOf
      <4>4. UpdateInv => UpdateInv'
        BY <4>1 DEF UpdateInv, IndicesAreOf, RepeatedChanges, NumKeys
      <4>5. /\ HoldsAllOf(latestBatch) => HoldsAllOf(latestBatch)'
            /\ HoldsAllOf(block) => HoldsAllOf(block)'
        BY <4>1 DEF HoldsAllOf, IndicesAreOf, NumKeys
      <4>6. (BlockIsStored => BlockIsStored') /\ (OnBatch => OnBatch')
        BY <4>1 DEF BlockIsStored, OnBatch
      <4> QED BY <4>1, <4>3, <4>4, <4>5, <4>6, <3>1 DEF CleanInv, BuilderInv, ChainInv, Clean
    <3> QED BY <3>2, <3>3, <3>4, <3>5, <3>6, <3>7, <3>8, <3>9, <3>10, <3>11, <3>12, <3>13,
               <3>14, <3>15 DEF SnapNext
  <2> QED BY <2>1, <2>2
<1> QED BY <1>1, <1>2, <1>3 DEF BuilderInv

\* BuilderInv is an inductive invariant of the builder.
THEOREM BuilderInvHolds == SnapSpec => []BuilderInv
BY InitBuilderInv, BuilderInvStep, PTL DEF SnapSpec

\* Between two batches the database of `prepare-snapshot` is the state of the
\* chain after LATEST_L1_BATCH, indices included, whatever interrupted the
\* sessions before, unless a kill fell inside a batch or a session began inside an
\* L1 block.
THEOREM BuilderFollowsTheChain == SnapSpec => []SnapshotIsTheChain
<1>1. BuilderInv => SnapshotIsTheChain
  BY DEF BuilderInv, ChainInv, Clean, HoldsAllOf, SnapshotIsTheChain
<1> QED BY <1>1, BuilderInvHolds, PTL

\* The index that a repeated change names always leads to a log (the two unwraps
\* of the builder's run), but for the same two reasons.
THEOREM BuilderFindsTheKeys == SnapSpec => []LookupsFindTheirKeys
<1>1. BuilderInv => LookupsFindTheirKeys
  BY DEF BuilderInv, ChainInv, Clean, LookupsFindTheirKeys
<1> QED BY <1>1, BuilderInvHolds, PTL

-----------------------------------------------------------------------------
(***************************************************************************)
(* The directory of a snapshot.                                            *)
(***************************************************************************)
\* All files of the export of s are there, with what it wrote to them.
Held(s) == \A c \in 0..Chunks[s] : Holds(s, <<Number[s], c>>)

\* The first k fields of the header are those of s under p.
Prefix(s, p, k) ==
  /\ k * Width[s, p] <= Len(header)
  /\ \A i \in 1..(k * Width[s, p]) : header[i] = Unit(s, p, i)

\* The header is that of s under p and nothing more.
IsText(s, p) ==
  /\ s \in Snapshots /\ p \in Paths
  /\ Len(header) = TextLen(s, p)
  /\ \A i \in 1..TextLen(s, p) : header[i] = Unit(s, p, i)

\* The chunks that are written before file c, the dependencies being file 0.
Before(s, c) == IF c = 0 THEN 1..Chunks[s] ELSE 1..(c - 1)

\* Exports of s, and of no other state with its number, have come as far as the files
\* tell: those of its number are all from s, and a later one was only opened when the
\* earlier ones were done.
Begun(s) ==
  \A name \in DOMAIN files :
    name[1] = Number[s] =>
      \E c \in 0..Chunks[s] :
        /\ name = <<Number[s], c>> /\ files[name] \in {s, "torn"}
        /\ \A d \in Before(s, c) : Holds(s, <<Number[s], d>>)

\* A file has the number of the state in its name.  As long as there is no header, the
\* files of a number that is not patched are those of one state.
FilesInv ==
  /\ \A name \in DOMAIN files :
       /\ \E s \in Snapshots : \E c \in 0..Chunks[s] : name = <<Number[s], c>>
       /\ \/ files[name] = "torn"
          \/ files[name] \in Snapshots /\ Number[files[name]] = name[1]
  /\ ~hasHeader =>
       \A t \in Snapshots :
         Number[t] \notin patched =>
           \E s \in Snapshots : Number[s] = Number[t] /\ Begun(s)

\* The file of the export that is written next, or is open.
AtFile(k) ==
  isOpen => /\ <<Number[exState], k>> \in DOMAIN files
            /\ files[<<Number[exState], k>>] \in {exState, "torn"}

\* How far an export has come.
ExportInv ==
  /\ exportPc \in {"off", "chunks", "deps", "header"}
  /\ isOpen \in BOOLEAN /\ finished \in BOOLEAN /\ mixed \in BOOLEAN
  /\ exportPc # "off" => exState \in Snapshots /\ exPath \in Paths /\ ~finished
  /\ exportPc = "chunks" =>
       /\ exPos \in 0..(Chunks[exState] - 1)
       /\ \A c \in 1..exPos : Holds(exState, <<Number[exState], c>>)
       /\ AtFile(exPos + 1)
  /\ exportPc = "deps" =>
       /\ \A c \in 1..Chunks[exState] : Holds(exState, <<Number[exState], c>>)
       /\ AtFile(0)
  /\ exportPc = "header" =>
       /\ Held(exState)
       /\ exPos \in 0..(Fields(exState) - 1)
       /\ ~isOpen => exPos = 0
       /\ exPos > 0 => Prefix(exState, exPath, exPos)

\* Unless the header is just being written, or a kill left something that happens to
\* parse, it does not parse or is that of a state whose files are all there, unless
\* its number is patched.
TextInv ==
  /\ Len(header) \in Nat /\ header = [i \in 1..Len(header) |-> header[i]]
  /\ \/ exportPc = "header" /\ exPos > 0
     \/ mixed \/ ~Parses
     \/ \E s \in Snapshots, p \in Paths :
          IsText(s, p) /\ (Number[s] \in patched \/ Held(s))

\* What a finished export has left, and when an import is remembered.
OutcomeInv ==
  /\ finished =>
       /\ exState \in Snapshots /\ exPath \in Paths /\ hasHeader /\ Held(exState)
       /\ Prefix(exState, exPath, Fields(exState))
  /\ imported.verdict # "none" => exportPc = "off"

DirInv ==
  FilesInv /\ ExportInv /\ TextInv /\ OutcomeInv /\ ReadsOneExport /\ FinishedExportIsReadable

-----------------------------------------------------------------------------
\* The unit at a place of the header, by the field it belongs to.
LEMMA FieldOf ==
  ASSUME NEW w \in Nat \ {0}, NEW q \in Nat, NEW r \in 0..(w - 1)
  PROVE  (q * w + r) \div w = q
<1> DEFINE x == q * w + r
           d == x \div w
<1>1. x \in Nat
  OBVIOUS
<1>2. d \in Int /\ d * w <= x /\ x < d * w + w
  <2> HIDE DEF x
  <2> QED BY <1>1
<1> HIDE DEF d
<1>3. d <= q
  <2> SUFFICES ASSUME d >= q + 1 PROVE FALSE
    BY <1>2
  <2>1. d * w >= (q + 1) * w
    BY <1>2
  <2>2. (q + 1) * w = q * w + w
    OBVIOUS
  <2> QED BY <1>2, <2>1, <2>2
<1>4. q <= d
  <2> SUFFICES ASSUME q >= d + 1 PROVE FALSE
    BY <1>2
  <2>1. q * w >= (d + 1) * w
    BY <1>2
  <2>2. (d + 1) * w = d * w + w
    BY <1>2
  <2> QED BY <1>2, <2>1, <2>2
<1> QED BY <1>2, <1>3, <1>4 DEF d

\* The field of the i-th unit of a text of n fields is one of 0..(n - 1).
LEMMA FieldRange ==
  ASSUME NEW w \in Nat \ {0}, NEW n \in Nat, NEW i \in 1..(n * w)
  PROVE  (i - 1) \div w \in 0..(n - 1)
<1> DEFINE d == (i - 1) \div w
<1>1. i - 1 \in Nat /\ i - 1 < n * w /\ n * w \in Nat
  OBVIOUS
<1>2. d \in Int /\ d * w <= i - 1 /\ i - 1 < d * w + w
  <2> DEFINE x == i - 1
  <2>1. x \in Nat
    BY <1>1
  <2> HIDE DEF x
  <2>2. x \div w \in Int /\ (x \div w) * w <= x /\ x < (x \div w) * w + w
    BY <2>1
  <2> QED BY <2>2 DEF x
<1> HIDE DEF d
<1>3. d >= 0
  <2> SUFFICES ASSUME d <= -1 PROVE FALSE
    BY <1>2
  <2>1. d * w <= (-1) * w
    BY <1>2
  <2> QED BY <1>1, <1>2, <2>1
<1>4. d <= n - 1
  <2> SUFFICES ASSUME d >= n PROVE FALSE
    BY <1>2
  <2>1. d * w >= n * w
    BY <1>2
  <2> QED BY <1>1, <1>2, <2>1
<1> QED BY <1>2, <1>3, <1>4 DEF d

\* Where field q of a text of n fields begins.
LEMMA FieldStart ==
  ASSUME NEW w \in Nat \ {0}, NEW n \in Nat, NEW q \in 0..(n - 1)
  PROVE  LET k == q * w + 1 IN k \in 1..(n * w) /\ (k - 1) \div w = q /\ k - 1 = q * w
<1> DEFINE m == n - q
<1>1. n * w = q * w + (n - q) * w
  OBVIOUS
<1>2. m \in Nat \ {0} /\ n * w = q * w + m * w
  BY <1>1
<1> HIDE DEF m
<1>3. m * w \in Nat \ {0} /\ q * w \in Nat /\ n * w \in Nat
  BY <1>2
<1> DEFINE x == q * w
           y == n * w
           z == m * w
<1>4. x + 1 \in 1..y /\ x + 1 - 1 = x + 0
  <2>1. x \in Nat /\ y \in Nat /\ z \in Nat \ {0} /\ y = x + z
    BY <1>2, <1>3
  <2> HIDE DEF x, y, z
  <2> QED BY <2>1
<1>5. (q * w + 0) \div w = q
  BY FieldOf
<1>6. q * w + 1 - 1 = q * w + 0 /\ q * w + 0 = q * w
  BY <1>3, <1>4
<1> QED BY <1>4, <1>5, <1>6

\* The lengths of a header and of its fields are numbers, by FilesAssumption.
LEMMA WidthType ==
  ASSUME NEW s \in Snapshots, NEW p \in Paths
  PROVE  /\ Width[s, p] \in Nat \ {0} /\ Chunks[s] \in Nat \ {0}
         /\ Fields(s) \in Nat \ {0} /\ Fields(s) = Chunks[s] + 2
         /\ TextLen(s, p) = Fields(s) * Width[s, p] /\ TextLen(s, p) \in Nat
         /\ Number[s] \in Nat \ {0} /\ p # "bare"
<1>1. Chunks[s] \in Nat \ {0}
  BY FilesAssumption
<1>2. Width[s, p] \in Nat \ {0}
  BY FilesAssumption
<1>3. Number[s] \in Nat \ {0} /\ p # "bare"
  BY FilesAssumption
<1>4. Fields(s) \in Nat \ {0} /\ Fields(s) = Chunks[s] + 2
  BY <1>1 DEF Fields
<1>5. TextLen(s, p) = Fields(s) * Width[s, p]
  BY DEF TextLen
<1> DEFINE n == Fields(s)
           w == Width[s, p]
<1>6. n \in Nat /\ w \in Nat
  BY <1>2, <1>4
<1>7. n * w \in Nat
  <2> HIDE DEF n, w
  <2> QED BY <1>6
<1> QED BY <1>1, <1>2, <1>3, <1>4, <1>5, <1>7

\* A text is read back as what was written.
LEMMA TextParses ==
  ASSUME NEW s \in Snapshots, NEW p \in Paths, IsText(s, p),
         header = [i \in 1..Len(header) |-> header[i]]
  PROVE  Parses
<1> DEFINE w == Width[s, p]
           n == Fields(s)
<1>1. w \in Nat \ {0} /\ n \in Nat /\ n = Chunks[s] + 2 /\ Chunks[s] \in Nat \ {0}
      /\ TextLen(s, p) = n * w
  BY WidthType
<1>2. Len(header) = n * w /\ \A i \in 1..(n * w) : header[i] = Unit(s, p, i)
  BY <1>1 DEF IsText
<1>3. ASSUME NEW i \in 1..(n * w)
      PROVE  /\ header[i].width = w /\ header[i].off = (i - 1) % w
             /\ (i - 1) \div w = 0 => header[i].kind = "num"
             /\ (i - 1) \div w # 0 /\ (i - 1) \div w <= Chunks[s] => header[i].kind = "chunk"
             /\ (i - 1) \div w # 0 /\ ~((i - 1) \div w <= Chunks[s]) => header[i].kind = "deps"
  <2>1. header[i] = Unit(s, p, i)
    BY <1>2
  <2> DEFINE u == Unit(s, p, i)
             f == (i - 1) \div w
  <2>2. u.width = w /\ u.off = (i - 1) % w
    BY DEF Unit
  <2>3. /\ f = 0 => u.kind = "num"
        /\ f # 0 /\ f <= Chunks[s] => u.kind = "chunk"
        /\ f # 0 /\ ~(f <= Chunks[s]) => u.kind = "deps"
    BY DEF Unit
  <2> QED
    <3> HIDE DEF w, n
    <3> QED BY <2>1, <2>2, <2>3
<1> HIDE DEF w, n
<1>4. n * w >= w /\ 1 \in 1..(n * w) /\ n * w \in Nat
  BY <1>1
<1>5. DOMAIN header = 1..(n * w)
  BY <1>2
<1>6. header # <<>> /\ header[1].width = w
  BY <1>3, <1>4, <1>5
<1>7. Len(header) \div w = n
  <2>1. (n * w + 0) \div w = n
    BY <1>1, FieldOf
  <2> QED BY <1>1, <1>2, <1>4, <2>1
<1>8. ASSUME NEW i \in DOMAIN header
      PROVE  /\ header[i].width = w /\ header[i].off = (i - 1) % w
             /\ header[i].kind = IF (i - 1) \div w = 0 THEN "num"
                                 ELSE IF (i - 1) \div w = n - 1 THEN "deps" ELSE "chunk"
  <2>1. i \in 1..(n * w)
    BY <1>5
  <2>2. (i - 1) \div w \in 0..(n - 1)
    BY <1>1, <2>1, FieldRange
  <2> DEFINE f == (i - 1) \div w
  <2>3. /\ header[i].width = w /\ header[i].off = (i - 1) % w
        /\ f = 0 => header[i].kind = "num"
        /\ f # 0 /\ f <= Chunks[s] => header[i].kind = "chunk"
        /\ f # 0 /\ ~(f <= Chunks[s]) => header[i].kind = "deps"
    BY <1>3, <2>1
  <2> HIDE DEF f
  <2>4. f \in 0..(n - 1)
    BY <2>2 DEF f
  <2>5. header[i].kind = IF f = 0 THEN "num" ELSE IF f = n - 1 THEN "deps" ELSE "chunk"
    <3>1. f <= Chunks[s] <=> f # n - 1
      BY <1>1, <2>4
    <3> QED BY <2>3, <3>1, Zenon
  <2> QED BY <2>3, <2>5 DEF f
<1>9. n - 1 > 0 /\ Len(header) = (n - 1 + 1) * w
  BY <1>1, <1>2
<1>10. HasForm(w, n - 1)
  BY <1>8, <1>9 DEF HasForm
<1> QED BY <1>6, <1>7, <1>10 DEF Parses

\* A header that begins with the text of s ends with it, or does not parse.
LEMMA PrefixIsText ==
  ASSUME NEW s \in Snapshots, NEW p \in Paths, Prefix(s, p, Fields(s)),
         Len(header) \in Nat, header = [i \in 1..Len(header) |-> header[i]],
         Parses \/ Len(header) <= TextLen(s, p)
  PROVE  IsText(s, p)
<1> DEFINE w == Width[s, p]
           n == Fields(s)
           last == Len(header) \div w - 1
           q == n - 1
           k == q * w + 1
<1>1. w \in Nat \ {0} /\ n \in Nat /\ n = Chunks[s] + 2 /\ Chunks[s] \in Nat \ {0}
      /\ TextLen(s, p) = n * w
  BY WidthType
<1>2. n * w <= Len(header) /\ \A i \in 1..(n * w) : header[i] = Unit(s, p, i)
  BY DEF Prefix
<1>3. header[1].width = w
  <2>1. Unit(s, p, 1).width = w
    BY DEF Unit
  <2> HIDE DEF w, n
  <2>2. 1 \in 1..(n * w)
    BY <1>1
  <2> QED BY <1>2, <2>1, <2>2
<1>4. k \in 1..(n * w) /\ k \in 1..Len(header) /\ (k - 1) \div w = n - 1
  <2> HIDE DEF w, n
  <2>1. n - 1 \in 0..(n - 1) /\ n * w \in Nat
    BY <1>1
  <2>2. k \in 1..(n * w) /\ (k - 1) \div w = n - 1
    <3>1. q \in 0..(n - 1) /\ q = n - 1
      BY <2>1
    <3> HIDE DEF q
    <3>2. k \in 1..(n * w) /\ (k - 1) \div w = q
      BY <1>1, <3>1, FieldStart
    <3> HIDE DEF k
    <3> QED BY <3>1, <3>2
  <2> HIDE DEF k
  <2> QED BY <1>2, <2>1, <2>2
<1>5. header[k].kind = "deps"
  <2> DEFINE f == (k - 1) \div w
  <2>1. f # 0 /\ ~(f <= Chunks[s]) => Unit(s, p, k).kind = "deps"
    BY DEF Unit
  <2> HIDE DEF k
  <2>2. f = n - 1
    BY <1>4
  <2> HIDE DEF f, n, w
  <2>3. header[k] = Unit(s, p, k)
    BY <1>2, <1>4
  <2> QED BY <1>1, <2>1, <2>2, <2>3
<1>6. ASSUME Parses PROVE Len(header) = n * w
  <2>1. HasForm(w, last)
    BY <1>3, <1>6 DEF Parses
  <2>2. /\ Len(header) = (last + 1) * w
        /\ header[k].kind = IF (k - 1) \div w = 0 THEN "num"
                            ELSE IF (k - 1) \div w = last THEN "deps" ELSE "chunk"
    <3>1. k \in DOMAIN header
      <4> HIDE DEF k, w, n
      <4> QED BY <1>4
    <3> HIDE DEF k, last, w, n
    <3> QED BY <2>1, <3>1 DEF HasForm
  <2> HIDE DEF k, last, w, n
  <2>3. n - 1 = last
    BY <1>4, <1>5, <2>2
  <2> QED BY <1>1, <2>2, <2>3
<1>7. Len(header) = n * w
  <2> HIDE DEF w, n
  <2>1. n * w \in Nat
    BY <1>1
  <2> QED BY <1>1, <1>2, <1>6, <2>1
<1> QED BY <1>1, <1>2, <1>7 DEF IsText

\* The same of the header after a step.
LEMMA LaterPrefixIsText ==
  (\A s \in Snapshots, p \in Paths :
     /\ Prefix(s, p, Fields(s)) /\ Len(header) \in Nat
     /\ header = [i \in 1..Len(header) |-> header[i]] /\ Parses
     => IsText(s, p))'
<1>1. \A s \in Snapshots, p \in Paths :
        /\ Prefix(s, p, Fields(s)) /\ Len(header) \in Nat
        /\ header = [i \in 1..Len(header) |-> header[i]] /\ Parses
        => IsText(s, p)
  BY PrefixIsText
<1> QED BY <1>1, PTL

\* What is read from the text of s.
LEMMA TextIsRead ==
  ASSUME NEW s \in Snapshots, NEW p \in Paths, IsText(s, p),
         header = [i \in 1..Len(header) |-> header[i]]
  PROVE  /\ StoredHeader.num = Number[s] /\ StoredHeader.deps = [batch |-> Number[s], dir |-> p]
         /\ StoredHeader.list = [c \in 1..Chunks[s] |-> [batch |-> Number[s], dir |-> p]]
<1> DEFINE w == Width[s, p]
           n == Fields(s)
<1>1. w \in Nat \ {0} /\ n \in Nat /\ n = Chunks[s] + 2 /\ Chunks[s] \in Nat \ {0}
      /\ TextLen(s, p) = n * w
  BY WidthType
<1>2. Len(header) = n * w
  BY <1>1 DEF IsText
<1>3. ASSUME NEW i \in 1..(n * w)
      PROVE  header[i].width = w /\ header[i].batch = Number[s] /\ header[i].path = p
  <2>1. header[i] = Unit(s, p, i)
    BY <1>1 DEF IsText
  <2>2. Unit(s, p, i).width = w /\ Unit(s, p, i).batch = Number[s] /\ Unit(s, p, i).path = p
    BY DEF Unit
  <2> HIDE DEF w, n
  <2> QED BY <2>1, <2>2
<1> HIDE DEF w, n
<1>4. n * w >= w /\ 1 \in 1..(n * w) /\ n * w \in Nat /\ n * w \in 1..(n * w)
  BY <1>1
<1>5. Len(header) \div w = n
  <2>1. (n * w + 0) \div w = n
    BY <1>1, FieldOf
  <2> QED BY <1>1, <1>2, <1>4, <2>1
<1>6. \A c \in 1..(n - 2) : c * w + 1 \in 1..(n * w)
  <2> TAKE c \in 1..(n - 2)
  <2>1. c \in 0..(n - 1)
    BY <1>1
  <2> QED BY <1>1, <2>1, FieldStart
<1>7. \A i \in 1..(n * w) : FilePath(header[i]) = [batch |-> Number[s], dir |-> p]
  BY <1>3 DEF FilePath
<1>8. header[1].width = w /\ header[1].batch = Number[s]
  BY <1>3, <1>4
<1>9. StoredHeader = [num |-> header[1].batch,
                      list |-> [c \in 1..(Len(header) \div w - 2) |-> FilePath(header[c * w + 1])],
                      deps |-> FilePath(header[Len(header)])]
  BY <1>8 DEF StoredHeader
<1>10. Len(header) \div w - 2 = Chunks[s] /\ n - 2 = Chunks[s]
  BY <1>1, <1>5
<1>11. StoredHeader.deps = [batch |-> Number[s], dir |-> p]
  BY <1>2, <1>4, <1>7, <1>9
<1>12. StoredHeader.list = [c \in 1..Chunks[s] |-> FilePath(header[c * w + 1])]
  BY <1>9, <1>10
<1>13. \A c \in 1..Chunks[s] : FilePath(header[c * w + 1]) = [batch |-> Number[s], dir |-> p]
  BY <1>6, <1>7, <1>10
<1> QED BY <1>8, <1>9, <1>11, <1>12, <1>13

\* The header after its first k fields were written.
Rewritten(s, p, k) ==
  /\ Len(header') \in Nat /\ header' = [i \in 1..Len(header') |-> header'[i]]
  /\ k * Width[s, p] <= Len(header')
  /\ \A i \in 1..(k * Width[s, p]) : header'[i] = Unit(s, p, i)
  /\ \A i \in 1..Len(header') :
       header'[i] = Unit(s, p, i) \/ (i \in 1..Len(header) /\ header'[i] = header[i])
  /\ k = 0 => header' = header

\* Overwriting a header leaves it as Rewritten says.
LEMMA HeaderWritten ==
  ASSUME NEW s \in Snapshots, NEW p \in Paths, NEW k \in Nat,
         Len(header) \in Nat, header = [i \in 1..Len(header) |-> header[i]],
         header' = Overwritten(s, p, k)
  PROVE  Rewritten(s, p, k)
<1> DEFINE new == k * Width[s, p]
           m == Max({new, Len(header)})
<1>1. Width[s, p] \in Nat \ {0}
  BY WidthType
<1>2. new \in Nat /\ (k = 0 => new = 0)
  <2> DEFINE w == Width[s, p]
  <2>1. w \in Nat
    BY <1>1
  <2> HIDE DEF w
  <2>2. k * w \in Nat /\ 0 * w = 0
    BY <2>1
  <2> QED BY <2>2 DEF w
<1>3. header' = [i \in 1..m |-> IF i <= new THEN Unit(s, p, i) ELSE header[i]]
  BY DEF Overwritten
<1> HIDE DEF new
<1>4. m \in Nat /\ (m = new \/ m = Len(header)) /\ new <= m /\ Len(header) <= m
  <2>1. \E x \in {new, Len(header)} : \A y \in {new, Len(header)} : x >= y
    BY <1>2
  <2> QED BY <1>2, <2>1 DEF Max
<1> HIDE DEF m
<1>5. Len(header') = m /\ header' = [i \in 1..m |-> header'[i]]
  BY <1>3, <1>4
<1>6. \A i \in 1..m : header'[i] = IF i <= new THEN Unit(s, p, i) ELSE header[i]
  BY <1>3
<1>7. \A i \in 1..new : header'[i] = Unit(s, p, i)
  BY <1>2, <1>4, <1>6
<1>8. \A i \in 1..m :
        header'[i] = Unit(s, p, i) \/ (i \in 1..Len(header) /\ header'[i] = header[i])
  <2> TAKE i \in 1..m
  <2>1. CASE i <= new
    <3>1. header'[i] = Unit(s, p, i)
      BY <1>6, <2>1
    <3> QED BY <3>1
  <2>2. CASE ~(i <= new)
    <3>1. header'[i] = header[i]
      BY <1>6, <2>2
    <3>2. i \in 1..Len(header)
      BY <1>2, <1>4, <2>2
    <3> QED BY <3>1, <3>2
  <2> QED BY <2>1, <2>2
<1>9. k = 0 => header' = header
  <2> SUFFICES ASSUME k = 0 PROVE header' = header
    OBVIOUS
  <2>1. new = 0 /\ m = Len(header)
    BY <1>2, <1>4
  <2>2. \A i \in 1..m : header'[i] = header[i]
    BY <1>6, <2>1
  <2> QED BY <1>5, <2>1, <2>2
<1> QED BY <1>4, <1>5, <1>7, <1>8, <1>9 DEF new, Rewritten

\* What the header says only depends on the header.
LEMMA HeaderKept ==
  ASSUME header' = header
  PROVE  /\ Parses' <=> Parses
         /\ \A s, p : IsText(s, p)' <=> IsText(s, p)
         /\ \A s, p, k : Prefix(s, p, k)' <=> Prefix(s, p, k)
BY DEF Parses, HasForm, IsText, Prefix, Unit, TextLen, Fields

\* A list of files that all hold what one export wrote is read to its end.
LEMMA HeldIsRead ==
  ASSUME NEW s \in Snapshots, Held(s), NEW h, NEW dir, NEW path,
         path.batch = Number[s], Resolves(path, dir), h.list = [c \in 1..Chunks[s] |-> path]
  PROVE  ChunksRead(h, dir) = Complete(s)
<1> DEFINE name(c) == ChunkName(h.list[c].batch, c)
           all == {d \in DOMAIN h.list :
                     \A e \in DOMAIN h.list : e <= d => Readable(h.list[e], dir, name(e))}
<1>1. Chunks[s] \in Nat \ {0} /\ s # "torn"
  BY FilesAssumption
<1>2. DOMAIN h.list = 1..Chunks[s] /\ \A c \in 1..Chunks[s] : h.list[c] = path
  OBVIOUS
<1>3. ASSUME NEW c \in 1..Chunks[s]
      PROVE  files[name(c)] = s /\ Readable(h.list[c], dir, name(c))
  <2>1. name(c) = <<Number[s], c>> /\ c \in 0..Chunks[s]
    BY <1>1, <1>2 DEF ChunkName
  <2>2. Holds(s, name(c))
    BY <2>1 DEF Held
  <2> QED BY <1>1, <1>2, <2>2 DEF Readable, Whole, Holds
<1>4. all = 1..Chunks[s]
  BY <1>2, <1>3
<1>5. ChunksRead(h, dir) = [c \in all |-> files[name(c)]]
  BY DEF ChunksRead
<1> HIDE DEF all, name
<1> QED BY <1>3, <1>4, <1>5 DEF Complete

\* What is read from files of one number are chunks of that number.
LEMMA ReadHasNumber ==
  ASSUME FilesInv, NEW h, NEW dir, NEW n, DOMAIN h.list \subseteq Nat,
         \A c \in DOMAIN h.list : h.list[c].batch = n
  PROVE  \A c \in DOMAIN ChunksRead(h, dir) : Number[ChunksRead(h, dir)[c]] = n
<1> DEFINE name(c) == ChunkName(h.list[c].batch, c)
           read == {d \in DOMAIN h.list :
                      \A e \in DOMAIN h.list : e <= d => Readable(h.list[e], dir, name(e))}
<1>1. ChunksRead(h, dir) = [c \in read |-> files[name(c)]]
  BY DEF ChunksRead
<1>2. ASSUME NEW c \in read PROVE Number[files[name(c)]] = n
  <2>1. c <= c => Readable(h.list[c], dir, name(c))
    OBVIOUS
  <2>2. c \in DOMAIN h.list /\ c <= c
    OBVIOUS
  <2>3. name(c) \in DOMAIN files /\ files[name(c)] # "torn" /\ name(c)[1] = n
    BY <2>1, <2>2 DEF Readable, Whole, ChunkName
  <2> QED BY <2>3 DEF FilesInv
<1> QED BY <1>1, <1>2

\* encode changes one file, and ends with what the export writes in it.
LEMMA EncodeStep ==
  ASSUME NEW k, Encode(<<Number[exState], k>>), exState \in Snapshots, exState' = exState,
         isOpen \in BOOLEAN, AtFile(k)
  PROVE  LET name == <<Number[exState], k>>
         IN  /\ DOMAIN files' = DOMAIN files \cup {name}
             /\ \A m \in DOMAIN files : m # name => files'[m] = files[m]
             /\ isOpen' = ~isOpen
             /\ isOpen => files'[name] = exState
             /\ ~isOpen => \/ files'[name] = "torn"
                          \/ /\ name \in DOMAIN files
                             /\ files[name] = exState /\ files'[name] = exState
             /\ patched \subseteq patched'
             /\ name \in DOMAIN files =>
                  files[name] \in {exState, "torn"} \/ Number[exState] \in patched'
<1> DEFINE name == <<Number[exState], k>>
<1>1. CASE isOpen
  <2>1. /\ files' = [files EXCEPT ![name] = exState] /\ isOpen' = FALSE /\ patched' = patched
        /\ name \in DOMAIN files /\ files[name] \in {exState, "torn"}
    BY <1>1 DEF Encode, Closed, AtFile
  <2> HIDE DEF name
  <2> QED BY <1>1, <2>1 DEF name
<1>2. CASE ~isOpen
  <2>1. /\ files' = [m \in DOMAIN files \cup {name} |->
                      IF m = name /\ ~Holds(exState, name) THEN "torn" ELSE files[m]]
        /\ isOpen' = TRUE
        /\ patched' = IF Whole(name) /\ ~Holds(exState, name)
                      THEN patched \cup {Number[exState]} ELSE patched
    BY <1>2 DEF Encode, Opened
  <2> HIDE DEF name
  <2> QED BY <1>2, <2>1 DEF name, Holds, Whole
<1> QED BY <1>1, <1>2

\* Files that hold what an export wrote go on to do so, unless an export of another
\* state with its number begins to write over one.
LEMMA EncodeHeld ==
  ASSUME NEW k, Encode(<<Number[exState], k>>), exState \in Snapshots, exState' = exState,
         isOpen \in BOOLEAN, AtFile(k),
         NEW s \in Snapshots, NEW c, Holds(s, <<Number[s], c>>)
  PROVE  Number[s] \in patched' \/ Holds(s, <<Number[s], c>>)'
<1> DEFINE name == <<Number[exState], k>>
           file == <<Number[s], c>>
<1>1. /\ DOMAIN files' = DOMAIN files \cup {name}
      /\ \A m \in DOMAIN files : m # name => files'[m] = files[m]
      /\ isOpen => files'[name] = exState
      /\ ~isOpen => \/ files'[name] = "torn"
                   \/ /\ name \in DOMAIN files
                      /\ files[name] = exState /\ files'[name] = exState
      /\ name \in DOMAIN files =>
           files[name] \in {exState, "torn"} \/ Number[exState] \in patched'
  BY EncodeStep
<1>2. file \in DOMAIN files /\ files[file] = s /\ s # "torn"
  BY FilesAssumption DEF Holds
<1>3. CASE file # name
  BY <1>1, <1>2, <1>3 DEF Holds
<1>4. CASE file = name
  <2>1. Number[exState] = Number[s]
    BY <1>4
  <2>2. CASE Number[s] \notin patched'
    <3>1. files[name] = exState /\ s = exState
      BY <1>1, <1>2, <1>4, <2>1, <2>2
    <3>2. files'[name] = exState
      <4>1. CASE isOpen
        BY <1>1, <4>1
      <4>2. CASE ~isOpen
        <5>1. files' = Opened(name)
          BY <4>2 DEF Encode
        <5>2. Holds(exState, name)
          BY <1>2, <1>4, <3>1 DEF Holds
        <5> QED BY <3>1, <5>1, <5>2 DEF Opened, Holds
      <4> QED BY <4>1, <4>2
    <3> QED BY <1>1, <1>4, <3>1, <3>2 DEF Holds
  <2> QED BY <2>2
<1> QED BY <1>3, <1>4

\* What an export has written it does not spoil.
LEMMA EncodeKeepsOwn ==
  ASSUME NEW k, Encode(<<Number[exState], k>>), exState \in Snapshots, exState' = exState,
         isOpen \in BOOLEAN, AtFile(k), NEW name, Holds(exState, name)
  PROVE  Holds(exState, name)'
BY DEF Encode, Closed, Opened, Holds

\* Without another state in between, the files of the number are from this export.
LEMMA BegunHere ==
  ASSUME FilesInv, ~hasHeader, exState \in Snapshots, NEW k \in 0..Chunks[exState],
         Number[exState] \notin patched,
         \A d \in Before(exState, k) : Holds(exState, <<Number[exState], d>>),
         <<Number[exState], k>> \in DOMAIN files =>
           files[<<Number[exState], k>>] \in {exState, "torn"}
  PROVE  Begun(exState)
<1> DEFINE n == Number[exState]
<1>1. PICK s \in Snapshots : Number[s] = n /\ Begun(s)
  BY DEF FilesInv
<1>2. Chunks[exState] \in Nat \ {0} /\ Chunks[s] \in Nat \ {0} /\ s # "torn"
      /\ exState # "torn"
  BY FilesAssumption
<1>3. CASE s = exState
  BY <1>1, <1>3
<1>4. CASE s # exState
  <2>1. ASSUME NEW name \in DOMAIN files, name[1] = n
        PROVE  name = <<n, 1>> /\ files[name] = "torn"
    <3>1. PICK c \in 0..Chunks[s] :
            /\ name = <<n, c>> /\ files[name] \in {s, "torn"}
            /\ \A d \in Before(s, c) : Holds(s, <<n, d>>)
      BY <1>1, <2>1 DEF Begun
    <3>2. ~Holds(s, <<n, 1>>)
      <4> SUFFICES ASSUME Holds(s, <<n, 1>>) PROVE FALSE
        OBVIOUS
      <4>1. files[<<n, 1>>] = s /\ <<n, 1>> \in DOMAIN files
        BY DEF Holds
      <4>2. CASE k = 1
        BY <1>2, <1>4, <4>1, <4>2
      <4>3. CASE k # 1
        <5>1. 1 \in Before(exState, k)
          BY <1>2, <4>3 DEF Before
        <5> QED BY <1>4, <4>1, <5>1 DEF Holds
      <4> QED BY <4>2, <4>3
    <3>3. 1 \notin Before(s, c)
      BY <3>1, <3>2
    <3>4. c = 1
      BY <1>2, <3>1, <3>3 DEF Before
    <3>5. name = <<n, 1>> /\ files[name] # s
      BY <2>1, <3>1, <3>2, <3>4 DEF Holds
    <3> QED BY <3>1, <3>5
  <2>2. 1 \in 0..Chunks[exState] /\ Before(exState, 1) = {}
    BY <1>2 DEF Before
  <2> QED BY <2>1, <2>2 DEF Begun
<1> QED BY <1>3, <1>4

\* A file is opened when those before it are done, and finished when it is open.
LEMMA EncodeKeepsFiles ==
  ASSUME FilesInv, NEW k \in 0..Chunks[exState], Encode(<<Number[exState], k>>),
         exState \in Snapshots, exState' = exState, hasHeader' = hasHeader,
         isOpen \in BOOLEAN, AtFile(k),
         \A d \in Before(exState, k) : Holds(exState, <<Number[exState], d>>)
  PROVE  FilesInv'
<1> DEFINE n == Number[exState]
           name == <<n, k>>
<1>1. /\ DOMAIN files' = DOMAIN files \cup {name}
      /\ \A m \in DOMAIN files : m # name => files'[m] = files[m]
      /\ files'[name] \in {exState, "torn"}
      /\ patched \subseteq patched'
      /\ name \in DOMAIN files => files[name] \in {exState, "torn"} \/ n \in patched'
  BY EncodeStep
<1>2. ASSUME NEW m \in DOMAIN files'
      PROVE  /\ \E s \in Snapshots : \E c \in 0..Chunks[s] : m = <<Number[s], c>>
             /\ \/ files'[m] = "torn"
                \/ files'[m] \in Snapshots /\ Number[files'[m]] = m[1]
  <2>1. CASE m = name
    BY <1>1, <2>1
  <2>2. CASE m # name
    BY <1>1, <1>2, <2>2 DEF FilesInv
  <2> QED BY <2>1, <2>2
<1>3. ASSUME ~hasHeader, NEW t \in Snapshots, Number[t] \notin patched'
      PROVE  \E s \in Snapshots : Number[s] = Number[t] /\ Begun(s)'
  <2>1. Number[t] \notin patched
    BY <1>1, <1>3
  <2>2. CASE Number[t] = n
    <3>1. Begun(exState)
      BY <1>1, <1>3, <2>1, <2>2, BegunHere
    <3>2. ASSUME NEW m \in DOMAIN files', m[1] = n
          PROVE  \E c \in 0..Chunks[exState] :
                   /\ m = <<n, c>> /\ files'[m] \in {exState, "torn"}
                   /\ \A d \in Before(exState, c) : Holds(exState, <<n, d>>)'
      <4>1. PICK c \in 0..Chunks[exState] :
              /\ m = <<n, c>> /\ files'[m] \in {exState, "torn"}
              /\ \A d \in Before(exState, c) : Holds(exState, <<n, d>>)
        <5>1. CASE m = name
          BY <1>1, <5>1
        <5>2. CASE m # name
          <6>1. m \in DOMAIN files /\ files'[m] = files[m]
            BY <1>1, <3>2, <5>2
          <6> QED BY <3>1, <3>2, <6>1 DEF Begun
        <5> QED BY <5>1, <5>2
      <4>2. \A d \in Before(exState, c) : Holds(exState, <<n, d>>)'
        <5>1. ASSUME NEW d \in Before(exState, c) PROVE Holds(exState, <<n, d>>)'
          <6>1. Holds(exState, <<n, d>>)
            BY <4>1
          <6> QED BY <6>1, EncodeKeepsOwn
        <5> QED BY <5>1
      <4> QED BY <4>1, <4>2
    <3>3. Begun(exState)'
      BY <3>2 DEF Begun, Before, Holds
    <3> QED BY <2>2, <3>3 DEF Begun, Before, Holds
  <2>3. CASE Number[t] # n
    <3>1. PICK s \in Snapshots : Number[s] = Number[t] /\ Begun(s)
      BY <1>3, <2>1 DEF FilesInv
    <3>2. \A c : /\ <<Number[s], c>> \in DOMAIN files' <=> <<Number[s], c>> \in DOMAIN files
                 /\ <<Number[s], c>> \in DOMAIN files =>
                      files'[<<Number[s], c>>] = files[<<Number[s], c>>]
      BY <1>1, <2>3, <3>1
    <3>3. Begun(s)'
      <4>1. ASSUME NEW m \in DOMAIN files', m[1] = Number[s]
            PROVE  \E c \in 0..Chunks[s] :
                     /\ m = <<Number[s], c>> /\ files'[m] \in {s, "torn"}
                     /\ \A d \in Before(s, c) : Holds(s, <<Number[s], d>>)'
        <5>1. m # name
          BY <2>3, <3>1, <4>1
        <5>2. m \in DOMAIN files /\ files'[m] = files[m]
          BY <1>1, <4>1, <5>1
        <5>3. \A d : Holds(s, <<Number[s], d>>) => Holds(s, <<Number[s], d>>)'
          BY <3>2 DEF Holds
        <5> QED BY <3>1, <4>1, <5>2, <5>3 DEF Begun
      <4> QED BY <4>1 DEF Begun, Before, Holds
    <3> QED BY <3>1, <3>3
  <2> QED BY <2>2, <2>3
<1> QED BY <1>2, <1>3 DEF FilesInv, Begun, Before, Holds

\* What the header tells of stays true, or its number is patched.
LEMMA EncodeKeepsText ==
  ASSUME TextInv, NEW k, Encode(<<Number[exState], k>>), exState \in Snapshots,
         exState' = exState, isOpen \in BOOLEAN, AtFile(k),
         header' = header, mixed' = mixed, exportPc # "header"
  PROVE  TextInv'
<1>1. ASSUME NEW s \in Snapshots, Held(s) PROVE Number[s] \in patched' \/ Held(s)'
  BY <1>1, EncodeHeld DEF Held, Holds
<1>2. patched \subseteq patched'
  BY EncodeStep
<1> QED BY <1>1, <1>2, HeaderKept DEF TextInv

-----------------------------------------------------------------------------
\* An empty directory satisfies the invariant.
LEMMA InitialDirectory == FilesInit => DirInv
<1> SUFFICES ASSUME FilesInit PROVE DirInv
  OBVIOUS
<1>1. FilesInv
  <2>1. DOMAIN files = {}
    BY DEF FilesInit
  <2> QED BY <2>1 DEF FilesInv, Begun
<1>2. ExportInv
  BY DEF FilesInit, ExportInv
<1>3. TextInv
  <2>1. header = <<>> /\ Len(header) = 0
    BY DEF FilesInit
  <2>2. ~Parses
    BY <2>1 DEF Parses
  <2>3. header = [i \in 1..Len(header) |-> header[i]]
    BY <2>1
  <2> QED BY <2>1, <2>2, <2>3 DEF TextInv
<1>4. OutcomeInv /\ ReadsOneExport /\ FinishedExportIsReadable
  BY DEF FilesInit, OutcomeInv, ReadsOneExport, FinishedExportIsReadable, NoImport
<1> QED BY <1>1, <1>2, <1>3, <1>4 DEF DirInv

\* Steps that touch no file and no header.
LEMMA FilesKept ==
  ASSUME FilesInv, UNCHANGED <<files, hasHeader, patched>>
  PROVE  FilesInv' /\ \A s : Held(s)' <=> Held(s)
BY DEF FilesInv, Begun, Before, Holds, Held

\* The same of the header, when nobody was writing it.
LEMMA TextKept ==
  ASSUME TextInv, UNCHANGED <<files, header, patched>>, mixed => mixed',
         exportPc = "header" /\ exPos > 0 /\ Parses =>
           (exportPc = "header" /\ exPos > 0)' \/ mixed'
  PROVE  TextInv'
<1>1. \A s : Held(s)' <=> Held(s)
  BY DEF Held, Holds
<1> QED BY <1>1, HeaderKept DEF TextInv

\* Starting an export touches no file (export_snapshot).
LEMMA BeginExportKeeps ==
  ASSUME DirInv, NEW s \in Snapshots, NEW p \in Paths, BeginExport(s, p)
  PROVE  DirInv'
<1>1. /\ exportPc = "off" /\ exportPc' = "chunks" /\ exState' = s /\ exPath' = p
      /\ exPos' = 0 /\ isOpen' = FALSE /\ finished' = FALSE /\ imported' = NoImport
      /\ files' = files /\ hasHeader' = hasHeader /\ header' = header /\ mixed' = mixed
      /\ patched' = patched
  BY DEF BeginExport, fileVars
<1>2. FilesInv' /\ TextInv'
  BY <1>1, FilesKept, TextKept DEF DirInv
<1>3. ExportInv'
  <2>1. Chunks[s] \in Nat \ {0}
    BY FilesAssumption
  <2>2. \A c \in 1..exPos' : FALSE
    BY <1>1
  <2>3. mixed \in BOOLEAN
    BY DEF DirInv, ExportInv
  <2>4. exPos' \in 0..(Chunks[s] - 1)
    BY <1>1, <2>1
  <2> QED BY <1>1, <2>2, <2>3, <2>4 DEF ExportInv, AtFile
<1>4. (OutcomeInv /\ ReadsOneExport /\ FinishedExportIsReadable)'
  BY <1>1 DEF OutcomeInv, ReadsOneExport, FinishedExportIsReadable, NoImport
<1> QED BY <1>2, <1>3, <1>4 DEF DirInv

\* Opening or finishing a chunk keeps the invariant (export_storage_logs).
LEMMA WriteChunkKeeps ==
  ASSUME DirInv, WriteChunk
  PROVE  DirInv'
<1> PICK s, k : s = exState /\ k = exPos + 1
  OBVIOUS
<1>1. /\ exportPc = "chunks" /\ exState = s /\ exState' = s /\ exPath' = exPath
      /\ Encode(<<Number[s], k>>)
      /\ exPos' = (IF isOpen THEN k ELSE exPos)
      /\ exportPc' = (IF exPos' = Chunks[s] THEN "deps" ELSE "chunks")
      /\ hasHeader' = hasHeader /\ header' = header /\ mixed' = mixed
      /\ finished' = finished /\ imported' = imported
  BY DEF WriteChunk, ChunkName
<1>2. /\ s \in Snapshots /\ exPos \in 0..(Chunks[s] - 1) /\ exPath \in Paths
      /\ ~finished /\ imported.verdict = "none" /\ isOpen \in BOOLEAN
      /\ finished \in BOOLEAN /\ mixed \in BOOLEAN
      /\ \A c \in 1..exPos : Holds(s, <<Number[s], c>>)
      /\ AtFile(k)
  BY <1>1 DEF DirInv, ExportInv, OutcomeInv, AtFile
<1>3. Chunks[s] \in Nat \ {0} /\ k \in 1..Chunks[s] /\ k \in 0..Chunks[s]
  BY <1>2, FilesAssumption
<1>4. Before(s, k) = 1..exPos
  BY <1>2, <1>3 DEF Before
<1>5. /\ isOpen' = ~isOpen
      /\ isOpen => Holds(s, <<Number[s], k>>)'
      /\ ~isOpen => /\ <<Number[s], k>> \in DOMAIN files'
                   /\ files'[<<Number[s], k>>] \in {s, "torn"}
  BY <1>1, <1>2, EncodeStep DEF Holds
<1>6. \A c \in 1..exPos : Holds(s, <<Number[s], c>>)'
  <2>1. ASSUME NEW c \in 1..exPos PROVE Holds(s, <<Number[s], c>>)'
    <3>1. Holds(exState, <<Number[s], c>>)
      BY <1>1, <1>2
    <3>2. Holds(exState, <<Number[s], c>>)'
      BY <1>1, <1>2, <3>1, EncodeKeepsOwn
    <3> QED BY <1>1, <3>2 DEF Holds
  <2> QED BY <2>1
<1>7. FilesInv'
  BY <1>1, <1>2, <1>3, <1>4, EncodeKeepsFiles DEF DirInv
<1>8. ExportInv'
  <2>1. CASE isOpen
    <3>1. exPos' = k /\ isOpen' = FALSE /\ exPos' \in 1..Chunks[s]
      BY <1>1, <1>3, <1>5, <2>1
    <3>2. \A c \in 1..exPos' : Holds(s, <<Number[s], c>>)'
      <4> TAKE c \in 1..exPos'
      <4>1. c \in 1..exPos \/ c = k
        BY <1>2, <3>1
      <4> QED BY <1>5, <1>6, <2>1, <4>1
    <3>3. \A c \in 1..exPos' : Holds(exState, <<Number[exState], c>>)'
      BY <1>1, <3>2 DEF Holds
    <3>4. CASE exPos' = Chunks[s]
      BY <1>1, <1>2, <1>3, <3>1, <3>3, <3>4 DEF ExportInv, AtFile
    <3>5. CASE exPos' # Chunks[s]
      <4>1. exPos' \in 0..(Chunks[s] - 1)
        BY <1>3, <3>1, <3>5
      <4> QED BY <1>1, <1>2, <1>3, <3>1, <3>3, <3>5, <4>1 DEF ExportInv, AtFile
    <3> QED BY <3>4, <3>5
  <2>2. CASE ~isOpen
    <3>1. exPos' = exPos /\ isOpen' = TRUE /\ exportPc' = "chunks"
      <4>1. exPos # Chunks[s]
        BY <1>2, <1>3
      <4> QED BY <1>1, <1>5, <2>2, <4>1
    <3>2. \A c \in 1..exPos' : Holds(exState, <<Number[exState], c>>)'
      BY <1>1, <1>6, <3>1 DEF Holds
    <3>3. AtFile(exPos + 1)'
      BY <1>1, <1>5, <2>2, <3>1 DEF AtFile
    <3> QED BY <1>1, <1>2, <3>1, <3>2, <3>3 DEF ExportInv
  <2> QED BY <2>1, <2>2
<1>9. TextInv'
  BY <1>1, <1>2, EncodeKeepsText DEF DirInv
<1>10. (OutcomeInv /\ ReadsOneExport /\ FinishedExportIsReadable)'
  BY <1>1, <1>2 DEF OutcomeInv, ReadsOneExport, FinishedExportIsReadable
<1> QED BY <1>7, <1>8, <1>9, <1>10 DEF DirInv

\* The dependencies follow the last chunk (export_factory_deps).
LEMMA WriteDepsKeeps ==
  ASSUME DirInv, WriteDeps
  PROVE  DirInv'
<1> PICK s : s = exState
  OBVIOUS
<1>1. /\ exportPc = "deps" /\ exState = s /\ exState' = s /\ exPath' = exPath
      /\ Encode(<<Number[s], 0>>)
      /\ exPos' = 0 /\ exportPc' = (IF isOpen THEN "header" ELSE "deps")
      /\ hasHeader' = hasHeader /\ header' = header /\ mixed' = mixed
      /\ finished' = finished /\ imported' = imported
  BY DEF WriteDeps, DepsName
<1>2. /\ s \in Snapshots /\ exPath \in Paths /\ ~finished /\ imported.verdict = "none"
      /\ isOpen \in BOOLEAN /\ finished \in BOOLEAN /\ mixed \in BOOLEAN
      /\ \A c \in 1..Chunks[s] : Holds(s, <<Number[s], c>>)
      /\ AtFile(0)
  BY <1>1 DEF DirInv, ExportInv, OutcomeInv
<1>3. Chunks[s] \in Nat \ {0} /\ 0 \in 0..Chunks[s] /\ Before(s, 0) = 1..Chunks[s]
  BY <1>2, FilesAssumption DEF Before
<1>4. /\ isOpen' = ~isOpen
      /\ isOpen => Holds(s, <<Number[s], 0>>)'
      /\ ~isOpen => /\ <<Number[s], 0>> \in DOMAIN files'
                   /\ files'[<<Number[s], 0>>] \in {s, "torn"}
  BY <1>1, <1>2, EncodeStep DEF Holds
<1>5. \A c \in 1..Chunks[s] : Holds(s, <<Number[s], c>>)'
  <2>1. ASSUME NEW c \in 1..Chunks[s] PROVE Holds(s, <<Number[s], c>>)'
    <3>1. Holds(exState, <<Number[s], c>>)
      BY <1>1, <1>2
    <3>2. Holds(exState, <<Number[s], c>>)'
      BY <1>1, <1>2, <3>1, EncodeKeepsOwn
    <3> QED BY <1>1, <3>2 DEF Holds
  <2> QED BY <2>1
<1>6. FilesInv'
  BY <1>1, <1>2, <1>3, EncodeKeepsFiles DEF DirInv
<1>7. ExportInv'
  <2>1. CASE isOpen
    <3>1. \A c \in 0..Chunks[s] : Holds(s, <<Number[s], c>>)'
      <4>1. \A c \in 0..Chunks[s] : c = 0 \/ c \in 1..Chunks[s]
        BY <1>3
      <4> QED BY <1>4, <1>5, <2>1, <4>1
    <3>2. Held(exState)'
      BY <1>1, <3>1 DEF Held, Holds
    <3>3. exPos' \in 0..(Fields(s) - 1) /\ ~(exPos' > 0)
      BY <1>1, <1>3 DEF Fields
    <3>4. (exPos \in 0..(Fields(exState) - 1))'
      BY <1>1, <3>3 DEF Fields
    <3> QED BY <1>1, <1>2, <1>4, <2>1, <3>2, <3>3, <3>4 DEF ExportInv
  <2>2. CASE ~isOpen
    <3>1. \A c \in 1..Chunks[s] : Holds(exState, <<Number[exState], c>>)'
      BY <1>1, <1>5 DEF Holds
    <3>2. AtFile(0)'
      BY <1>1, <1>4, <2>2 DEF AtFile
    <3> QED BY <1>1, <1>2, <1>4, <2>2, <3>1, <3>2 DEF ExportInv
  <2> QED BY <2>1, <2>2
<1>8. TextInv'
  BY <1>1, <1>2, EncodeKeepsText DEF DirInv
<1>9. (OutcomeInv /\ ReadsOneExport /\ FinishedExportIsReadable)'
  BY <1>1, <1>2 DEF OutcomeInv, ReadsOneExport, FinishedExportIsReadable
<1> QED BY <1>6, <1>7, <1>8, <1>9 DEF DirInv

\* A write of the header replaces one more field of what is there.
LEMMA WriteHeaderKeeps ==
  ASSUME DirInv, WriteHeader
  PROVE  DirInv'
<1> PICK s, p, k : s = exState /\ p = exPath /\ k = IF isOpen THEN exPos + 1 ELSE 0
  OBVIOUS
<1>1. /\ exportPc = "header" /\ exState = s /\ exState' = s /\ exPath = p /\ exPath' = p
      /\ exPos' = k /\ isOpen' = TRUE /\ hasHeader' = TRUE
      /\ header' = Overwritten(s, p, k)
      /\ finished' = (k = Fields(s)) /\ mixed' = (mixed /\ ~finished')
      /\ exportPc' = (IF finished' THEN "off" ELSE "header")
      /\ files' = files /\ imported' = imported
      /\ patched' = (IF finished' THEN patched \ {Number[s]} ELSE patched)
  BY DEF WriteHeader
<1>2. /\ s \in Snapshots /\ p \in Paths /\ imported.verdict = "none" /\ Held(s)
      /\ isOpen \in BOOLEAN /\ mixed \in BOOLEAN
      /\ exPos \in 0..(Fields(s) - 1) /\ (~isOpen => exPos = 0)
  BY <1>1 DEF DirInv, ExportInv, OutcomeInv
<1>3. Fields(s) \in Nat \ {0} /\ Width[s, p] \in Nat \ {0}
  BY <1>2, WidthType
<1>4. k \in 0..Fields(s) /\ k \in Nat /\ (k = 0 => ~isOpen)
  <2> DEFINE f == Fields(s)
  <2>1. f \in Nat \ {0} /\ exPos \in 0..(f - 1)
    BY <1>2, <1>3
  <2> HIDE DEF f
  <2>2. k \in 0..f /\ k \in Nat /\ (k = 0 => ~isOpen)
    BY <1>2, <2>1
  <2> QED BY <2>2 DEF f
<1>5. Rewritten(s, p, k)
  <2>1. Len(header) \in Nat /\ header = [i \in 1..Len(header) |-> header[i]]
    BY DEF DirInv, TextInv
  <2>2. k \in Nat /\ header' = Overwritten(s, p, k)
    BY <1>1, <1>4
  <2> QED BY <1>2, <2>1, <2>2, HeaderWritten
<1>6. Prefix(s, p, k)'
  BY <1>5 DEF Prefix, Unit, Rewritten
<1>7. \A t : Held(t) => Held(t)'
  BY <1>1 DEF Held, Holds
<1>8. Held(s)'
  BY <1>2, <1>7
<1>9. FilesInv'
  BY <1>1 DEF DirInv, FilesInv
<1>10. ExportInv'
  <2>1. CASE k = Fields(s)
    BY <1>1, <1>2, <2>1 DEF ExportInv
  <2>2. CASE k # Fields(s)
    <3>1. finished' = FALSE /\ exportPc' = "header" /\ mixed' = mixed
      BY <1>1, <1>2, <2>2
    <3>2. exPos' \in 0..(Fields(s) - 1)
      <4> DEFINE f == Fields(s)
      <4>1. f \in Nat \ {0} /\ k \in 0..f /\ k # f
        BY <1>3, <1>4, <2>2
      <4> HIDE DEF f
      <4>2. k \in 0..(f - 1)
        BY <4>1
      <4> QED BY <1>1, <4>2 DEF f
    <3>3. (Held(exState) /\ exPos \in 0..(Fields(exState) - 1)
           /\ Prefix(exState, exPath, exPos))'
      <4>1. Held(exState)'
        BY <1>1, <1>8 DEF Held, Holds
      <4>2. (exPos \in 0..(Fields(exState) - 1))'
        BY <1>1, <3>2 DEF Fields
      <4>3. Prefix(exState, exPath, exPos)'
        <5>1. exState' = s /\ exPath' = p /\ exPos' = k
          BY <1>1
        <5> QED BY ONLY <1>6, <5>1 DEF Prefix, Unit
      <4> QED BY <4>1, <4>2, <4>3
    <3> QED BY <1>1, <1>2, <3>1, <3>3 DEF ExportInv
  <2> QED BY <2>1, <2>2
<1>11. TextInv'
  <2>2. \/ exportPc' = "header" /\ exPos' > 0
        \/ mixed' \/ ~Parses'
        \/ \E t \in Snapshots, q \in Paths :
             IsText(t, q)' /\ (Number[t] \in patched' \/ Held(t)')
    <3>1. CASE k = Fields(s)
      <4>1. Prefix(s, p, Fields(s))'
        BY <1>6, <3>1 DEF Prefix, Unit, Fields
      <4>2. Parses' => IsText(s, p)'
        BY <1>2, <1>5, <4>1, LaterPrefixIsText DEF Rewritten
      <4> QED BY <1>2, <1>8, <4>2
    <3>2. CASE k # Fields(s) /\ k > 0
      BY <1>1, <3>2
    <3>3. CASE k # Fields(s) /\ k = 0
      <4>1. header' = header /\ mixed' = mixed /\ exPos = 0 /\ patched' = patched
        BY <1>1, <1>2, <1>4, <1>5, <3>3 DEF Rewritten
      <4>2. \/ mixed \/ ~Parses
            \/ \E t \in Snapshots, q \in Paths :
                 IsText(t, q) /\ (Number[t] \in patched \/ Held(t))
        BY <4>1 DEF DirInv, TextInv
      <4> QED BY <1>7, <4>1, <4>2, HeaderKept
    <3> QED BY <1>4, <3>1, <3>2, <3>3
  <2> QED BY <1>5, <2>2 DEF TextInv, Rewritten
<1>12. OutcomeInv'
  <2>1. imported'.verdict = "none"
    BY <1>1, <1>2
  <2>2. ASSUME finished'
        PROVE  (Held(exState) /\ Prefix(exState, exPath, Fields(exState)))'
    <3>1. k = Fields(s)
      BY <1>1, <2>2
    <3>2. exState' = s /\ exPath' = p
      BY <1>1
    <3>3. Held(exState)'
      BY ONLY <1>8, <3>2 DEF Held, Holds
    <3>4. Prefix(exState, exPath, Fields(exState))'
      BY ONLY <1>6, <3>1, <3>2 DEF Prefix, Unit, Fields
    <3> QED BY <3>3, <3>4
  <2> QED BY <1>1, <1>2, <2>1, <2>2 DEF OutcomeInv
<1>13. (ReadsOneExport /\ FinishedExportIsReadable)'
  BY <1>1, <1>2 DEF ReadsOneExport, FinishedExportIsReadable
<1> QED BY <1>9, <1>10, <1>11, <1>12, <1>13 DEF DirInv

\* A kill leaves a header that does not parse, or is recorded in `mixed`.
LEMMA KillExportKeeps ==
  ASSUME DirInv, KillExport
  PROVE  DirInv'
<1>1. /\ exportPc # "off" /\ exportPc' = "off"
      /\ mixed' = (mixed \/ (exportPc = "header" /\ exPos > 0 /\ Parses))
      /\ files' = files /\ hasHeader' = hasHeader /\ header' = header /\ patched' = patched
      /\ finished' = finished /\ isOpen' = isOpen /\ imported' = imported
  BY DEF KillExport, fileVars
<1>2. ~finished /\ imported.verdict = "none"
  BY <1>1 DEF DirInv, ExportInv, OutcomeInv
<1>3. FilesInv' /\ TextInv'
  BY <1>1, FilesKept, TextKept DEF DirInv
<1>4. ExportInv'
  BY <1>1, <1>2 DEF DirInv, ExportInv
<1>5. (OutcomeInv /\ ReadsOneExport /\ FinishedExportIsReadable)'
  BY <1>1, <1>2 DEF OutcomeInv, ReadsOneExport, FinishedExportIsReadable
<1> QED BY <1>3, <1>4, <1>5 DEF DirInv

\* The chunks of an inferred header have the one number there is; they are those of
\* one state unless the number is patched.
LEMMA InferredIsRead ==
  ASSUME FilesInv, ~hasHeader, NEW dir, NEW t \in Snapshots, NamedBatches = {Number[t]},
         DepsReadable(InferredHeader, dir)
  PROVE  /\ InferredHeader.num = Number[t]
         /\ DOMAIN InferredHeader.list \subseteq Nat
         /\ \A c \in DOMAIN InferredHeader.list : InferredHeader.list[c].batch = Number[t]
         /\ Number[t] \notin patched =>
              \E s \in Snapshots :
                Number[s] = Number[t] /\ ChunksRead(InferredHeader, dir) = Complete(s)
<1> DEFINE n == Number[t]
           bare == [batch |-> n, dir |-> "bare"]
           cs == {name[2] : name \in DOMAIN files} \ {0}
<1>1. InferredHeader = [num |-> n, list |-> [c \in cs |-> bare], deps |-> bare]
  <2>1. (CHOOSE b \in NamedBatches : TRUE) = n
    OBVIOUS
  <2> QED BY <2>1 DEF InferredHeader
<1>2. Resolves(bare, dir) /\ Whole(<<n, 0>>)
  BY <1>1 DEF DepsReadable, Readable, DepsName
<1>3. cs \subseteq Nat
  <2>1. ASSUME NEW name \in DOMAIN files PROVE name[2] \in Nat
    <3>1. PICK s \in Snapshots : \E c \in 0..Chunks[s] : name = <<Number[s], c>>
      BY DEF FilesInv
    <3>2. Chunks[s] \in Nat
      BY FilesAssumption
    <3> QED BY <3>1, <3>2
  <2> QED BY <2>1
<1>4. ASSUME n \notin patched
      PROVE  \E s \in Snapshots :
               Number[s] = n /\ ChunksRead(InferredHeader, dir) = Complete(s)
  <2>1. PICK s \in Snapshots : Number[s] = n /\ Begun(s)
    BY <1>4 DEF FilesInv
  <2>2. Chunks[s] \in Nat \ {0}
    BY FilesAssumption
  <2>3. /\ files[<<n, 0>>] = s /\ <<n, 0>> \in DOMAIN files
        /\ \A d \in 1..Chunks[s] : Holds(s, <<n, d>>)
    <3>1. <<n, 0>> \in DOMAIN files /\ files[<<n, 0>>] # "torn" /\ <<n, 0>>[1] = Number[s]
      BY <1>2, <2>1 DEF Whole
    <3>2. PICK c \in 0..Chunks[s] :
            /\ <<n, 0>> = <<Number[s], c>> /\ files[<<n, 0>>] \in {s, "torn"}
            /\ \A d \in Before(s, c) : Holds(s, <<Number[s], d>>)
      BY <2>1, <3>1 DEF Begun
    <3>3. c = 0
      BY <3>2
    <3> QED BY <2>1, <3>1, <3>2, <3>3 DEF Before
  <2>4. Held(s)
    <3>1. \A c \in 0..Chunks[s] : c = 0 \/ c \in 1..Chunks[s]
      BY <2>2
    <3> QED BY <2>1, <2>3, <3>1 DEF Held, Holds
  <2>5. cs = 1..Chunks[s]
    <3>1. ASSUME NEW c \in 1..Chunks[s] PROVE c \in cs
      <4>1. <<n, c>> \in DOMAIN files
        BY <2>3 DEF Holds
      <4>2. c # 0 /\ <<n, c>>[2] = c
        BY <2>2
      <4> QED BY <4>1, <4>2
    <3>2. ASSUME NEW name \in DOMAIN files, name[2] # 0 PROVE name[2] \in 1..Chunks[s]
      <4>1. name[1] = Number[s]
        BY <2>1 DEF NamedBatches
      <4>2. PICK c \in 0..Chunks[s] : name = <<Number[s], c>>
        BY <2>1, <4>1 DEF Begun
      <4> QED BY <2>2, <3>2, <4>2
    <3> QED BY <3>1, <3>2
  <2>6. InferredHeader.list = [c \in 1..Chunks[s] |-> bare]
    BY <1>1, <2>5
  <2>7. bare.batch = Number[s]
    BY <2>1
  <2>8. ChunksRead(InferredHeader, dir) = Complete(s)
    BY <1>2, <2>4, <2>6, <2>7, HeldIsRead
  <2> QED BY <2>1, <2>8
<1> QED BY <1>1, <1>3, <1>4

\* A stored header that is one state's text leads to that state's files.
LEMMA StoredIsRead ==
  ASSUME TextInv, NEW s \in Snapshots, NEW p \in Paths, IsText(s, p), NEW dir
  PROVE  /\ StoredHeader.num = Number[s]
         /\ StoredHeader.list = [c \in 1..Chunks[s] |-> [batch |-> Number[s], dir |-> p]]
         /\ DepsReadable(StoredHeader, dir) => Resolves([batch |-> Number[s], dir |-> p], dir)
         /\ Held(s) /\ Resolves([batch |-> Number[s], dir |-> p], dir)
              => /\ DepsReadable(StoredHeader, dir)
                 /\ ChunksRead(StoredHeader, dir) = Complete(s)
<1> DEFINE path == [batch |-> Number[s], dir |-> p]
<1>1. header = [i \in 1..Len(header) |-> header[i]]
  BY DEF TextInv
<1>2. StoredHeader.num = Number[s] /\ StoredHeader.deps = path
      /\ StoredHeader.list = [c \in 1..Chunks[s] |-> path]
  BY <1>1, TextIsRead
<1>3. Held(s) => Whole(DepsName(Number[s]))
  BY FilesAssumption DEF Held, Holds, Whole, DepsName
<1>4. DepsReadable(StoredHeader, dir) <=> Resolves(path, dir) /\ Whole(DepsName(Number[s]))
  BY <1>2 DEF DepsReadable, Readable
<1>5. Held(s) /\ Resolves(path, dir) => ChunksRead(StoredHeader, dir) = Complete(s)
  BY <1>2, HeldIsRead
<1> QED BY <1>2, <1>3, <1>4, <1>5

\* An import reads one export, and the finished one if there is one (run).
LEMMA ImportKeeps ==
  ASSUME DirInv, Import
  PROVE  DirInv'
<1>1. PICK dir \in WorkDirs :
        imported' = IF NoHeader \/ ~DepsReadable(Header, dir)
                    THEN [NoImport EXCEPT !.verdict = "refused", !.dir = dir]
                    ELSE [verdict |-> "ran", dir |-> dir, batch |-> Header.num,
                          chunks |-> ChunksRead(Header, dir)]
  BY DEF Import
<1>2. /\ exportPc = "off" /\ exportPc' = exportPc /\ exState' = exState /\ exPath' = exPath
      /\ exPos' = exPos /\ isOpen' = isOpen /\ files' = files /\ hasHeader' = hasHeader
      /\ header' = header /\ finished' = finished /\ mixed' = mixed /\ patched' = patched
  BY DEF Import, fileVars, exportVars
<1>3. imported'.dir = dir /\ (imported'.verdict = "ran" <=> ~NoHeader /\ DepsReadable(Header, dir))
      /\ (imported'.verdict = "ran" =>
            imported'.batch = Header.num /\ imported'.chunks = ChunksRead(Header, dir))
  <2>1. CASE NoHeader \/ ~DepsReadable(Header, dir)
    <3>1. imported' = [verdict |-> "refused", dir |-> dir, batch |-> 0, chunks |-> <<>>]
      BY <1>1, <2>1 DEF NoImport
    <3> QED BY <2>1, <3>1
  <2>2. CASE ~(NoHeader \/ ~DepsReadable(Header, dir))
    <3>1. imported' = [verdict |-> "ran", dir |-> dir, batch |-> Header.num,
                       chunks |-> ChunksRead(Header, dir)]
      BY <1>1, <2>2
    <3> QED BY <2>2, <3>1
  <2> QED BY <2>1, <2>2
<1>4. (FilesInv /\ ExportInv /\ TextInv /\ OutcomeInv)'
  <2>1. FilesInv' /\ TextInv' /\ Held(exState)' = Held(exState)
    BY <1>2, FilesKept, TextKept DEF DirInv, Held, Holds
  <2>2. ExportInv'
    BY <1>2 DEF DirInv, ExportInv
  <2>3. Prefix(exState, exPath, Fields(exState))' <=> Prefix(exState, exPath, Fields(exState))
    BY <1>2 DEF Prefix, Unit, Fields
  <2>4. OutcomeInv'
    BY <1>2, <2>1, <2>3 DEF DirInv, OutcomeInv
  <2> QED BY <2>1, <2>2, <2>4
<1>5. ReadsOneExport'
  <2> SUFFICES ASSUME imported'.verdict = "ran", ~mixed
               PROVE  /\ \A c \in DOMAIN imported'.chunks :
                           Number[imported'.chunks[c]] = imported'.batch
                      /\ \/ imported'.batch \in patched
                         \/ \E s \in Snapshots : /\ imported'.batch = Number[s]
                                                /\ imported'.chunks = Complete(s)
    BY <1>2 DEF ReadsOneExport, Complete
  <2>1. ~NoHeader /\ DepsReadable(Header, dir) /\ imported'.batch = Header.num
        /\ imported'.chunks = ChunksRead(Header, dir) /\ FilesInv /\ TextInv
    BY <1>3 DEF DirInv
  <2>2. /\ DOMAIN Header.list \subseteq Nat
        /\ \A c \in DOMAIN Header.list : Header.list[c].batch = Header.num
        /\ \/ Header.num \in patched
           \/ \E s \in Snapshots :
                Header.num = Number[s] /\ ChunksRead(Header, dir) = Complete(s)
    <3>1. CASE hasHeader
      <4>1. Parses /\ Header = StoredHeader
        BY <2>1, <3>1 DEF NoHeader, Header
      <4>2. PICK s \in Snapshots, p \in Paths :
              IsText(s, p) /\ (Number[s] \in patched \/ Held(s))
        BY <1>2, <2>1, <4>1 DEF TextInv
      <4>3. /\ StoredHeader.num = Number[s]
            /\ StoredHeader.list = [c \in 1..Chunks[s] |-> [batch |-> Number[s], dir |-> p]]
            /\ Held(s) => ChunksRead(StoredHeader, dir) = Complete(s)
        BY <2>1, <4>1, <4>2, StoredIsRead
      <4> QED BY <4>1, <4>2, <4>3
    <3>2. CASE ~hasHeader
      <4>1. PICK t \in Snapshots : NamedBatches = {Number[t]}
        BY <2>1, <3>2 DEF NoHeader
      <4>2. Header = InferredHeader
        BY <3>2 DEF Header
      <4> QED BY <2>1, <3>2, <4>1, <4>2, InferredIsRead
    <3> QED BY <3>1, <3>2
  <2>3. \A c \in DOMAIN ChunksRead(Header, dir) : Number[ChunksRead(Header, dir)[c]] = Header.num
    BY <2>1, <2>2, ReadHasNumber
  <2> QED BY <2>1, <2>2, <2>3
<1>6. FinishedExportIsReadable'
  <2> PICK s, p : s = exState /\ p = exPath
    OBVIOUS
  <2> SUFFICES ASSUME finished, ~(Len(header) > TextLen(s, p)), p \in Absolute \/ dir = "home"
               PROVE  imported'.batch = Number[s] /\ imported'.chunks = Complete(s)
    BY <1>2, <1>3 DEF FinishedExportIsReadable, Complete, TextLen, Fields
  <2>1. s \in Snapshots /\ p \in Paths /\ hasHeader /\ Prefix(s, p, Fields(s)) /\ TextInv
        /\ Held(s)
        /\ Len(header) \in Nat /\ header = [i \in 1..Len(header) |-> header[i]]
    BY DEF DirInv, OutcomeInv, TextInv
  <2>2. TextLen(s, p) \in Nat /\ p # "bare"
    BY <2>1, WidthType
  <2>3. Len(header) <= TextLen(s, p)
    BY <2>1, <2>2
  <2>4. IsText(s, p)
    BY <2>1, <2>3, PrefixIsText
  <2>5. Parses /\ Header = StoredHeader /\ ~NoHeader
    BY <2>1, <2>4, TextParses DEF Header, NoHeader
  <2>6. Resolves([batch |-> Number[s], dir |-> p], dir)
    BY <2>2 DEF Resolves
  <2>7. /\ StoredHeader.num = Number[s] /\ DepsReadable(StoredHeader, dir)
        /\ ChunksRead(StoredHeader, dir) = Complete(s)
    BY <2>1, <2>4, <2>6, StoredIsRead
  <2> QED BY <1>3, <2>5, <2>7
<1> QED BY <1>4, <1>5, <1>6 DEF DirInv

\* Steps of nobody keep the invariant.
LEMMA StutterKeeps ==
  ASSUME DirInv, UNCHANGED filesVars
  PROVE  DirInv'
<1>1. /\ files' = files /\ hasHeader' = hasHeader /\ header' = header
      /\ exportPc' = exportPc /\ exState' = exState /\ exPath' = exPath /\ exPos' = exPos
      /\ isOpen' = isOpen /\ imported' = imported /\ finished' = finished /\ mixed' = mixed
      /\ patched' = patched
  BY DEF filesVars, fileVars, exportVars
<1>2. FilesInv' /\ TextInv'
  BY <1>1, FilesKept, TextKept DEF DirInv
<1>3. ExportInv'
  BY <1>1 DEF DirInv, ExportInv, AtFile, Held, Holds, Prefix, Unit, Fields
<1>4. OutcomeInv'
  BY <1>1 DEF DirInv, OutcomeInv, Held, Holds, Prefix, Unit, Fields
<1>5. (ReadsOneExport /\ FinishedExportIsReadable)'
  BY <1>1 DEF DirInv, ReadsOneExport, FinishedExportIsReadable, Complete, TextLen, Fields
<1> QED BY <1>2, <1>3, <1>4, <1>5 DEF DirInv

\* Every step keeps the invariant.
LEMMA StepKeeps ==
  ASSUME DirInv, [FilesNext]_filesVars
  PROVE  DirInv'
<1>1. CASE \E s \in Snapshots, p \in Paths : BeginExport(s, p)
  BY <1>1, BeginExportKeeps
<1>2. CASE WriteChunk
  BY <1>2, WriteChunkKeeps
<1>3. CASE WriteDeps
  BY <1>3, WriteDepsKeeps
<1>4. CASE WriteHeader
  BY <1>4, WriteHeaderKeeps
<1>5. CASE KillExport
  BY <1>5, KillExportKeeps
<1>6. CASE Import
  BY <1>6, ImportKeeps
<1>7. CASE UNCHANGED filesVars
  BY <1>7, StutterKeeps
<1> QED BY <1>1, <1>2, <1>3, <1>4, <1>5, <1>6, <1>7 DEF FilesNext

\* The invariant of the directory holds however many exports and kills there are.
THEOREM DirectoryStaysSound == FilesSpec => []DirInv
<1> QED BY InitialDirectory, StepKeeps, PTL DEF FilesSpec

\* Whatever exports of whatever states were killed, wherever they were: an import that
\* runs reads chunks of the number it sets the tree to, and all of them and of one state
\* unless an export of another state of that number was killed and none finished since,
\* or a kill fell into a header that was being written over one of the same form
\* (SnapshotImporter::run).
THEOREM ImportsReadOneExport == FilesSpec => []ReadsOneExport
<1>1. DirInv => ReadsOneExport
  BY DEF DirInv
<1> QED BY <1>1, DirectoryStaysSound, PTL

\* What a finished export leaves can be imported as that state from wherever its paths
\* resolve, whatever other states of the same number left, unless the directory held a
\* longer header (SnapshotExporter::export_snapshot).
THEOREM FinishedExportsAreReadable == FilesSpec => []FinishedExportIsReadable
<1>1. DirInv => FinishedExportIsReadable
  BY DEF DirInv
<1> QED BY <1>1, DirectoryStaysSound, PTL

=============================================================================
