----------------------- MODULE SnapshotTransferProofs -----------------------
(***************************************************************************)
(* Sessions with and without an import, for every chain, every snapshot    *)
(* and every chunk size.  First, that they call the key index in no way    *)
(* that KeyIndexDb does not foresee: what is proved of the index alone     *)
(* then holds in the whole tool.  Then, what an import leaves behind and   *)
(* what can make a processor reject an honest batch.                       *)
(***************************************************************************)
EXTENDS SnapshotTransfer, TreeProcessorProofs

-----------------------------------------------------------------------------
(***************************************************************************)
(* The chunks of a snapshot.                                               *)
(***************************************************************************)
\* No chunk that the header counts is empty, and together they hold all logs.
LEMMA ChunksCount ==
  ASSUME NEW m \in Nat, NEW s \in Nat \ {0}
  PROVE  LET q == (m + s - 1) \div s
         IN  /\ q \in Nat /\ m <= q * s
             /\ \A p \in 0..(q - 1) : p * s < m /\ p * s \in Nat
<1> DEFINE q == (m + s - 1) \div s
           t == (m + s - 1) % s
<1>1. q \in Int /\ t \in 0..(s - 1) /\ m + s - 1 = q * s + t
  OBVIOUS
<1>2. q >= 0 /\ q * s \in Int
  OBVIOUS
<1> HIDE DEF q, t
<1>3. m <= q * s
  BY <1>1, <1>2
<1>4. ASSUME NEW p \in 0..(q - 1) PROVE p * s < m /\ p * s \in Nat
  <2>1. p \in Nat /\ p + 1 <= q
    BY <1>1, <1>2
  <2>2. (p + 1) * s <= q * s
    BY <1>1, <2>1
  <2>3. (p + 1) * s = p * s + s /\ p * s \in Nat
    BY <2>1
  <2> QED BY <1>1, <1>2, <2>2, <2>3
<1>5. q \in Nat
  BY <1>1, <1>2
<1> QED BY <1>3, <1>4, <1>5 DEF q

\* s is a chunk of the logs of batch b that begins after the first n of them.
IsChunk(s, b, n) ==
  /\ KeyList(s) /\ Len(s) <= ChunkSize
  /\ \A i \in 1..Len(s) :
       /\ s[i].key \in DOMAIN ChainState[b] /\ s[i].index = n + i
       /\ ChainState[b][s[i].key] = Leaf(s[i].index, s[i].value)
  /\ \A k \in DOMAIN ChainState[b] :
       ChainState[b][k].index <= n + ChunkSize => ChainState[b][k].index <= n + Len(s)

\* Every chunk of a snapshot is one.
LEMMA ChunkFacts ==
  ASSUME NEW b \in Snapshots, NEW p \in 0..(NumChunks(b) - 1)
  PROVE  /\ p * ChunkSize \in Nat /\ (p + 1) * ChunkSize = p * ChunkSize + ChunkSize
         /\ IsChunk(Chunk(b, p + 1), b, p * ChunkSize)
<1> DEFINE m    == NumLogs(b)
           from == p * ChunkSize
           n    == ChunkLen(b, p + 1)
           s    == Chunk(b, p + 1)
<1>1. b \in 0..NumBatches /\ ChunkSize \in Nat \ {0}
  BY TransferAssumption, L2Assumption DEF Batches
<1>2. NumKeys(b) \in Nat /\ IndexRepeated(b) = NumKeys(b) + 1
  BY <1>1, StateFacts, Zenon
<1>3. m \in Nat /\ m = NumKeys(b)
  BY <1>2 DEF NumLogs
<1>4. from < m /\ from \in Nat
  BY <1>1, <1>3, ChunksCount DEF NumChunks
<1>5. p \in Nat /\ (p + 1) * ChunkSize = from + ChunkSize /\ (p + 1) - 1 = p
  <2>1. p \in Nat
    OBVIOUS
  <2> QED BY <1>1, <2>1
<1>6. n = IF from + ChunkSize <= m THEN ChunkSize ELSE m - from
  BY <1>5, Zenon DEF ChunkLen
<1>7. s = [i \in 1..n |-> LogAt(b, from + i)]
  BY <1>5, Zenon DEF Chunk
<1> HIDE DEF m, from, n, s
<1>8. n \in Nat /\ from + n <= m /\ (n = ChunkSize \/ from + n = m) /\ n <= ChunkSize
  BY <1>1, <1>3, <1>4, <1>6
<1>9. Len(s) = n /\ DOMAIN s = 1..Len(s)
  BY <1>7, <1>8
<1>10. ASSUME NEW i \in 1..n
       PROVE  /\ s[i].key \in DOMAIN ChainState[b] /\ s[i].index = from + i
              /\ ChainState[b][s[i].key] = Leaf(s[i].index, s[i].value)
  <2> DEFINE j == from + i
             k == LogKey(b, j)
  <2>1. j \in 1..NumKeys(b)
    BY <1>3, <1>4, <1>8
  <2>2. k \in DOMAIN ChainState[b] /\ ChainState[b][k].index = j
    <3>1. \E l \in DOMAIN ChainState[b] : ChainState[b][l].index = j
      BY <1>1, <2>1, StateFacts, Zenon
    <3> HIDE DEF j
    <3> QED BY <3>1 DEF LogKey
  <2>3. s[i] = [key |-> k, index |-> j, value |-> ChainState[b][k].value]
    BY <1>7, Zenon DEF LogAt
  <2> HIDE DEF j, k
  <2>4. s[i].key = k /\ s[i].index = j /\ s[i].value = ChainState[b][k].value
    BY <2>3
  <2>5. ChainState[b][k] = Leaf(ChainState[b][k].index, ChainState[b][k].value)
    BY <1>1, <2>2, StateIsItsLeaves, Zenon
  <2>6. ChainState[b][s[i].key] = Leaf(s[i].index, s[i].value)
    BY <2>2, <2>4, <2>5, Zenon
  <2> QED BY <2>2, <2>4, <2>6 DEF j
<1>11. KeyList(s)
  <2>1. DOMAIN ChainState[b] \subseteq Keys
    BY <1>1, StateKeys
  <2> QED BY <1>8, <1>9, <1>10, <2>1 DEF KeyList
<1>12. ASSUME NEW k \in DOMAIN ChainState[b], ChainState[b][k].index <= from + ChunkSize
       PROVE  ChainState[b][k].index <= from + Len(s)
  <2>1. ChainState[b][k].index \in 1..m
    BY <1>1, <1>3, StateFacts, Zenon
  <2> QED BY <1>1, <1>4, <1>8, <1>9, <1>12, <2>1
<1>13. IsChunk(s, b, from)
  BY <1>8, <1>9, <1>10, <1>11, <1>12 DEF IsChunk
<1> QED BY <1>4, <1>5, <1>13 DEF from, s
-----------------------------------------------------------------------------
(***************************************************************************)
(* The invariant.                                                          *)
(***************************************************************************)
\* The leaves and the keys of the snapshot with an index of at most n.
LeavesUpTo(n) ==
  \A k \in DOMAIN ChainState[snapBatch] : ChainState[snapBatch][k].index <= n =>
    k \in DOMAIN tree /\ tree[k] = ChainState[snapBatch][k]
KeysUpTo(n) ==
  \A k \in DOMAIN ChainState[snapBatch] : ChainState[snapBatch][k].index <= n => k \in KnownKeys

\* How far an import has come in the two stores.
ImportInv ==
  pc = "import" =>
    /\ importPc \in {"genesis", "chunks"} /\ block = 0
    /\ snapBatch \in Snapshots /\ readable \in 0..NumChunks(snapBatch)
    /\ base \in {"partial", "overlaid"}
    /\ importPc = "genesis" =>
         /\ keyChunks = 0 /\ treeChunks = 0
         /\ \A j \in 1..Len(Genesis) : j < pos => Genesis[j].key \in KnownKeys
         /\ addPc # "idle" => addKey \in KeysOf(Genesis)
    /\ importPc = "chunks" =>
         /\ versions > 0
         /\ addPc # "idle" => keyChunks < readable /\ addKey \in DOMAIN ChainState[snapBatch]
         /\ KeysUpTo(keyChunks * ChunkSize + pos - 1)
         /\ LeavesUpTo(treeChunks * ChunkSize)
    /\ base = "partial" =>
         KnownKeys \cup DOMAIN tree \subseteq DOMAIN ChainState[snapBatch]

\* An import that is over, before the first batch after it.  The genesis state of
\* TreeProcessor::new is not rebuilt after one.
OverInv ==
  /\ pc = "genesis" => importPc = "off"
  /\ ImportIsOver /\ base = "whole" =>
       /\ snapBatch \in Snapshots
       /\ tree = ChainState[snapBatch] /\ DOMAIN ChainState[snapBatch] \subseteq KnownKeys

TransferInv ==
  /\ TreeInv /\ TransferTypeOK /\ readable \in Nat /\ ImportInv /\ OverInv
  /\ Spoilt \/ base \notin {"none", "whole"} \/ StoreInv

\* TypeOK of the import's own variables.
ImportTypeOK ==
  /\ importPc \in {"off", "genesis", "chunks", "done"}
  /\ snapBatch \in Snapshots \cup {0}
  /\ treeChunks \in 0..keyChunks
  /\ keyChunks \in 0..readable
  /\ keyChunks - treeChunks <= 2
  /\ base \in {"none", "partial", "lost", "overlaid", "whole"}

-----------------------------------------------------------------------------
(***************************************************************************)
(* The steps of an import.                                                 *)
(***************************************************************************)
\* The genesis keys belong to every state.
LEMMA GenesisInSnapshot ==
  ASSUME NEW b \in 0..NumBatches
  PROVE  KeysOf(Genesis) \subseteq DOMAIN ChainState[b]
<1>1. 0 \in 0..NumBatches /\ b \in 0..NumBatches
  BY L2Assumption
<1>2. DOMAIN ChainState[0] = KeysOf(Genesis)
  BY ChainFacts, GenesisFacts
<1> QED BY <1>1, <1>2, ChainGrows

\* An import begins: nothing is written yet.
LEMMA BeginImportKeeps ==
  ASSUME TransferInv, BeginImport
  PROVE  TransferInv'
<1>1. /\ UNCHANGED <<idx2key, key2idx, lastIndex, addPc, addKey, kills>>
      /\ UNCHANGED <<tree, versions, latestL1Batch, offer, torn, gapped>>
      /\ pc = "closed" /\ pc' = "import" /\ importPc' = "genesis" /\ dirExists' = TRUE
      /\ keyChunks' = 0 /\ treeChunks' = 0 /\ pos' = 1 /\ block' = 0 /\ known' = {}
      /\ sessions' = sessions + 1
      /\ snapBatch' \in Snapshots /\ readable' \in 0..NumChunks(snapBatch')
      /\ base' = IF HoldsMoreThan(snapBatch') THEN "overlaid" ELSE "partial"
  BY DEF BeginImport, keyVars, treeVars, history
<1>2. TreeInv /\ KeyInv /\ TypeInv /\ PlaceInv
  BY DEF TransferInv, TreeInv
<1>3. KnownKeys' = KnownKeys /\ addPc = "idle" /\ sessions \in Nat /\ gapped \in 0..sessions
  BY <1>1, <1>2 DEF KnownKeys, PlaceInv, TypeInv
<1>4. KeyInv' /\ FoundInv' /\ OrderInv' /\ UnkilledStores'
  <2>1. InOrder' => InOrder
    BY <1>1, <1>3 DEF InOrder
  <2> QED BY <1>1, <1>2, <2>1, SameIndex
<1>5. TypeInv'
  <2>1. KeyTypeOK' /\ sessions' \in Nat /\ gapped' \in 0..sessions' /\ 0 \in 0..NumBatches
    BY <1>1, <1>3, <1>4, L2Assumption DEF KeyInv
  <2> QED BY <1>1, <1>2, <2>1, SameTree DEF TypeInv, TreeTypeOK
<1>6. PlaceInv'
  BY <1>1, <1>2, <1>3 DEF PlaceInv
<1>7. TransferTypeOK' /\ readable' \in Nat
  <2>1. readable' \in Nat
    BY <1>1
  <2>2. ImportTypeOK'
    BY <1>1, <2>1 DEF ImportTypeOK
  <2> QED BY <1>5, <2>1, <2>2 DEF TransferTypeOK, ImportTypeOK, TypeInv
<1>8. ImportInv'
  <2>1. base' = "partial" => KnownKeys \cup DOMAIN tree \subseteq DOMAIN ChainState[snapBatch']
    BY <1>1 DEF HoldsMoreThan
  <2>2. base' \in {"partial", "overlaid"}
    BY <1>1
  <2>3. \A j \in 1..Len(Genesis) : ~(j < pos')
    BY <1>1
  <2> QED BY <1>1, <1>3, <2>1, <2>2, <2>3 DEF ImportInv
<1>9. OverInv'
  BY <1>1 DEF OverInv, ImportIsOver
<1>10. base' \notin {"none", "whole"}
  BY <1>1
<1> QED BY <1>4, <1>5, <1>6, <1>7, <1>8, <1>9, <1>10 DEF TransferInv, TreeInv

\* What steps of an import have in common: the stores they leave alone.
LEMMA InImport ==
  ASSUME TransferInv, pc = "import"
  PROVE  /\ TreeInv /\ KeyInv /\ TypeInv /\ PlaceInv /\ ImportTypeOK
         /\ importPc \in {"genesis", "chunks"} /\ block = 0
         /\ snapBatch \in Snapshots /\ snapBatch \in 0..NumBatches
         /\ readable \in 0..NumChunks(snapBatch) /\ NumChunks(snapBatch) \in Nat
         /\ keyChunks \in Nat /\ treeChunks \in Nat /\ pos \in Nat \ {0}
         /\ base \in {"partial", "overlaid"} /\ dirExists
<1>1. TreeInv /\ KeyInv /\ TypeInv /\ PlaceInv /\ ImportTypeOK /\ ImportInv /\ readable \in Nat
  BY DEF TransferInv, TreeInv, TransferTypeOK, ImportTypeOK
<1>2. snapBatch \in Snapshots /\ snapBatch \in 0..NumBatches
  <2>1. snapBatch \in Snapshots
    BY <1>1 DEF ImportInv
  <2>2. snapBatch \in Batches
    BY <2>1, TransferAssumption
  <2> QED BY <2>1, <2>2 DEF Batches
<1>3. NumLogs(snapBatch) \in Nat
  <2>1. NumKeys(snapBatch) \in Nat /\ IndexRepeated(snapBatch) = NumKeys(snapBatch) + 1
    BY <1>2, StateFacts, Zenon
  <2> QED BY <2>1 DEF NumLogs
<1>4. NumChunks(snapBatch) \in Nat
  BY <1>3, TransferAssumption, ChunksCount DEF NumChunks
<1>5. keyChunks \in Nat /\ treeChunks \in Nat /\ pos \in Nat \ {0}
  BY <1>1 DEF ImportTypeOK, TypeInv
<1>6. dirExists /\ readable \in 0..NumChunks(snapBatch) /\ block = 0
      /\ base \in {"partial", "overlaid"} /\ importPc \in {"genesis", "chunks"}
  BY <1>1 DEF PlaceInv, ImportInv
<1> QED BY <1>1, <1>2, <1>4, <1>5, <1>6

\* The loop over the genesis keys, in an import.
LEMMA ImportGenesisKeysKeeps ==
  ASSUME TransferInv, ImportGenesisKeys
  PROVE  TransferInv'
<1>1. importPc = "genesis" /\ pc = "import" /\ AddKeys(Genesis) /\ KeyList(Genesis)
  BY GenesisKeys DEF ImportGenesisKeys
<1>2. TreeInv /\ TypeInv /\ PlaceInv /\ ImportInv /\ base \in {"partial", "overlaid"}
  BY <1>1, InImport DEF TransferInv
<1>3. pos \in 1..Len(Genesis) /\ \A j \in 1..Len(Genesis) : j < pos => Genesis[j].key \in KnownKeys
  BY <1>1, <1>2 DEF ImportInv, AddKeys, KeyList, TypeInv
<1>4. KeyInv' /\ TypeInv' /\ FoundInv' /\ OrderInv' /\ UnkilledStores'
  <2>1. /\ Genesis[pos].key \in ChainKeys
        /\ \A k \in ChainKeys : ChainIndex(k) < ChainIndex(Genesis[pos].key) => k \in KnownKeys
    BY <1>3, GenesisInOrder
  <2> QED BY <1>1, <1>2, <2>1, AddKeysKeeps
<1>5. /\ UNCHANGED <<key2idx, dirExists, tree, versions, latestL1Batch, pc, block>>
      /\ UNCHANGED <<offer, sessions, gapped>>
      /\ UNCHANGED <<importPc, snapBatch, readable, keyChunks, treeChunks, base>>
      /\ \/ Genesis[pos].key \in KnownKeys /\ pos' = pos + 1 /\ addPc' = "idle"
         \/ pos' = pos /\ addKey' = Genesis[pos].key
  BY <1>1 DEF ImportGenesisKeys, importVars, AddKeys, BeginAdd, dbVars, treeVars, history
<1>6. KnownKeys' = KnownKeys /\ Genesis[pos].key \in KeysOf(Genesis)
  BY <1>1, <1>3, <1>5 DEF KnownKeys, KeysOf, KeyList
<1>7. \A j \in 1..Len(Genesis) : j < pos' => Genesis[j].key \in KnownKeys
  BY <1>3, <1>5
<1>8. PlaceInv'
  BY <1>1, <1>2, <1>5 DEF PlaceInv
<1>9. ImportInv'
  BY <1>1, <1>2, <1>5, <1>6, <1>7 DEF ImportInv
<1>10. TransferTypeOK' /\ readable' \in Nat
  BY <1>4, <1>5 DEF TransferInv, TransferTypeOK, TypeInv
<1>11. OverInv' /\ base' \notin {"none", "whole"}
  BY <1>1, <1>2, <1>5 DEF OverInv, ImportIsOver
<1> QED BY <1>4, <1>8, <1>9, <1>10, <1>11 DEF TransferInv, TreeInv

\* The tree is filled in an import: what then holds of the stores.
LEMMA ImportExtends ==
  ASSUME TransferInv, pc = "import",
         UNCHANGED <<idx2key, key2idx, lastIndex, addPc, addKey, kills, dirExists>>,
         UNCHANGED <<latestL1Batch, pc, block, known, offer, sessions, torn, gapped>>,
         versions' = versions + 1, pos' \in Nat \ {0},
         NEW E, tree' = Extended(E),
         \A e \in E : e.key \in KnownKeys /\ e.index \in Nat /\ e.value \in Words
  PROVE  TreeInv' /\ versions' > 0 /\ KnownKeys' = KnownKeys
<1>1. KeyInv /\ TypeInv /\ PlaceInv /\ dirExists /\ block = 0
  BY InImport
<1>2. KnownKeys \subseteq Keys
  BY <1>1 DEF KeyInv, KeyTypeOK, KnownKeys
<1>3. /\ DOMAIN tree' \subseteq Keys
      /\ \A k \in DOMAIN tree' : tree'[k].index \in Nat /\ tree'[k].value \in Words
      /\ tree' = [k \in DOMAIN tree' |-> [index |-> tree'[k].index, value |-> tree'[k].value]]
  BY <1>1, <1>2, ExtendedTyped
<1>4. KnownKeys' = KnownKeys
  BY DEF KnownKeys
<1>5. KeyInv' /\ FoundInv' /\ OrderInv' /\ UnkilledStores'
  <2>1. InOrder' => InOrder
    BY DEF InOrder
  <2>2. DOMAIN tree' \subseteq DOMAIN tree \cup KnownKeys
    <3>1. DOMAIN tree' = DOMAIN tree \cup {e.key : e \in E}
      BY ExtendedFacts, Zenon DEF ExtendedBy
    <3> QED BY <3>1
  <2>3. TreeInv
    BY DEF TransferInv
  <2> QED BY <2>1, <2>2, <2>3, SameIndex
<1>6. versions' \in Nat /\ versions' > 0
  BY <1>1 DEF TypeInv, TreeTypeOK
<1>7. TypeInv'
  <2>1. TreeTypeOK'
    BY <1>1, <1>3, <1>5, <1>6 DEF TypeInv, TreeTypeOK, KeyInv
  <2> QED BY <1>1, <1>3, <2>1 DEF TypeInv
<1>8. PlaceInv'
  BY <1>1 DEF PlaceInv
<1> QED BY <1>4, <1>5, <1>6, <1>7, <1>8 DEF TreeInv

\* The genesis state is rebuilt over whatever the tree holds.
LEMMA ImportGenesisKeeps ==
  ASSUME TransferInv, ImportGenesis
  PROVE  TransferInv'
<1> DEFINE E == {[key |-> Genesis[i].key, index |-> i, value |-> Genesis[i].value] :
                   i \in DOMAIN Genesis}
<1>1. /\ UNCHANGED <<idx2key, key2idx, lastIndex, addPc, addKey, kills, dirExists>>
      /\ UNCHANGED <<latestL1Batch, pc, block, known, offer, sessions, torn, gapped>>
      /\ UNCHANGED <<snapBatch, readable, keyChunks, treeChunks, base>>
      /\ importPc = "genesis" /\ pc = "import" /\ KeysAdded(Genesis)
      /\ versions' = versions + 1 /\ importPc' = "chunks" /\ pos' = 1
      /\ tree' = Extended(E)
  BY DEF ImportGenesis, keyVars, history
<1>2. /\ TypeInv /\ PlaceInv /\ ImportInv /\ ImportTypeOK
      /\ snapBatch \in Snapshots /\ snapBatch \in 0..NumBatches
      /\ readable \in 0..NumChunks(snapBatch) /\ base \in {"partial", "overlaid"} /\ block = 0
  BY <1>1, InImport DEF TransferInv
<1>3. keyChunks = 0 /\ treeChunks = 0 /\ addPc = "idle"
  BY <1>1, <1>2 DEF ImportInv, KeysAdded
<1>4. KeysOf(Genesis) \subseteq KnownKeys
  BY <1>1, <1>2, GenesisKnown DEF ImportInv, TypeInv
<1>5. \A e \in E : e.key \in KeysOf(Genesis) /\ e.index \in Nat /\ e.value \in Words
  <2>1. DOMAIN Genesis = 1..Len(Genesis) /\ Len(Genesis) \in Nat
    BY GenesisKeys DEF KeyList
  <2>2. \A i \in DOMAIN Genesis : Genesis[i].key \in KeysOf(Genesis) /\ Genesis[i].value \in Words
    BY <2>1, GenesisKeys, GenesisFacts
  <2> QED BY <2>1, <2>2
<1>6. DOMAIN tree' = DOMAIN tree \cup KeysOf(Genesis)
  BY <1>1, GenesisExtends
<1> HIDE DEF E
<1>7. TreeInv' /\ versions' > 0 /\ KnownKeys' = KnownKeys
  <2>1. pos' \in Nat \ {0}
    BY <1>1
  <2>2. \A e \in E : e.key \in KnownKeys /\ e.index \in Nat /\ e.value \in Words
    BY <1>4, <1>5
  <2> QED BY <1>1, <2>1, <2>2, ImportExtends
<1>8. TransferTypeOK' /\ readable' \in Nat
  <2>1. TreeTypeOK'
    BY <1>7 DEF TreeInv, TypeInv
  <2> QED BY <1>1, <2>1 DEF TransferInv, TransferTypeOK
<1>9. KeysUpTo(0)' /\ LeavesUpTo(0)'
  <2>1. \A k \in DOMAIN ChainState[snapBatch] : ~(ChainState[snapBatch][k].index <= 0)
    <3>1. NumKeys(snapBatch) \in Nat /\ \A k \in DOMAIN ChainState[snapBatch] :
            ChainState[snapBatch][k].index \in 1..NumKeys(snapBatch)
      BY <1>2, StateFacts, Zenon
    <3> QED BY <3>1
  <2> QED BY <1>1, <2>1 DEF KeysUpTo, LeavesUpTo
<1>10. KeysUpTo(keyChunks * ChunkSize + pos - 1)' /\ LeavesUpTo(treeChunks * ChunkSize)'
  <2>1. 0 * ChunkSize + 1 - 1 = 0 /\ 0 * ChunkSize = 0
    BY TransferAssumption
  <2>2. keyChunks' = 0 /\ treeChunks' = 0 /\ pos' = 1
    BY <1>1, <1>3
  <2> QED BY <1>9, <2>1, <2>2
<1>11. base = "partial" => (KnownKeys \cup DOMAIN tree)' \subseteq DOMAIN ChainState[snapBatch']
  BY <1>1, <1>2, <1>6, <1>7, GenesisInSnapshot DEF ImportInv
<1>12. ImportInv'
  BY <1>1, <1>2, <1>3, <1>7, <1>10, <1>11 DEF ImportInv
<1>13. OverInv' /\ base' \notin {"none", "whole"}
  BY <1>1, <1>2 DEF OverInv, ImportIsOver
<1> QED BY <1>7, <1>8, <1>12, <1>13 DEF TransferInv

\* A chunk that can be read.
LEMMA ReadableChunk ==
  ASSUME TransferInv, pc = "import", NEW p \in 0..(readable - 1)
  PROVE  /\ p * ChunkSize \in Nat /\ (p + 1) * ChunkSize = p * ChunkSize + ChunkSize
         /\ IsChunk(Chunk(snapBatch, p + 1), snapBatch, p * ChunkSize)
<1>1. /\ snapBatch \in Snapshots
      /\ readable \in 0..NumChunks(snapBatch) /\ NumChunks(snapBatch) \in Nat
  BY InImport
<1>2. p \in 0..(NumChunks(snapBatch) - 1)
  BY <1>1
<1> QED BY <1>1, <1>2, ChunkFacts

\* The loop over the keys of a chunk.
LEMMA AddChunkKeysKeeps ==
  ASSUME TransferInv, AddChunkKeys
  PROVE  TransferInv'
<1> DEFINE b == snapBatch
           n == keyChunks * ChunkSize
           s == Chunk(snapBatch, keyChunks + 1)
<1>1. importPc = "chunks" /\ pc = "import" /\ keyChunks < readable /\ AddKeys(s)
  BY DEF AddChunkKeys
<1>2. /\ TreeInv /\ TypeInv /\ PlaceInv /\ ImportInv /\ b \in 0..NumBatches
      /\ b \in Snapshots /\ readable \in 0..NumChunks(b) /\ NumChunks(b) \in Nat
      /\ keyChunks \in Nat /\ pos \in Nat \ {0} /\ base \in {"partial", "overlaid"}
  BY <1>1, InImport DEF TransferInv
<1>3. n \in Nat /\ IsChunk(s, b, n)
  <2>1. keyChunks \in 0..(readable - 1)
    BY <1>1, <1>2
  <2> QED BY <1>1, <2>1, ReadableChunk
<1>4. KeysUpTo(n + pos - 1)
  BY <1>1, <1>2 DEF ImportInv
<1> HIDE DEF n, s
<1>5. pos \in 1..Len(s) /\ Len(s) \in Nat /\ KeyList(s)
  BY <1>1, <1>2, <1>3 DEF AddKeys, IsChunk, KeyList
<1>6. s[pos].key \in DOMAIN ChainState[b] /\ ChainState[b][s[pos].key].index = n + pos
  <2>1. /\ s[pos].key \in DOMAIN ChainState[b] /\ s[pos].index = n + pos
        /\ ChainState[b][s[pos].key] = Leaf(s[pos].index, s[pos].value)
    BY <1>3, <1>5 DEF IsChunk
  <2> QED BY <2>1 DEF Leaf
<1>7. /\ s[pos].key \in ChainKeys
      /\ \A k \in ChainKeys : ChainIndex(k) < ChainIndex(s[pos].key) => k \in KnownKeys
  <2>1. s[pos].key \in ChainKeys /\ ChainIndex(s[pos].key) = n + pos
    BY <1>2, <1>6, IndexOf
  <2>2. n + pos \in 1..NumKeys(b) /\ NumKeys(b) \in Nat
    <3>1. NumKeys(b) \in Nat /\ \A k \in DOMAIN ChainState[b] : ChainState[b][k].index \in 1..NumKeys(b)
      BY <1>2, StateFacts, Zenon
    <3> QED BY <1>6, <3>1
  <2>3. ASSUME NEW k \in ChainKeys, ChainIndex(k) < n + pos PROVE k \in KnownKeys
    <3>1. ChainIndex(k) \in Nat
      BY IndicesCount
    <3>2. ChainIndex(k) <= NumKeys(b) /\ ChainIndex(k) <= n + pos - 1
      BY <1>2, <1>3, <2>2, <2>3, <3>1
    <3>3. k \in DOMAIN ChainState[b] /\ ChainState[b][k].index = ChainIndex(k)
      BY <1>2, <3>2, IndexOf
    <3> QED BY <1>4, <3>2, <3>3 DEF KeysUpTo
  <2> QED BY <2>1, <2>3
<1>8. KeyInv' /\ TypeInv' /\ FoundInv' /\ OrderInv' /\ UnkilledStores'
  BY <1>1, <1>2, <1>5, <1>7, AddKeysKeeps
<1>9. /\ UNCHANGED <<key2idx, dirExists, tree, versions, latestL1Batch, pc, block>>
      /\ UNCHANGED <<offer, sessions, gapped>>
      /\ UNCHANGED <<importPc, snapBatch, readable, keyChunks, treeChunks, base>>
      /\ \/ s[pos].key \in KnownKeys /\ pos' = pos + 1 /\ addPc' = "idle"
         \/ pos' = pos /\ addKey' = s[pos].key
  BY <1>1 DEF AddChunkKeys, importVars, AddKeys, BeginAdd, dbVars, treeVars, history
<1>10. KnownKeys' = KnownKeys
  BY <1>9 DEF KnownKeys
<1>11. KeysUpTo(keyChunks * ChunkSize + pos - 1)'
  <2>1. PICK p \in Nat : p = pos' /\ (p = pos \/ (p = pos + 1 /\ s[pos].key \in KnownKeys))
    BY <1>2, <1>9
  <2>2. KeysUpTo(n + p - 1)
    <3> SUFFICES ASSUME NEW k \in DOMAIN ChainState[b], ChainState[b][k].index <= n + p - 1
                 PROVE  k \in KnownKeys
      BY DEF KeysUpTo
    <3>0. ChainState[b][k].index \in Nat
      <4>1. NumKeys(b) \in Nat /\ ChainState[b][k].index \in 1..NumKeys(b)
        BY <1>2, StateFacts, Zenon
      <4> QED BY <4>1
    <3>1. CASE ChainState[b][k].index <= n + pos - 1
      BY <1>4, <3>1 DEF KeysUpTo
    <3>2. CASE ~(ChainState[b][k].index <= n + pos - 1)
      <4>1. ChainState[b][k].index = n + pos /\ s[pos].key \in KnownKeys
        BY <1>2, <1>3, <2>1, <3>0, <3>2
      <4>2. k = s[pos].key
        <5>1. ChainState[b][k].index = ChainState[b][s[pos].key].index
          BY <1>6, <4>1
        <5>2. \A l, m \in DOMAIN ChainState[b] :
                ChainState[b][l].index = ChainState[b][m].index => l = m
          BY <1>2, StateFacts, Zenon
        <5> QED BY <1>6, <5>1, <5>2, Zenon
      <4> QED BY <4>1, <4>2
    <3> QED BY <3>1, <3>2
  <2>3. KeysUpTo(n + p - 1)'
    BY <1>9, <1>10, <2>2 DEF KeysUpTo, n
  <2>4. keyChunks' * ChunkSize + pos' - 1 = n + p - 1
    BY <1>9, <2>1 DEF n
  <2> QED BY <1>9, <2>1, <2>3 DEF n
<1>12. LeavesUpTo(treeChunks * ChunkSize)'
  <2>1. LeavesUpTo(treeChunks * ChunkSize)
    BY <1>1, <1>2 DEF ImportInv
  <2> QED BY <1>9, <2>1 DEF LeavesUpTo
<1>13. PlaceInv'
  BY <1>1, <1>2, <1>9 DEF PlaceInv
<1>14. ImportInv'
  BY <1>1, <1>2, <1>6, <1>9, <1>10, <1>11, <1>12 DEF ImportInv
<1>15. TransferTypeOK' /\ readable' \in Nat
  BY <1>8, <1>9 DEF TransferInv, TransferTypeOK, TypeInv
<1>16. OverInv' /\ base' \notin {"none", "whole"}
  BY <1>1, <1>2, <1>9 DEF OverInv, ImportIsOver
<1> QED BY <1>8, <1>13, <1>14, <1>15, <1>16 DEF TransferInv, TreeInv

\* A chunk is sent to the tree when all of its keys are known.
LEMMA SendChunkKeeps ==
  ASSUME TransferInv, SendChunk
  PROVE  TransferInv'
<1> DEFINE b == snapBatch
           n == keyChunks * ChunkSize
           s == Chunk(snapBatch, keyChunks + 1)
<1>1. /\ UNCHANGED <<idx2key, key2idx, lastIndex, addPc, addKey, kills, dirExists>>
      /\ UNCHANGED <<tree, versions, latestL1Batch, pc, block, known, offer, sessions>>
      /\ UNCHANGED <<torn, gapped, importPc, snapBatch, readable, treeChunks, base>>
      /\ importPc = "chunks" /\ pc = "import" /\ keyChunks < readable /\ KeysAdded(s)
      /\ keyChunks - treeChunks < 2 /\ keyChunks' = keyChunks + 1 /\ pos' = 1
  BY DEF SendChunk, keyVars, treeVars, history
<1>2. /\ TreeInv /\ KeyInv /\ TypeInv /\ PlaceInv /\ ImportInv /\ ImportTypeOK
      /\ readable \in 0..NumChunks(b) /\ NumChunks(b) \in Nat
      /\ keyChunks \in Nat /\ treeChunks \in Nat /\ pos \in Nat \ {0}
      /\ base \in {"partial", "overlaid"} /\ b \in 0..NumBatches
  BY <1>1, InImport DEF TransferInv
<1>3. /\ n \in Nat /\ IsChunk(s, b, n) /\ (keyChunks + 1) * ChunkSize = n + ChunkSize
      /\ ChunkSize \in Nat
  <2>1. keyChunks \in 0..(readable - 1)
    BY <1>1, <1>2
  <2> QED BY <1>1, <2>1, ReadableChunk, TransferAssumption
<1>4. KeysUpTo(n + pos - 1)
  BY <1>1, <1>2 DEF ImportInv
<1>5. KeysUpTo(n + ChunkSize)
  <2> HIDE DEF n, s
  <2>1. addPc = "idle" /\ Len(s) \in Nat /\ Len(s) <= pos - 1
    BY <1>1, <1>2, <1>3 DEF KeysAdded, IsChunk, KeyList
  <2> SUFFICES ASSUME NEW k \in DOMAIN ChainState[b], ChainState[b][k].index <= n + ChunkSize
               PROVE  k \in KnownKeys
    BY DEF KeysUpTo
  <2>2. ChainState[b][k].index \in Nat
    <3>1. NumKeys(b) \in Nat /\ ChainState[b][k].index \in 1..NumKeys(b)
      BY <1>2, StateFacts, Zenon
    <3> QED BY <3>1
  <2>3. ChainState[b][k].index <= n + Len(s)
    BY <1>3 DEF IsChunk
  <2>4. ChainState[b][k].index <= n + pos - 1
    BY <1>2, <1>3, <2>1, <2>2, <2>3
  <2> QED BY <1>4, <2>4 DEF KeysUpTo
<1>6. KnownKeys' = KnownKeys
  BY <1>1 DEF KnownKeys
<1>7. KeysUpTo(keyChunks * ChunkSize + pos - 1)'
  <2> HIDE DEF n
  <2>1. PICK m \in Nat : m = n + ChunkSize
    BY <1>3
  <2>2. KeysUpTo(m)'
    BY <1>1, <1>5, <1>6, <2>1 DEF KeysUpTo
  <2>3. (keyChunks + 1) * ChunkSize + 1 - 1 = m
    BY <1>3, <2>1
  <2>4. keyChunks' * ChunkSize + pos' - 1 = m
    BY <1>1, <2>3
  <2> QED BY <2>2, <2>4
<1> HIDE DEF n, s
<1>8. LeavesUpTo(treeChunks * ChunkSize)'
  BY <1>1, <1>2 DEF ImportInv, LeavesUpTo
<1>9. addPc = "idle"
  BY <1>1 DEF KeysAdded
<1>10. KeyInv' /\ FoundInv' /\ OrderInv' /\ UnkilledStores'
  <2>1. InOrder' => InOrder
    BY <1>1, <1>6 DEF InOrder
  <2> QED BY <1>1, <1>2, <2>1, SameIndex
<1>11. TypeInv'
  <2>1. KeyTypeOK' /\ pos' \in Nat \ {0}
    BY <1>1, <1>10 DEF KeyInv
  <2> QED BY <1>1, <1>2, <2>1 DEF TypeInv, TreeTypeOK
<1>12. PlaceInv'
  BY <1>1, <1>2 DEF PlaceInv
<1>13. ImportInv'
  BY <1>1, <1>2, <1>6, <1>7, <1>8, <1>9 DEF ImportInv
<1>14. TransferTypeOK' /\ readable' \in Nat
  <2>1. /\ treeChunks' \in 0..keyChunks' /\ keyChunks' \in 0..readable'
        /\ keyChunks' - treeChunks' <= 2
    BY <1>1, <1>2 DEF ImportTypeOK
  <2> QED BY <1>1, <1>2, <1>11, <2>1 DEF TransferTypeOK, ImportTypeOK, TypeInv
<1>15. OverInv' /\ base' \notin {"none", "whole"}
  BY <1>1, <1>2 DEF OverInv, ImportIsOver
<1> QED BY <1>10, <1>11, <1>12, <1>13, <1>14, <1>15 DEF TransferInv, TreeInv

\* The tree is extended with a chunk whose keys are known.
LEMMA ExtendChunkKeeps ==
  ASSUME TransferInv, ExtendChunk
  PROVE  TransferInv'
<1> DEFINE b == snapBatch
           n == treeChunks * ChunkSize
           s == Chunk(snapBatch, treeChunks + 1)
           E == {s[i] : i \in DOMAIN s}
<1>1. /\ UNCHANGED <<idx2key, key2idx, lastIndex, addPc, addKey, kills, dirExists>>
      /\ UNCHANGED <<latestL1Batch, pc, block, pos, known, offer, sessions, torn, gapped>>
      /\ UNCHANGED <<importPc, snapBatch, readable, keyChunks, base>>
      /\ importPc = "chunks" /\ pc = "import" /\ treeChunks < keyChunks
      /\ tree' = Extended(E) /\ versions' = versions + 1 /\ treeChunks' = treeChunks + 1
  BY DEF ExtendChunk, keyVars, procVars, history
<1>2. /\ TypeInv /\ ImportInv /\ ImportTypeOK
      /\ readable \in 0..NumChunks(b) /\ NumChunks(b) \in Nat
      /\ keyChunks \in Nat /\ treeChunks \in Nat /\ pos \in Nat \ {0}
      /\ base \in {"partial", "overlaid"} /\ b \in 0..NumBatches
  BY <1>1, InImport DEF TransferInv
<1>3. /\ n \in Nat /\ IsChunk(s, b, n) /\ (treeChunks + 1) * ChunkSize = n + ChunkSize
      /\ ChunkSize \in Nat
  <2>1. treeChunks \in 0..(readable - 1)
    BY <1>1, <1>2 DEF ImportTypeOK
  <2> QED BY <1>1, <2>1, ReadableChunk, TransferAssumption
<1>4. NumKeys(b) \in Nat /\ \A k \in DOMAIN ChainState[b] : ChainState[b][k].index \in 1..NumKeys(b)
  BY <1>2, StateFacts, Zenon
<1>5. \A l, m \in DOMAIN ChainState[b] : ChainState[b][l].index = ChainState[b][m].index => l = m
  BY <1>2, StateFacts, Zenon
<1>6. ASSUME NEW k \in DOMAIN ChainState[b], ChainState[b][k].index <= n + ChunkSize
      PROVE  k \in KnownKeys
  <2>1. KeysUpTo(keyChunks * ChunkSize + pos - 1)
    BY <1>1, <1>2 DEF ImportInv
  <2>2. (treeChunks + 1) * ChunkSize <= keyChunks * ChunkSize /\ keyChunks * ChunkSize \in Nat
    <3>1. treeChunks + 1 <= keyChunks
      BY <1>1, <1>2
    <3> QED BY <1>2, <1>3, <3>1
  <2>3. ChainState[b][k].index <= keyChunks * ChunkSize + pos - 1
    <3> HIDE DEF n
    <3>1. PICK q \in Nat : q = keyChunks * ChunkSize
      BY <2>2
    <3>2. n + ChunkSize <= q /\ ChainState[b][k].index \in Nat
      BY <1>3, <1>4, <2>2, <3>1
    <3>3. ChainState[b][k].index <= q + pos - 1
      BY <1>2, <1>3, <1>6, <3>2
    <3> QED BY <3>1, <3>3
  <2> QED BY <2>1, <2>3 DEF KeysUpTo
<1> HIDE DEF n, s
<1>7. /\ DOMAIN s = 1..Len(s) /\ Len(s) \in Nat
      /\ \A i \in 1..Len(s) :
           /\ s[i].key \in DOMAIN ChainState[b] /\ s[i].index = n + i
           /\ ChainState[b][s[i].key] = Leaf(s[i].index, s[i].value)
           /\ s[i].index \in Nat /\ s[i].value \in Words /\ s[i].key \in KnownKeys
  <2>1. DOMAIN s = 1..Len(s) /\ Len(s) \in Nat
    BY <1>3 DEF IsChunk, KeyList
  <2>2. ASSUME NEW i \in 1..Len(s)
        PROVE  /\ s[i].key \in DOMAIN ChainState[b] /\ s[i].index = n + i
               /\ ChainState[b][s[i].key] = Leaf(s[i].index, s[i].value)
               /\ s[i].index \in Nat /\ s[i].value \in Words /\ s[i].key \in KnownKeys
    <3>1. /\ s[i].key \in DOMAIN ChainState[b] /\ s[i].index = n + i
          /\ ChainState[b][s[i].key] = Leaf(s[i].index, s[i].value)
      BY <1>3 DEF IsChunk
    <3>2. ChainState[b][s[i].key].index = s[i].index /\ ChainState[b][s[i].key].value = s[i].value
      BY <3>1 DEF Leaf
    <3>3. ChainState[b][s[i].key].value \in Words
      BY <1>2, <3>1, StateFacts, Zenon
    <3>4. n + i \in Nat /\ n + i <= n + ChunkSize
      BY <1>3, <2>1 DEF IsChunk
    <3> QED BY <1>6, <3>1, <3>2, <3>3, <3>4
  <2> QED BY <2>1, <2>2
<1>8. \A e \in E : \E i \in 1..Len(s) : e = s[i]
  BY <1>7
<1>9. \A i \in 1..Len(s) : s[i] \in E
  BY <1>7
<1> HIDE DEF E
<1>10. TreeInv' /\ versions' > 0 /\ KnownKeys' = KnownKeys
  <2>1. \A e \in E : e.key \in KnownKeys /\ e.index \in Nat /\ e.value \in Words
    BY <1>7, <1>8
  <2>2. pos' \in Nat \ {0}
    BY <1>1, <1>2
  <2> QED BY <1>1, <2>1, <2>2, ImportExtends
<1>11. ExtendedBy(tree', E)
  BY <1>1, ExtendedFacts
<1>12. LeavesUpTo(treeChunks * ChunkSize)'
  <2>1. LeavesUpTo(n)
    BY <1>1, <1>2 DEF ImportInv, n
  <2>2. ASSUME NEW k \in DOMAIN ChainState[b], ChainState[b][k].index <= n + ChunkSize
        PROVE  k \in DOMAIN tree' /\ tree'[k] = ChainState[b][k]
    <3>1. ChainState[b][k].index \in Nat /\ ChainState[b][k].index <= n + Len(s)
      BY <1>3, <1>4, <2>2 DEF IsChunk
    <3>2. CASE \E e \in E : e.key = k
      <4>1. PICK e \in E : e.key = k /\ tree'[k] = Leaf(e.index, e.value)
        BY <1>11, <3>2 DEF ExtendedBy
      <4>2. ChainState[b][k] = Leaf(e.index, e.value)
        BY <1>7, <1>8, <4>1
      <4>3. k \in DOMAIN tree'
        BY <1>11, <4>1 DEF ExtendedBy
      <4> QED BY <4>1, <4>2, <4>3
    <3>3. CASE \A e \in E : e.key # k
      <4>1. ChainState[b][k].index <= n
        <5> SUFFICES ASSUME ChainState[b][k].index > n PROVE FALSE
          BY <1>3, <3>1
        <5>1. PICK i \in 1..Len(s) : ChainState[b][k].index = n + i
          <6>1. ChainState[b][k].index - n \in 1..Len(s)
            BY <1>3, <1>7, <3>1
          <6>2. ChainState[b][k].index = n + (ChainState[b][k].index - n)
            BY <1>3, <3>1
          <6> QED BY <6>1, <6>2
        <5>2. ChainState[b][s[i].key].index = ChainState[b][k].index /\ s[i].key \in DOMAIN ChainState[b]
          <6>1. /\ s[i].key \in DOMAIN ChainState[b] /\ s[i].index = n + i
                /\ ChainState[b][s[i].key] = Leaf(s[i].index, s[i].value)
            BY <1>7
          <6>2. ChainState[b][s[i].key].index = s[i].index
            BY <6>1 DEF Leaf
          <6> QED BY <5>1, <6>1, <6>2
        <5>3. s[i].key = k
          BY <1>5, <5>2
        <5> QED BY <1>9, <3>3, <5>3
      <4>2. k \in DOMAIN tree /\ tree[k] = ChainState[b][k]
        BY <2>1, <4>1 DEF LeavesUpTo
      <4> QED BY <1>11, <3>3, <4>2 DEF ExtendedBy
    <3> QED BY <3>2, <3>3
  <2>3. PICK m \in Nat : m = n + ChunkSize
    BY <1>3
  <2>4. LeavesUpTo(m)'
    BY <1>1, <2>2, <2>3 DEF LeavesUpTo
  <2>5. treeChunks' * ChunkSize = m
    BY <1>1, <1>3, <2>3
  <2> QED BY <2>4, <2>5
<1>13. KeysUpTo(keyChunks * ChunkSize + pos - 1)'
  BY <1>1, <1>2, <1>10 DEF ImportInv, KeysUpTo
<1>14. base = "partial" => (KnownKeys \cup DOMAIN tree)' \subseteq DOMAIN ChainState[b]
  <2>1. \A e \in E : e.key \in DOMAIN ChainState[b]
    BY <1>7, <1>8
  <2>2. DOMAIN tree' = DOMAIN tree \cup {e.key : e \in E}
    BY <1>11 DEF ExtendedBy
  <2> QED BY <1>1, <1>2, <1>10, <2>1, <2>2 DEF ImportInv
<1>15. ImportInv'
  BY <1>1, <1>2, <1>10, <1>12, <1>13, <1>14 DEF ImportInv
<1>16. TransferTypeOK' /\ readable' \in Nat
  <2>1. TreeTypeOK'
    BY <1>10 DEF TreeInv, TypeInv
  <2>2. /\ treeChunks' \in 0..keyChunks' /\ keyChunks' \in 0..readable'
        /\ keyChunks' - treeChunks' <= 2
    BY <1>1, <1>2 DEF ImportTypeOK
  <2> QED BY <1>1, <1>2, <2>1, <2>2 DEF TransferTypeOK, ImportTypeOK
<1>17. OverInv' /\ base' \notin {"none", "whole"}
  BY <1>1, <1>2 DEF OverInv, ImportIsOver
<1> QED BY <1>10, <1>15, <1>16, <1>17 DEF TransferInv

\* All chunks that there are leave the state of the snapshot in the tree.
LEMMA WholeSnapshot ==
  ASSUME TransferInv, pc = "import", importPc = "chunks",
         keyChunks = NumChunks(snapBatch), treeChunks = NumChunks(snapBatch),
         base = "partial"
  PROVE  tree = ChainState[snapBatch] /\ DOMAIN ChainState[snapBatch] \subseteq KnownKeys
<1> DEFINE b == snapBatch
           q == NumChunks(b) * ChunkSize
<1>1. b \in 0..NumBatches /\ pos \in Nat \ {0} /\ TypeInv /\ ImportInv
  BY InImport DEF TransferInv
<1>2. /\ KeysUpTo(q + pos - 1) /\ LeavesUpTo(q)
      /\ DOMAIN tree \subseteq DOMAIN ChainState[b]
  BY <1>1 DEF ImportInv
<1>3. NumKeys(b) \in Nat /\ NumLogs(b) = NumKeys(b)
  <2>1. NumKeys(b) \in Nat /\ IndexRepeated(b) = NumKeys(b) + 1
    BY <1>1, StateFacts, Zenon
  <2> QED BY <2>1 DEF NumLogs
<1>4. NumKeys(b) <= q /\ q \in Nat
  <2>1. NumChunks(b) \in Nat /\ NumLogs(b) <= NumChunks(b) * ChunkSize
    BY <1>3, TransferAssumption, ChunksCount DEF NumChunks
  <2>2. ChunkSize \in Nat
    BY TransferAssumption
  <2> QED BY <1>3, <2>1, <2>2
<1> HIDE DEF q
<1>5. \A k \in DOMAIN ChainState[b] :
        ChainState[b][k].index <= q /\ ChainState[b][k].index <= q + pos - 1
  <2>1. \A k \in DOMAIN ChainState[b] : ChainState[b][k].index \in 1..NumKeys(b)
    BY <1>1, StateFacts, Zenon
  <2> QED BY <1>1, <1>3, <1>4, <2>1
<1>6. DOMAIN ChainState[b] \subseteq KnownKeys
  BY <1>2, <1>5 DEF KeysUpTo
<1>7. \A k \in DOMAIN ChainState[b] : k \in DOMAIN tree /\ tree[k] = ChainState[b][k]
  BY <1>2, <1>5 DEF LeavesUpTo
<1>8. DOMAIN tree = DOMAIN ChainState[b]
  BY <1>2, <1>7
<1>9. tree = [k \in DOMAIN tree |-> tree[k]]
  <2>1. tree = [k \in DOMAIN tree |-> [index |-> tree[k].index, value |-> tree[k].value]]
    BY <1>1 DEF TypeInv
  <2> QED BY <2>1
<1>10. ChainState[b] = [k \in DOMAIN ChainState[b] |-> ChainState[b][k]]
  BY <1>1, StateIsItsLeaves, Zenon
<1> QED BY <1>6, <1>7, <1>8, <1>9, <1>10

\* Both channels are closed.
LEMMA EndImportKeeps ==
  ASSUME TransferInv, EndImport
  PROVE  TransferInv'
<1>1. /\ UNCHANGED <<idx2key, key2idx, lastIndex, addPc, addKey, kills, dirExists>>
      /\ UNCHANGED <<tree, versions, pos, block, known, sessions, torn>>
      /\ UNCHANGED <<snapBatch, readable, keyChunks, treeChunks>>
      /\ importPc = "chunks" /\ pc = "import"
      /\ keyChunks = readable /\ treeChunks = readable
      /\ latestL1Batch' = snapBatch /\ pc' = "recv" /\ importPc' = "done"
      /\ offer' \in Batches
      /\ gapped' = IF gapped = 0 /\ offer' > snapBatch + 1 THEN sessions ELSE gapped
      /\ base' = CASE base = "overlaid"              -> "overlaid"
                   [] readable < NumChunks(snapBatch) -> "lost"
                   [] OTHER                           -> "whole"
  BY DEF EndImport, keyVars, treeVars
<1>2. /\ TreeInv /\ KeyInv /\ TypeInv /\ PlaceInv /\ ImportInv /\ ImportTypeOK
      /\ readable \in 0..NumChunks(snapBatch) /\ NumChunks(snapBatch) \in Nat
      /\ base \in {"partial", "overlaid"} /\ snapBatch \in 0..NumBatches /\ snapBatch \in Snapshots
      /\ dirExists /\ block = 0
  BY <1>1, InImport DEF TransferInv
<1>3. KnownKeys' = KnownKeys /\ addPc = "idle" /\ versions > 0
  BY <1>1, <1>2 DEF ImportInv, KnownKeys, ImportTypeOK
<1>4. sessions \in Nat \ {0} /\ gapped \in 0..sessions /\ gapped' \in {gapped, sessions}
      /\ (gapped' = 0 => gapped = 0 /\ ~(offer' > snapBatch + 1))
  BY <1>1, <1>2 DEF TypeInv, PlaceInv
<1>5. InOrder' => InOrder
  BY <1>1, <1>2, <1>4 DEF InOrder
<1>6. KeyInv' /\ FoundInv' /\ OrderInv' /\ UnkilledStores'
  BY <1>1, <1>2, <1>5, SameIndex
<1>7. TypeInv'
  <2>1. KeyTypeOK' /\ offer' \in 1..(NumBatches + 1) /\ gapped' \in 0..sessions
    <3>1. offer' \in 1..(NumBatches + 1)
      <4>1. NumBatches \in Nat /\ offer' \in 1..NumBatches
        BY <1>1, L2Assumption DEF Batches
      <4>2. PICK o \in 1..NumBatches : o = offer'
        BY <4>1
      <4>3. o \in 1..(NumBatches + 1)
        BY <4>1
      <4> QED BY <4>2, <4>3
    <3> QED BY <1>4, <1>6, <3>1 DEF KeyInv
  <2> QED BY <1>1, <1>2, <2>1, SameTree DEF TypeInv, TreeTypeOK
<1>8. PlaceInv'
  <2>1. gapped' = 0 => offer' <= latestL1Batch' + 1
    <3>1. PICK o \in Batches : o = offer'
      BY <1>1
    <3>2. o \in Int /\ snapBatch \in Int
      BY <1>2, L2Assumption DEF Batches
    <3>3. ~(o > snapBatch + 1) => o <= snapBatch + 1
      BY <3>2
    <3> QED BY <1>1, <1>4, <3>1, <3>3
  <2> QED BY <1>1, <1>2, <1>3, <2>1 DEF PlaceInv
<1>9. base' = "whole" => tree = ChainState[snapBatch] /\ DOMAIN ChainState[snapBatch] \subseteq KnownKeys
  <2> SUFFICES ASSUME base' = "whole"
               PROVE tree = ChainState[snapBatch] /\ DOMAIN ChainState[snapBatch] \subseteq KnownKeys
    OBVIOUS
  <2>1. base = "partial" /\ readable = NumChunks(snapBatch)
    BY <1>1, <1>2
  <2> QED BY <1>1, <2>1, WholeSnapshot
<1>10. OverInv'
  BY <1>1, <1>2, <1>3, <1>9 DEF OverInv
<1>11. ImportInv'
  BY <1>1 DEF ImportInv
<1>12. TransferTypeOK' /\ readable' \in Nat
  <2>1. base' \in {"lost", "overlaid", "whole"}
    BY <1>1, <1>2
  <2> QED BY <1>1, <1>2, <1>7, <2>1 DEF TransferTypeOK, ImportTypeOK, TypeInv, TransferInv
<1>13. ~Spoilt' /\ base' = "whole" => StoreInv'
  <2> SUFFICES ASSUME ~Spoilt', base' = "whole" PROVE StoreInv'
    OBVIOUS
  <2>1. torn = {} /\ (gapped' = 0 \/ gapped' = sessions)
    BY <1>1 DEF Spoilt
  <2>2. Ordered
    <3>1. InOrder
      BY <1>1, <1>2, <1>4, <2>1 DEF InOrder
    <3> QED BY <1>2, <2>1, <3>1 DEF TreeInv, OrderInv
  <2>3. KnownAsOf(snapBatch)
    BY <1>2, <1>9, <2>2, OrderedKnown
  <2>4. KnownAsOf(latestL1Batch)'
    BY <1>1, <2>3 DEF KnownAsOf, KnownKeys
  <2>5. LeavesOf(latestL1Batch)' /\ tree' = ChainState[latestL1Batch']
    BY <1>1, <1>9 DEF LeavesOf
  <2> QED BY <1>1, <1>3, <2>4, <2>5 DEF StoreInv
<1>14. base' \in {"none", "whole"} => base' = "whole"
  BY <1>1, <1>2
<1> QED BY <1>6, <1>7, <1>8, <1>10, <1>11, <1>12, <1>13, <1>14 DEF TransferInv, TreeInv

-----------------------------------------------------------------------------
(***************************************************************************)
(* The other steps.                                                        *)
(***************************************************************************)
\* The writes of add_key bring an import on.
LEMMA ImportAddsKey ==
  ASSUME TransferInv, pc = "import", AddKeyWrite, UNCHANGED importVars
  PROVE  ImportInv'
<1>1. /\ AddStep /\ UNCHANGED <<kills, dirExists, tree, versions, latestL1Batch>>
      /\ UNCHANGED <<pc, block, pos, known, offer, sessions, torn, gapped>>
      /\ UNCHANGED <<importPc, snapBatch, readable, keyChunks, treeChunks, base>>
  BY DEF AddKeyWrite, treeVars, procVars, history, importVars
<1>2. /\ KeyInv /\ ImportInv /\ snapBatch \in 0..NumBatches
      /\ importPc \in {"genesis", "chunks"}
  BY InImport DEF TransferInv
<1>3. /\ KnownKeys \subseteq KnownKeys' /\ KnownKeys' \subseteq KnownKeys \cup {addKey}
      /\ addPc # "idle" /\ (addPc' # "idle" => addKey' = addKey)
  BY <1>1, <1>2, KnownStays DEF AddStep, PutIndexToKey, PutKeyToIndex, PutLastIndex
<1>4. addKey \in DOMAIN ChainState[snapBatch]
  BY <1>2, <1>3, GenesisInSnapshot DEF ImportInv
<1>5. importPc = "chunks" =>
        KeysUpTo(keyChunks * ChunkSize + pos - 1)' /\ LeavesUpTo(treeChunks * ChunkSize)'
  <2> SUFFICES ASSUME importPc = "chunks"
               PROVE  KeysUpTo(keyChunks * ChunkSize + pos - 1)' /\ LeavesUpTo(treeChunks * ChunkSize)'
    OBVIOUS
  <2>1. KeysUpTo(keyChunks * ChunkSize + pos - 1) /\ LeavesUpTo(treeChunks * ChunkSize)
    BY <1>2 DEF ImportInv
  <2> QED BY <1>1, <1>3, <2>1 DEF KeysUpTo, LeavesUpTo
<1>6. base = "partial" => (KnownKeys \cup DOMAIN tree)' \subseteq DOMAIN ChainState[snapBatch']
  BY <1>1, <1>2, <1>3, <1>4 DEF ImportInv
<1>7. importPc = "genesis" =>
        \A j \in 1..Len(Genesis) : j < pos' => Genesis[j].key \in KnownKeys'
  BY <1>1, <1>2, <1>3 DEF ImportInv
<1> QED BY <1>1, <1>2, <1>3, <1>5, <1>6, <1>7 DEF ImportInv

\* A processor that runs leaves the import alone.
LEMMA ProcessorMoves ==
  ASSUME TransferInv, TreeStep \/ Close \/ KillProcessor
  PROVE  /\ pc' = "import" => pc = "import" /\ AddKeyWrite
         /\ pc' = "genesis" => pc = "genesis"
         /\ pc' = "recv" /\ pc # "genesis" /\ block' = 0 =>
              pc = "recv" /\ block = 0 /\ UNCHANGED <<tree, key2idx>>
<1>1. PlaceInv /\ TypeInv
  BY DEF TransferInv, TreeInv
<1>2. CASE AddGenesisKeys \/ AddInitialKeys
  BY <1>2 DEF AddGenesisKeys, AddInitialKeys, AddKeys
<1>3. CASE AddKeyWrite
  <2>1. addPc # "idle" /\ UNCHANGED pc
    BY <1>3 DEF AddKeyWrite, AddStep, PutIndexToKey, PutKeyToIndex, PutLastIndex, procVars
  <2> QED BY <1>1, <1>3, <2>1 DEF PlaceInv
<1>4. CASE ExtendGenesis \/ InsertPanics \/ RollBack \/ ReceiveBlock
  BY <1>4 DEF ExtendGenesis, InsertPanics, RollBack, ReceiveBlock
<1>5. CASE ExtendTree
  <2>1. pc' \in {"persist", "rollback"}
    BY <1>5, ExtendTreeKeeps DEF TransferInv
  <2> QED BY <2>1
<1>6. CASE PersistBatch
  <2>1. pc = "persist" /\ pc' = "recv" /\ block' = block
    BY <1>6 DEF PersistBatch
  <2>2. block # 0
    BY <1>1, <2>1 DEF PlaceInv, Batches
  <2> QED BY <2>1, <2>2
<1>7. CASE SkipBlock
  BY <1>7 DEF SkipBlock, keyVars, treeVars
<1>8. CASE Close \/ KillProcessor
  BY <1>8 DEF Close, KillProcessor
<1> QED BY <1>2, <1>3, <1>4, <1>5, <1>6, <1>7, <1>8 DEF TreeStep

\* The steps of the processor keep the invariant.
LEMMA ProcessorStepKeeps ==
  ASSUME TransferInv, ProcessorStep
  PROVE  TransferInv'
<1>1. UNCHANGED <<importPc, snapBatch, readable, keyChunks, treeChunks, base>>
  BY DEF ProcessorStep, importVars
<1>2. TreeInv /\ ImportInv /\ OverInv
  BY DEF TransferInv
<1>3. /\ TreeInv' /\ (~Spoilt' => ~Spoilt)
      /\ ~Spoilt' /\ pc # "import" /\ StoreInv => StoreInv'
  <2>1. CASE TreeStep
    BY <1>2, <2>1, TreeStepKeeps
  <2>2. CASE Close
    BY <1>2, <2>2, CloseKeeps
  <2>3. CASE KillProcessor
    BY <1>2, <2>3, KillProcessorKeeps
  <2> QED BY <2>1, <2>2, <2>3 DEF ProcessorStep
<1>4. /\ pc' = "import" => pc = "import" /\ AddKeyWrite
      /\ pc' = "genesis" => pc = "genesis"
      /\ pc' = "recv" /\ pc # "genesis" /\ block' = 0 =>
           pc = "recv" /\ block = 0 /\ UNCHANGED <<tree, key2idx>>
  BY ProcessorMoves DEF ProcessorStep
<1>5. ImportInv'
  <2>1. CASE pc' = "import"
    BY <1>4, <2>1, ImportAddsKey DEF ProcessorStep
  <2>2. CASE pc' # "import"
    BY <2>2 DEF ImportInv
  <2> QED BY <2>1, <2>2
<1>6. OverInv'
  BY <1>1, <1>2, <1>4 DEF OverInv, ImportIsOver, KnownKeys
<1>7. TransferTypeOK' /\ readable' \in Nat
  BY <1>1, <1>3 DEF TransferInv, TransferTypeOK, TreeInv, TypeInv
<1>8. Spoilt' \/ base' \notin {"none", "whole"} \/ StoreInv'
  <2>1. base \in {"none", "whole"} => pc # "import"
    BY <1>2 DEF ImportInv
  <2> QED BY <1>1, <1>3, <2>1 DEF TransferInv
<1> QED BY <1>3, <1>5, <1>6, <1>7, <1>8 DEF TransferInv

\* A session without a snapshot.
LEMMA OpenWithoutKeeps ==
  ASSUME TransferInv, OpenWithout
  PROVE  TransferInv'
<1>1. /\ UNCHANGED <<snapBatch, readable, keyChunks, treeChunks, base>> /\ importPc' = "off"
      /\ Open /\ pc' \in {"recv", "genesis"}
  BY DEF OpenWithout, Open
<1>2. TreeInv' /\ (~Spoilt' => ~Spoilt) /\ (StoreInv => StoreInv')
  BY <1>1, OpenKeeps DEF TransferInv
<1>3. ImportInv' /\ OverInv'
  BY <1>1 DEF ImportInv, OverInv, ImportIsOver
<1>4. TransferTypeOK' /\ readable' \in Nat
  BY <1>1, <1>2 DEF TransferInv, TransferTypeOK, TreeInv, TypeInv
<1> QED BY <1>1, <1>2, <1>3, <1>4 DEF TransferInv

\* Nothing happens.
LEMMA TransferStutters ==
  ASSUME TransferInv, UNCHANGED transferVars
  PROVE  TransferInv'
<1>1. /\ UNCHANGED <<importPc, snapBatch, readable, keyChunks, treeChunks, base>>
      /\ UNCHANGED allVars
  BY DEF transferVars, importVars
<1>2. /\ UNCHANGED <<key2idx, addPc, addKey, tree, versions, pc, block, pos>>
  BY <1>1 DEF allVars, keyVars, treeVars, procVars
<1>3. TreeInv' /\ (~Spoilt' => ~Spoilt) /\ (StoreInv => StoreInv')
  BY <1>1, TreeStutters DEF TransferInv
<1>4. KnownKeys' = KnownKeys
  BY <1>2 DEF KnownKeys
<1>5. ImportInv' /\ OverInv'
  BY <1>1, <1>2, <1>4
     DEF TransferInv, ImportInv, OverInv, ImportIsOver, KeysUpTo, LeavesUpTo
<1>6. TransferTypeOK' /\ readable' \in Nat
  BY <1>1, <1>3 DEF TransferInv, TransferTypeOK, TreeInv, TypeInv
<1> QED BY <1>1, <1>3, <1>5, <1>6 DEF TransferInv

\* Nothing is there before the first session.
LEMMA TransferInitInv == TransferInit => TransferInv
<1> SUFFICES ASSUME TransferInit PROVE TransferInv
  OBVIOUS
<1>1. /\ TreeInit /\ importPc = "off" /\ snapBatch = 0 /\ readable = 0
      /\ keyChunks = 0 /\ treeChunks = 0 /\ base = "none"
  BY DEF TransferInit
<1>2. TreeInv /\ StoreInv /\ pc = "closed"
  BY <1>1, TreeInitInv DEF TreeInit
<1>3. TransferTypeOK
  BY <1>1, <1>2 DEF TransferTypeOK, TreeInv, TypeInv
<1> QED BY <1>1, <1>2, <1>3 DEF TransferInv, ImportInv, OverInv, ImportIsOver

\* Every step keeps the invariant.
LEMMA TransferInvStep == TransferInv /\ [TransferNext]_transferVars => TransferInv'
<1> SUFFICES ASSUME TransferInv, [TransferNext]_transferVars PROVE TransferInv'
  OBVIOUS
<1>1. CASE ImportStep
  BY <1>1, ImportGenesisKeysKeeps, ImportGenesisKeeps, AddChunkKeysKeeps,
     SendChunkKeeps, ExtendChunkKeeps, EndImportKeeps DEF ImportStep
<1> QED BY <1>1, BeginImportKeeps, ProcessorStepKeeps, OpenWithoutKeeps,
           TransferStutters DEF TransferNext

-----------------------------------------------------------------------------
(***************************************************************************)
(* What holds in every session.                                            *)
(***************************************************************************)
\* The inductive invariant.
THEOREM TransferInvHolds == TransferSpec => []TransferInv
BY TransferInitInv, TransferInvStep, PTL DEF TransferSpec

\* The types of sessions with and without an import.
THEOREM TransferTypesOK == TransferSpec => []TransferTypeOK
<1>1. TransferInv => TransferTypeOK
  BY DEF TransferInv
<1> QED BY <1>1, TransferInvHolds, PTL

\* An import that read every chunk of a snapshot leaves the state of its batch
\* in the tree, and every key of it under its index.
THEOREM ImportRestores == TransferSpec => []ImportRestoresTheSnapshot
<1>1. TransferInv => ImportRestoresTheSnapshot
  <2> SUFFICES ASSUME TransferInv, ImportIsOver, base = "whole", "last" \notin torn,
                      gapped \in {0, sessions}
               PROVE  /\ tree = ChainState[snapBatch]
                      /\ \A k \in DOMAIN tree :
                           HasKey(tree[k].index - 1) /\ KeyAt(tree[k].index) = k
    BY DEF ImportRestoresTheSnapshot
  <2>1. /\ tree = ChainState[snapBatch] /\ DOMAIN ChainState[snapBatch] \subseteq KnownKeys
        /\ snapBatch \in 0..NumBatches
    <3>1. /\ tree = ChainState[snapBatch] /\ DOMAIN ChainState[snapBatch] \subseteq KnownKeys
          /\ snapBatch \in Snapshots
      BY DEF TransferInv, OverInv
    <3>2. snapBatch \in Batches
      BY <3>1, TransferAssumption
    <3> QED BY <3>1, <3>2 DEF Batches
  <2>2. Ordered
    <3>1. InOrder
      BY DEF InOrder, ImportIsOver
    <3> QED BY <3>1 DEF TransferInv, TreeInv, OrderInv
  <2>3. KnownAsOf(snapBatch)
    BY <2>1, <2>2, OrderedKnown
  <2>4. ASSUME NEW k \in DOMAIN tree
        PROVE  HasKey(tree[k].index - 1) /\ KeyAt(tree[k].index) = k
    <3>1. k \in KnownKeys /\ key2idx[k] + 1 = tree[k].index
      BY <2>1, <2>3 DEF KnownAsOf
    <3>2. HasKey(key2idx[k]) /\ idx2key[key2idx[k]] = k /\ key2idx[k] \in Nat
      BY <3>1 DEF TransferInv, TreeInv, FoundInv, KeyInv, KeyTypeOK, KnownKeys
    <3>3. tree[k].index - 1 = key2idx[k]
      BY <3>1, <3>2
    <3> QED BY <3>2, <3>3 DEF KeyAt
  <2> QED BY <2>1, <2>4
<1> QED BY <1>1, TransferInvHolds, PTL

\* An honest batch is rejected, and the processor panics, for known reasons only.
THEOREM OnlyKnownHarm == TransferSpec => []OnlyKnownHarmHurts
<1>1. TransferInv => OnlyKnownHarmHurts
  <2> SUFFICES ASSUME TransferInv, pc \in {"rejected", "panicked"}, torn = {}, gapped = 0,
                      base \notin {"partial", "lost", "overlaid"}
               PROVE  block \in BadBatches
    BY DEF OnlyKnownHarmHurts
  <2>1. base \in {"none", "whole"} /\ ~Spoilt
    BY DEF TransferInv, TransferTypeOK, Spoilt
  <2>2. StoreInv
    BY <2>1 DEF TransferInv
  <2> QED BY <2>2 DEF StoreInv
<1> QED BY <1>1, TransferInvHolds, PTL

\* A batch that is rejected leaves the leaves of the last accepted state.
THEOREM RejectionKeeps == TransferSpec => []RejectionKeepsTheState
<1>1. TransferInv => RejectionKeepsTheState
  <2> SUFFICES ASSUME TransferInv, pc = "rejected", torn = {}, base \in {"none", "whole"},
                      gapped = 0 \/ (gapped = sessions /\ kills = 0)
               PROVE  \A k \in DOMAIN ChainState[latestL1Batch] :
                        k \in DOMAIN tree /\ tree[k] = ChainState[latestL1Batch][k]
    BY DEF RejectionKeepsTheState
  <2>1. StoreInv /\ dirExists
    BY DEF TransferInv, TreeInv, PlaceInv, Spoilt
  <2> QED BY <2>1 DEF StoreInv, LeavesOf
<1> QED BY <1>1, TransferInvHolds, PTL

-----------------------------------------------------------------------------
(***************************************************************************)
(* What the key index promises, in the whole tool.                         *)
(***************************************************************************)
\* Every step is one of the index, or leaves it alone.
LEMMA TransferStepsAreDbSteps ==
  TransferInv /\ [TransferNext]_transferVars => [DbNext]_keyVars
<1> SUFFICES ASSUME TransferInv, [TransferNext]_transferVars PROVE [DbNext]_keyVars
  OBVIOUS
<1>1. pos \in Nat \ {0} /\ PlaceInv
  BY DEF TransferInv, TreeInv, TypeInv
<1>2. CASE AddGenesisKeys \/ ImportGenesisKeys
  BY <1>1, <1>2, GenesisKeys, AddKeysStep DEF AddGenesisKeys, ImportGenesisKeys
<1>3. CASE AddInitialKeys
  <2>1. KeyList(InitialChanges(block))
    BY <1>1, <1>3, InitialKeys DEF AddInitialKeys, PlaceInv
  <2> QED BY <1>1, <1>3, <2>1, AddKeysStep DEF AddInitialKeys
<1>4. CASE AddChunkKeys
  <2>1. pc = "import" /\ keyChunks \in 0..(readable - 1)
    BY <1>4, InImport DEF AddChunkKeys
  <2>2. KeyList(Chunk(snapBatch, keyChunks + 1))
    BY <2>1, ReadableChunk DEF IsChunk
  <2> QED BY <1>1, <1>4, <2>2, AddKeysStep DEF AddChunkKeys
<1>5. CASE AddKeyWrite
  BY <1>5 DEF AddKeyWrite, DbNext
<1>6. CASE KillProcessor
  BY <1>6 DEF KillProcessor, DbNext, Kill
<1>7. CASE SkipBlock \/ ReceiveBlock \/ InsertPanics \/ ExtendTree \/ RollBack \/ PersistBatch
  BY <1>7 DEF SkipBlock, ReceiveBlock, InsertPanics, ExtendTree, RollBack, PersistBatch
<1>8. CASE OpenWithout \/ BeginImport \/ ImportGenesis \/ SendChunk \/ ExtendChunk \/ EndImport
  BY <1>8 DEF OpenWithout, Open, BeginImport, ImportGenesis, SendChunk, ExtendChunk, EndImport
<1>9. CASE ExtendGenesis \/ Close \/ UNCHANGED transferVars
  BY <1>9 DEF ExtendGenesis, Close, transferVars, allVars
<1> QED BY <1>2, <1>3, <1>4, <1>5, <1>6, <1>7, <1>8, <1>9
        DEF TransferNext, ImportStep, ProcessorStep, TreeStep

\* Sessions of the tool are histories of the key index.
THEOREM TransferImplementsDb == TransferSpec => DbSpec
<1>1. TransferInit => DbInit
  BY DEF TransferInit, TreeInit, DbInit
<1> QED BY <1>1, TransferStepsAreDbSteps, TransferInvHolds, PTL DEF TransferSpec, DbSpec

\* Each index below the counter has a key that add_key knows under that index.
THEOREM TransferIndicesPointBack == TransferSpec => []IndexPointsBack
BY TransferImplementsDb, IndicesPointBack, PTL

\* No key ever takes the index of another that was given before.
THEOREM TransferIndicesAreForEver == TransferSpec => IndexIsForEver
BY TransferImplementsDb, IndicesAreForEver, PTL

\* As long as the tool is not killed no key is lost.
THEOREM TransferKeysAreFound == TransferSpec => []NoKeyIsLost
BY TransferImplementsDb, UnkilledKeysAreFound, PTL

=============================================================================
