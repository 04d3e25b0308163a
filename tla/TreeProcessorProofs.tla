------------------------- MODULE TreeProcessorProofs -------------------------
(***************************************************************************)
(* What the tree processor keeps in its two stores, for every chain and    *)
(* whatever interrupts it: first the key index by itself, then the index   *)
(* and the tree together, action by action.  The programs that run the     *)
(* processor, FileImport and SnapshotTransfer, are proved from this.       *)
(***************************************************************************)
EXTENDS TreeProcessor, L2LedgerProofs

(***************************************************************************)
(* The key index: indices point back and are never given twice, for every  *)
(* set of keys and any number of kills.  The two maps are inverse to each  *)
(* other as long as the process is not killed.                             *)
(***************************************************************************)
\* How far add_key has come with its key.
AddInv ==
  /\ addPc \in {"idx2key", "key2idx"} => addKey \in Keys /\ addKey \notin KnownKeys
  /\ addPc \in {"key2idx", "last"} =>
       HasKey(lastIndex) /\ idx2key[lastIndex] = addKey
  /\ addPc = "last" => addKey \in KnownKeys /\ key2idx[addKey] = lastIndex

\* Without a kill only the key that is being added may have the next index.
UnkilledInv ==
  kills = 0 =>
    \A k \in KnownKeys :
      /\ HasKey(key2idx[k]) /\ idx2key[key2idx[k]] = k
      /\ key2idx[k] < lastIndex \/ addPc = "last"

KeyInv == KeyTypeOK /\ IndexPointsBack /\ AddInv /\ UnkilledInv

-----------------------------------------------------------------------------
\* A new database satisfies the invariant.
LEMMA KeyInitInv == DbInit => KeyInv
<1> SUFFICES ASSUME DbInit PROVE KeyInv
  OBVIOUS
<1>1. /\ DOMAIN idx2key = {} /\ DOMAIN key2idx = {} /\ lastIndex = 0
      /\ addPc = "idle" /\ addKey = NoKey /\ kills = 0
  BY DEF DbInit, KeyInit
<1>2. KeyTypeOK /\ IndexPointsBack
  BY <1>1 DEF KeyTypeOK, IndexPointsBack
<1>3. AddInv /\ UnkilledInv
  BY <1>1 DEF AddInv, UnkilledInv, KnownKeys
<1> QED BY <1>2, <1>3 DEF KeyInv

\* Every write and every kill keeps the invariant.
LEMMA KeyInvStep == KeyInv /\ [DbNext]_keyVars => KeyInv'
<1> SUFFICES ASSUME KeyInv, [DbNext]_keyVars PROVE KeyInv'
  OBVIOUS
<1>0. KeyTypeOK /\ IndexPointsBack /\ AddInv /\ UnkilledInv /\ lastIndex \in Nat
  BY DEF KeyInv, KeyTypeOK
<1>1. CASE AddAny
  <2>1. PICK k \in Keys : BeginAdd(k)
    BY <1>1 DEF AddAny
  <2>2. /\ addPc = "idle" /\ addPc' = "idx2key" /\ addKey' = k
        /\ k \notin DOMAIN key2idx /\ idx2key' = idx2key /\ key2idx' = key2idx
        /\ lastIndex' = lastIndex /\ kills' = kills
    BY <1>1, <2>1 DEF AddAny, BeginAdd, dbVars, KnownKeys
  <2>3. KeyTypeOK' /\ IndexPointsBack'
    BY <1>0, <2>2 DEF KeyTypeOK, IndexPointsBack, KnownKeys, HasKey
  <2>4. AddInv'
    BY <2>2 DEF AddInv, KnownKeys
  <2>5. UnkilledInv'
    BY <1>0, <2>2 DEF UnkilledInv, KnownKeys, HasKey
  <2> QED BY <2>3, <2>4, <2>5 DEF KeyInv
<1>2. CASE PutIndexToKey /\ UNCHANGED kills
  <2> USE <1>0
  <2>1. /\ addPc = "idx2key" /\ addPc' = "key2idx" /\ key2idx' = key2idx
        /\ lastIndex' = lastIndex /\ addKey' = addKey /\ kills' = kills
        /\ addKey \in Keys /\ addKey \notin KnownKeys
    BY <1>2 DEF PutIndexToKey, AddInv
  <2>2. /\ DOMAIN idx2key' = DOMAIN idx2key \cup {lastIndex}
        /\ idx2key'[lastIndex] = addKey
        /\ \A i \in DOMAIN idx2key : i # lastIndex => idx2key'[i] = idx2key[i]
    BY <1>2 DEF PutIndexToKey, Put
  <2>3. KeyTypeOK'
    BY <2>1, <2>2 DEF KeyTypeOK
  <2>4. IndexPointsBack'
    BY <2>1, <2>2 DEF IndexPointsBack, HasKey, KnownKeys
  <2>5. AddInv'
    BY <2>1, <2>2 DEF AddInv, HasKey, KnownKeys
  <2>6. UnkilledInv'
    BY <2>1, <2>2 DEF UnkilledInv, HasKey, KnownKeys, KeyTypeOK
  <2> QED BY <2>3, <2>4, <2>5, <2>6 DEF KeyInv
<1>3. CASE PutKeyToIndex /\ UNCHANGED kills
  <2> USE <1>0
  <2>1. /\ addPc = "key2idx" /\ addPc' = "last" /\ idx2key' = idx2key
        /\ lastIndex' = lastIndex /\ addKey' = addKey /\ kills' = kills
        /\ addKey \in Keys /\ addKey \notin DOMAIN key2idx
        /\ lastIndex \in DOMAIN idx2key /\ idx2key[lastIndex] = addKey
    BY <1>3 DEF PutKeyToIndex, AddInv, KnownKeys, HasKey
  <2>2. /\ DOMAIN key2idx' = DOMAIN key2idx \cup {addKey}
        /\ key2idx'[addKey] = lastIndex
        /\ \A k \in DOMAIN key2idx : k # addKey => key2idx'[k] = key2idx[k]
    BY <1>3 DEF PutKeyToIndex, Put
  <2>3. KeyTypeOK'
    BY <2>1, <2>2 DEF KeyTypeOK
  <2>4. IndexPointsBack'
    BY <2>1, <2>2 DEF IndexPointsBack, HasKey, KnownKeys
  <2>5. AddInv'
    BY <2>1, <2>2 DEF AddInv, HasKey, KnownKeys
  <2>6. UnkilledInv'
    BY <2>1, <2>2 DEF UnkilledInv, HasKey, KnownKeys
  <2> QED BY <2>3, <2>4, <2>5, <2>6 DEF KeyInv
<1>4. CASE PutLastIndex /\ UNCHANGED kills
  <2> USE <1>0
  <2>1. /\ addPc = "last" /\ addPc' = "idle" /\ idx2key' = idx2key
        /\ key2idx' = key2idx /\ lastIndex' = lastIndex + 1 /\ addKey' = NoKey
        /\ kills' = kills
        /\ addKey \in DOMAIN key2idx /\ key2idx[addKey] = lastIndex
        /\ lastIndex \in DOMAIN idx2key /\ idx2key[lastIndex] = addKey
    BY <1>4 DEF PutLastIndex, AddInv, KnownKeys, HasKey
  <2>2. KeyTypeOK'
    BY <2>1 DEF KeyTypeOK
  <2>3. IndexPointsBack'
    BY <2>1 DEF IndexPointsBack, HasKey, KnownKeys
  <2>4. AddInv'
    BY <2>1 DEF AddInv
  <2>5. UnkilledInv'
    BY <2>1 DEF UnkilledInv, HasKey, KnownKeys, KeyTypeOK
  <2> QED BY <2>2, <2>3, <2>4, <2>5 DEF KeyInv
<1>5. CASE Kill
  <2>1. /\ kills' = kills + 1 /\ addPc' = "idle" /\ addKey' = NoKey
        /\ idx2key' = idx2key /\ key2idx' = key2idx /\ lastIndex' = lastIndex
    BY <1>5 DEF Kill, KillAdd, dbVars
  <2>2. KeyTypeOK' /\ kills' # 0
    BY <1>0, <2>1 DEF KeyTypeOK
  <2>3. IndexPointsBack'
    BY <1>0, <2>1 DEF IndexPointsBack, HasKey, KnownKeys
  <2>4. AddInv' /\ UnkilledInv'
    BY <2>1, <2>2 DEF AddInv, UnkilledInv
  <2> QED BY <2>2, <2>3, <2>4 DEF KeyInv
<1>6. CASE UNCHANGED keyVars
  <2> USE <1>0, <1>6 DEF keyVars
  <2>1. KeyTypeOK' /\ IndexPointsBack'
    BY DEF KeyTypeOK, IndexPointsBack, HasKey, KnownKeys
  <2>2. AddInv' /\ UnkilledInv'
    BY DEF AddInv, UnkilledInv, HasKey, KnownKeys
  <2> QED BY <2>1, <2>2 DEF KeyInv
<1> QED
  BY <1>1, <1>2, <1>3, <1>4, <1>5, <1>6 DEF DbNext, AddStep

\* The inductive invariant of the key index.
THEOREM KeyInvHolds == DbSpec => []KeyInv
BY KeyInitInv, KeyInvStep, PTL DEF DbSpec

\* Wherever add_key is cut short, each index below the counter has a key that
\* add_key knows under that index.
THEOREM IndicesPointBack == DbSpec => []IndexPointsBack
<1>1. KeyInv => IndexPointsBack
  BY DEF KeyInv
<1> QED BY <1>1, KeyInvHolds, PTL

\* No key ever takes the index of another that was given before.
THEOREM IndicesAreForEver == DbSpec => IndexIsForEver
<1>1. KeyInv /\ [DbNext]_keyVars =>
        [\A i \in 0..(lastIndex - 1) : HasKey(i)' /\ idx2key'[i] = idx2key[i]]_keyVars
  <2> SUFFICES ASSUME KeyInv, DbNext, NEW i \in 0..(lastIndex - 1)
               PROVE  HasKey(i)' /\ idx2key'[i] = idx2key[i]
    BY DEF keyVars
  <2>1. i \in DOMAIN idx2key /\ i # lastIndex
    BY DEF KeyInv, IndexPointsBack, HasKey, KeyTypeOK
  <2>2. CASE PutIndexToKey
    BY <2>1, <2>2 DEF PutIndexToKey, HasKey, Put
  <2>3. CASE ~PutIndexToKey
    <3>1. idx2key' = idx2key
      BY <2>3
         DEF DbNext, AddAny, BeginAdd, AddStep, PutKeyToIndex, PutLastIndex,
             Kill, KillAdd, dbVars
    <3> QED BY <2>1, <3>1 DEF HasKey
  <2> QED BY <2>2, <2>3
<1> QED BY <1>1, KeyInvHolds, PTL DEF DbSpec, IndexIsForEver

\* As long as the process is not killed no key is lost: the two maps are
\* inverse to each other between two calls of add_key.
THEOREM UnkilledKeysAreFound == DbSpec => []NoKeyIsLost
<1>1. KeyInv => NoKeyIsLost
  BY DEF KeyInv, UnkilledInv, NoKeyIsLost
<1> QED BY <1>1, KeyInvHolds, PTL

-----------------------------------------------------------------------------
(***************************************************************************)
(* The invariant of the tree processor.                                    *)
(***************************************************************************)
\* Types, with those of what TreeTypeOK leaves out.
TypeInv ==
  /\ TreeTypeOK
  /\ tree = [k \in DOMAIN tree |-> [index |-> tree[k].index, value |-> tree[k].value]]
  /\ \A e \in known : e.key \in Keys /\ e.index \in Nat /\ e.value \in Words
  /\ pos \in Nat \ {0}
  /\ sessions \in Nat /\ gapped \in 0..sessions
  /\ kills = 0 => "last" \notin torn

\* Where the processor is, and what it has done up to there.
PlaceInv ==
  /\ pc # "closed" => sessions > 0
  /\ addPc # "idle" => pc \in {"genesis", "insert", "import"}
  /\ pc \in {"insert", "persist", "rollback"} =>
       block \in Batches /\ latestL1Batch < block /\ offer = block + 1
  /\ gapped = 0 =>
       /\ pc \in {"genesis", "recv"} => offer <= latestL1Batch + 1
       /\ pc \in {"insert", "persist", "rollback"} => block = latestL1Batch + 1
       /\ pc = "insert" /\ versions > 0 => DOMAIN ChainState[block - 1] \subseteq KnownKeys
  /\ ~dirExists =>
       pc = "closed" /\ DOMAIN tree = {} /\ latestL1Batch = 0
  /\ pc = "genesis" =>
       /\ dirExists /\ block = 0 /\ DOMAIN tree = {} /\ latestL1Batch = 0
       /\ \A j \in 1..Len(Genesis) : j < pos => Genesis[j].key \in KnownKeys
       /\ addPc # "idle" => addKey \in KeysOf(Genesis)
  /\ pc = "insert" =>
       /\ \A j \in 1..Len(InitialChanges(block)) :
            j < pos => InitialChanges(block)[j].key \in KnownKeys
       /\ addPc # "idle" => versions > 0 /\ addKey \in KeysOf(InitialChanges(block))
  /\ pc = "rollback" => \A e \in known : e.key \in DOMAIN tree

\* Unless a kill came between the last two writes of add_key, every key that it
\* knows is found under its index.
FoundInv ==
  "last" \notin torn =>
    \A k \in KnownKeys :
      /\ HasKey(key2idx[k]) /\ idx2key[key2idx[k]] = k
      /\ key2idx[k] < lastIndex \/ addPc = "last"

\* The index that the chain has for a key.
ChainKeys     == DOMAIN ChainState[NumBatches]
ChainIndex(k) == ChainState[NumBatches][k].index

\* The index of each key is that of the chain, counted from 0.
Ordered ==
  /\ \A k \in KnownKeys : k \in ChainKeys /\ ChainIndex(k) = key2idx[k] + 1
  /\ addPc # "idle" => addKey \in ChainKeys /\ ChainIndex(addKey) = lastIndex + 1

\* No batch was left out, or the session that left one out has not yet given an
\* index since.
InOrder ==
  \/ gapped = 0
  \/ /\ gapped = sessions
     /\ \/ block = 0
        \/ /\ kills = 0
           /\ \/ pc \in {"recv", "persist"}
              \/ pc = "insert" /\ DOMAIN ChainState[block - 1] \subseteq KnownKeys

OrderInv == "last" \notin torn /\ InOrder => Ordered

\* Without a kill, the index has no entry that add_key has not finished, and the
\* tree no key that add_key does not know.
UnkilledStores ==
  kills = 0 =>
    /\ addPc \in {"idle", "idx2key"} => ~HasKey(lastIndex)
    /\ DOMAIN tree \subseteq KnownKeys

TreeInv == KeyInv /\ TypeInv /\ PlaceInv /\ FoundInv /\ OrderInv /\ UnkilledStores

\* The keys of batch b are known under their indices.
KnownAsOf(b) ==
  \A k \in DOMAIN ChainState[b] : k \in KnownKeys /\ key2idx[k] + 1 = ChainState[b][k].index

\* The leaves of batch b are in the tree.
LeavesOf(b) == \A k \in DOMAIN ChainState[b] : k \in DOMAIN tree /\ tree[k] = ChainState[b][k]

\* What a roll back will make of the leaf under k is that of batch b.
RollsBackTo(b, k) ==
  /\ k \in DOMAIN tree
  /\ \A e \in known : e.key = k => Leaf(e.index, e.value) = ChainState[b][k]
  /\ (\A e \in known : e.key # k) => tree[k] = ChainState[b][k]

\* What the two stores hold when neither a kill nor a gap has spoilt them.
StoreInv ==
  /\ dirExists /\ pc \notin {"genesis", "import"} =>
       versions > 0 /\ KnownAsOf(latestL1Batch)
  /\ dirExists /\ pc \in {"closed", "recv", "insert", "rejected", "panicked"} =>
       /\ LeavesOf(latestL1Batch)
       /\ gapped = 0 => tree = ChainState[latestL1Batch] \/ latestL1Batch + 1 \in BadBatches
  /\ pc = "persist" => tree = ChainState[block] /\ KnownAsOf(block)
  /\ pc = "rollback" => \A k \in DOMAIN ChainState[latestL1Batch] : RollsBackTo(latestL1Batch, k)
  /\ gapped = 0 =>
       /\ pc \in {"rollback", "rejected"} => block \in BadBatches
       /\ pc # "panicked"

\* A kill came between two writes that belong together, or a batch was left out
\* and the keys it would have added may be missing.
Spoilt == torn # {} \/ ~(gapped = 0 \/ (gapped = sessions /\ kills = 0))

-----------------------------------------------------------------------------
(***************************************************************************)
(* The lists of keys that are added.                                       *)
(***************************************************************************)
KeyList(s) == Len(s) \in Nat /\ DOMAIN s = 1..Len(s) /\ \A i \in 1..Len(s) : s[i].key \in Keys

\* The genesis state is a list of keys.
LEMMA GenesisKeys == KeyList(Genesis) /\ \A i \in 1..Len(Genesis) : Genesis[i].value \in Words
<1>1. Genesis \in Seq([key : KeysOf(Genesis), value : Words]) /\ KeysOf(Genesis) \subseteq Keys
  BY L2Assumption, TreeAssumption
<1>2. /\ Len(Genesis) \in Nat /\ DOMAIN Genesis = 1..Len(Genesis)
      /\ \A i \in 1..Len(Genesis) : Genesis[i] \in [key : KeysOf(Genesis), value : Words]
  BY <1>1, Elements, Zenon
<1> QED BY <1>1, <1>2 DEF KeyList

\* So are the initial writes of a batch.
LEMMA InitialKeys ==
  ASSUME NEW b \in Batches
  PROVE  /\ KeyList(InitialChanges(b))
         /\ \A i \in 1..Len(InitialChanges(b)) :
              InitialChanges(b)[i].op \in Ops /\ InitialChanges(b)[i].value \in Words
<1> DEFINE s == InitialChanges(b)
           W == [key : KeysOf(Diffs[b]), op : Ops, value : Words]
<1>1. s \in Seq(W)
  BY InitialFacts, Zenon
<1>2. Len(s) \in Nat /\ DOMAIN s = 1..Len(s) /\ \A i \in 1..Len(s) : s[i] \in W
  BY <1>1, Elements, Zenon
<1>3. KeysOf(Diffs[b]) \subseteq Keys
  BY TreeAssumption
<1> HIDE DEF s
<1>4. KeyList(s) /\ \A i \in 1..Len(s) : s[i].op \in Ops /\ s[i].value \in Words
  BY <1>2, <1>3 DEF KeyList
<1> QED BY <1>4 DEF s

\* Every key of the chain is a storage key.
LEMMA StateKeys == ASSUME NEW b \in 0..NumBatches PROVE DOMAIN ChainState[b] \subseteq Keys
<1> DEFINE Good == {n \in Nat : n <= NumBatches => DOMAIN ChainState[n] \subseteq Keys}
<1>1. 0 \in Good
  BY ChainFacts, GenesisFacts, TreeAssumption
<1>2. ASSUME NEW n \in Nat, n \in Good PROVE n + 1 \in Good
  <2> SUFFICES ASSUME n + 1 <= NumBatches PROVE DOMAIN ChainState[n + 1] \subseteq Keys
    OBVIOUS
  <2>1. n + 1 \in Batches /\ (n + 1) - 1 = n /\ DOMAIN ChainState[n] \subseteq Keys
    BY <1>2, L2Assumption DEF Batches
  <2> DEFINE s == InitialChanges(n + 1)
  <2>2. DOMAIN ChainState[n + 1] = DOMAIN ChainState[n] \cup {s[j].key : j \in 1..Len(s)}
    BY <2>1, InitialFacts
  <2>3. \A j \in 1..Len(s) : s[j].key \in Keys
    BY <2>1, InitialKeys DEF KeyList
  <2> QED BY <2>1, <2>2, <2>3
<1>3. b \in Good
  <2> HIDE DEF Good
  <2> QED BY <1>1, <1>2, NatSet, L2Assumption
<1> QED BY <1>3

\* One step of a loop over a list of keys is one of the index, or leaves it alone.
LEMMA AddKeysStep ==
  ASSUME NEW keys, KeyList(keys), pos \in Nat \ {0}, AddKeys(keys)
  PROVE  [DbNext]_keyVars /\ pos' \in Nat \ {0}
<1>1. pos \in 1..Len(keys)
  BY DEF AddKeys, KeyList
<1>2. CASE /\ keys[pos].key \in KnownKeys
           /\ pos' = pos + 1
           /\ UNCHANGED <<dbVars, addPc, addKey>>
  BY <1>2 DEF AddKeys, keyVars, dbVars
<1>3. CASE BeginAdd(keys[pos].key) /\ UNCHANGED pos
  <2>1. keys[pos].key \in Keys
    BY <1>1 DEF KeyList
  <2> QED BY <1>3, <2>1 DEF AddKeys, DbNext, AddAny
<1> QED BY <1>2, <1>3 DEF AddKeys

-----------------------------------------------------------------------------
(***************************************************************************)
(* The indices of the chain.                                               *)
(***************************************************************************)
\* A key has the same index in every state that has it.
LEMMA IndexOf ==
  ASSUME NEW b \in 0..NumBatches
  PROVE  /\ \A k \in DOMAIN ChainState[b] :
              k \in ChainKeys /\ ChainIndex(k) = ChainState[b][k].index
         /\ \A k \in ChainKeys : ChainIndex(k) <= NumKeys(b) => k \in DOMAIN ChainState[b]
<1>1. NumBatches \in b..NumBatches
  BY L2Assumption
<1> QED BY <1>1, ChainGrows DEF ChainKeys, ChainIndex

\* The indices of the chain are 1, 2, ... and each is that of one key.
LEMMA IndicesCount ==
  /\ NumKeys(NumBatches) \in Nat
  /\ \A k \in ChainKeys : ChainIndex(k) \in 1..NumKeys(NumBatches)
  /\ \A k, l \in ChainKeys : ChainIndex(k) = ChainIndex(l) => k = l
  /\ \A i \in 1..NumKeys(NumBatches) : \E k \in ChainKeys : ChainIndex(k) = i
<1>1. NumBatches \in 0..NumBatches
  BY L2Assumption
<1> QED BY <1>1, StateFacts DEF ChainKeys, ChainIndex

\* A key of the chain whose predecessors are all known gets the index it has on
\* the chain.
LEMMA NextIndex ==
  ASSUME KeyInv, FoundInv, "last" \notin torn, Ordered, addPc = "idle",
         NEW w \in ChainKeys, w \notin KnownKeys,
         \A k \in ChainKeys : ChainIndex(k) < ChainIndex(w) => k \in KnownKeys
  PROVE  ChainIndex(w) = lastIndex + 1
<1>1. lastIndex \in Nat /\ ChainIndex(w) \in 1..NumKeys(NumBatches) /\ NumKeys(NumBatches) \in Nat
  BY IndicesCount DEF KeyInv, KeyTypeOK
<1>2. ASSUME ChainIndex(w) <= lastIndex PROVE FALSE
  <2> DEFINE i == ChainIndex(w) - 1
             k == idx2key[i]
  <2>1. i \in 0..(lastIndex - 1)
    BY <1>1, <1>2
  <2>2. k \in KnownKeys /\ key2idx[k] = i
    BY <2>1 DEF KeyInv, IndexPointsBack
  <2>3. k \in ChainKeys /\ ChainIndex(k) = i + 1
    BY <2>2 DEF Ordered
  <2>4. k = w
    BY <1>1, <2>3, IndicesCount
  <2> QED BY <2>2, <2>4
<1>3. ASSUME ChainIndex(w) > lastIndex + 1 PROVE FALSE
  <2>1. lastIndex + 1 \in 1..NumKeys(NumBatches)
    BY <1>1, <1>3
  <2>2. PICK k \in ChainKeys : ChainIndex(k) = lastIndex + 1
    BY <2>1, IndicesCount
  <2>3. k \in KnownKeys
    BY <1>1, <1>3, <2>2
  <2>4. key2idx[k] < lastIndex /\ ChainIndex(k) = key2idx[k] + 1
    BY <2>3 DEF FoundInv, Ordered
  <2>5. key2idx[k] \in Nat
    BY <2>3 DEF KeyInv, KeyTypeOK, KnownKeys
  <2> QED BY <1>1, <2>2, <2>4, <2>5
<1> QED BY <1>1, <1>2, <1>3

-----------------------------------------------------------------------------
(***************************************************************************)
(* Steps that leave the stores, or the key index, alone.                   *)
(***************************************************************************)
\* The key index is the same.
LEMMA SameIndex ==
  ASSUME TreeInv, UNCHANGED <<idx2key, key2idx, lastIndex, addPc, addKey, kills>>
  PROVE  /\ KeyInv'
         /\ ("last" \notin torn' => "last" \notin torn) => FoundInv'
         /\ ("last" \notin torn' => "last" \notin torn) /\ (InOrder' => InOrder) => OrderInv'
         /\ DOMAIN tree' \subseteq DOMAIN tree \cup KnownKeys => UnkilledStores'
<1>1. KnownKeys' = KnownKeys /\ \A i : HasKey(i)' <=> HasKey(i)
  BY DEF KnownKeys, HasKey
<1>2. KeyInv /\ FoundInv /\ OrderInv /\ UnkilledStores
  BY DEF TreeInv
<1>3. KeyInv'
  <2>1. KeyTypeOK'
    BY <1>2 DEF KeyInv, KeyTypeOK
  <2>2. IndexPointsBack'
    BY <1>1, <1>2 DEF KeyInv, IndexPointsBack
  <2>3. AddInv'
    BY <1>1, <1>2 DEF KeyInv, AddInv
  <2>4. UnkilledInv'
    BY <1>1, <1>2 DEF KeyInv, UnkilledInv
  <2> QED BY <2>1, <2>2, <2>3, <2>4 DEF KeyInv
<1>4. ("last" \notin torn' => "last" \notin torn) => FoundInv'
  BY <1>1, <1>2 DEF FoundInv
<1>5. Ordered => Ordered'
  BY <1>1 DEF Ordered
<1>6. ("last" \notin torn' => "last" \notin torn) /\ (InOrder' => InOrder) => OrderInv'
  BY <1>2, <1>5 DEF OrderInv
<1>7. DOMAIN tree' \subseteq DOMAIN tree \cup KnownKeys => UnkilledStores'
  BY <1>1, <1>2 DEF UnkilledStores
<1> QED BY <1>3, <1>4, <1>6, <1>7

\* The keys of the index stay what they are.
LEMMA SameKnown ==
  ASSUME UNCHANGED key2idx, NEW b
  PROVE  KnownAsOf(b)' <=> KnownAsOf(b)
BY DEF KnownAsOf, KnownKeys

-----------------------------------------------------------------------------
(***************************************************************************)
(* add_key, from whichever loop it is called.                              *)
(***************************************************************************)
\* A step of the loop: the next key is skipped, or its three writes begin.  On
\* the chain nothing is missing before the key.
LEMMA AddKeysKeeps ==
  ASSUME TreeInv, NEW keys, KeyList(keys), AddKeys(keys),
         "last" \notin torn /\ InOrder /\ keys[pos].key \notin KnownKeys =>
           /\ keys[pos].key \in ChainKeys
           /\ \A k \in ChainKeys : ChainIndex(k) < ChainIndex(keys[pos].key) => k \in KnownKeys
  PROVE  KeyInv' /\ TypeInv' /\ FoundInv' /\ OrderInv' /\ UnkilledStores'
<1>1. /\ UNCHANGED <<idx2key, key2idx, lastIndex, kills, dirExists, tree, versions>>
      /\ UNCHANGED <<latestL1Batch, pc, block, known, offer, sessions, torn, gapped>>
      /\ addPc = "idle"
  BY DEF AddKeys, BeginAdd, dbVars, treeVars, history
<1>2. KeyInv /\ TypeInv /\ FoundInv /\ OrderInv /\ UnkilledStores
  BY DEF TreeInv
<1>3. KnownKeys' = KnownKeys /\ \A i : HasKey(i)' <=> HasKey(i)
  BY <1>1 DEF KnownKeys, HasKey
<1>4. [DbNext]_keyVars /\ pos' \in Nat \ {0}
  <2>1. pos \in Nat \ {0}
    BY <1>2 DEF TypeInv
  <2> QED BY <2>1, AddKeysStep
<1>5. KeyInv'
  BY <1>2, <1>4, KeyInvStep
<1>6. TypeInv'
  <2>1. TreeTypeOK'
    BY <1>1, <1>2, <1>4, <1>5 DEF TypeInv, TreeTypeOK, KeyInv
  <2> QED BY <1>1, <1>2, <1>4, <2>1 DEF TypeInv
<1>7. FoundInv'
  BY <1>1, <1>2, <1>3 DEF FoundInv
<1>8. UnkilledStores'
  <2>1. addPc' \in {"idle", "idx2key"}
    BY <1>1 DEF AddKeys, BeginAdd
  <2> QED BY <1>1, <1>2, <1>3, <2>1 DEF UnkilledStores
<1>9. InOrder' <=> InOrder
  BY <1>1, <1>3 DEF InOrder
<1>10. ASSUME "last" \notin torn, InOrder PROVE Ordered'
  <2>1. Ordered
    BY <1>2, <1>10 DEF OrderInv
  <2>2. CASE UNCHANGED <<addPc, addKey>>
    BY <1>1, <1>3, <2>1, <2>2 DEF Ordered
  <2>3. CASE BeginAdd(keys[pos].key)
    <3> DEFINE w == keys[pos].key
    <3>1. w \notin KnownKeys /\ addKey' = w
      BY <2>3 DEF BeginAdd
    <3>2. w \in ChainKeys /\ \A k \in ChainKeys : ChainIndex(k) < ChainIndex(w) => k \in KnownKeys
      BY <1>10, <3>1
    <3> HIDE DEF w
    <3>3. ChainIndex(w) = lastIndex + 1
      BY <1>1, <1>2, <1>10, <2>1, <3>1, <3>2, NextIndex
    <3> QED BY <1>1, <1>3, <2>1, <3>1, <3>2, <3>3 DEF Ordered
  <2> QED BY <2>2, <2>3 DEF AddKeys
<1>11. OrderInv'
  BY <1>1, <1>9, <1>10 DEF OrderInv
<1> QED BY <1>5, <1>6, <1>7, <1>8, <1>11

\* What add_key knows it knows for ever.
LEMMA KnownStays ==
  ASSUME KeyInv, AddStep
  PROVE  /\ KnownKeys \subseteq KnownKeys'
         /\ \A k \in KnownKeys : key2idx'[k] = key2idx[k]
         /\ KnownKeys' \subseteq KnownKeys \cup {addKey}
<1>1. CASE PutKeyToIndex
  <2>1. addKey \notin KnownKeys
    BY <1>1 DEF PutKeyToIndex, KeyInv, AddInv
  <2>2. key2idx' = Put(key2idx, addKey, lastIndex)
    BY <1>1 DEF PutKeyToIndex
  <2> QED BY <2>1, <2>2 DEF KnownKeys, Put
<1>2. CASE UNCHANGED key2idx
  BY <1>2 DEF KnownKeys
<1> QED BY <1>1, <1>2 DEF AddStep, PutIndexToKey, PutLastIndex

\* So the keys of a batch stay known.
LEMMA KnownAsOfStays ==
  ASSUME KeyInv, AddStep, NEW b, KnownAsOf(b)
  PROVE  KnownAsOf(b)'
BY KnownStays DEF KnownAsOf

\* Each write of add_key keeps every key found, and ordered.
LEMMA AddStepKeepsFound ==
  ASSUME KeyInv, FoundInv, AddStep, UNCHANGED torn
  PROVE  FoundInv'
<1> SUFFICES ASSUME "last" \notin torn, NEW k \in KnownKeys'
             PROVE  /\ HasKey(key2idx[k])' /\ idx2key'[key2idx'[k]] = k
                    /\ key2idx'[k] < lastIndex' \/ addPc' = "last"
  BY DEF FoundInv
<1>0. lastIndex \in Nat
  BY DEF KeyInv, KeyTypeOK
<1>1. CASE PutIndexToKey
  <2>1. /\ DOMAIN idx2key' = DOMAIN idx2key \cup {lastIndex}
        /\ \A i \in DOMAIN idx2key : i # lastIndex => idx2key'[i] = idx2key[i]
        /\ UNCHANGED <<key2idx, lastIndex>> /\ addPc = "idx2key"
    BY <1>1 DEF PutIndexToKey, Put
  <2>2. k \in KnownKeys /\ key2idx[k] < lastIndex /\ key2idx[k] \in DOMAIN idx2key
        /\ idx2key[key2idx[k]] = k
    BY <2>1 DEF FoundInv, KnownKeys, HasKey
  <2>3. key2idx[k] # lastIndex
    BY <1>0, <2>2 DEF KeyInv, KeyTypeOK
  <2> QED BY <2>1, <2>2, <2>3 DEF HasKey
<1>2. CASE PutKeyToIndex
  <2>1. /\ DOMAIN key2idx' = DOMAIN key2idx \cup {addKey} /\ key2idx'[addKey] = lastIndex
        /\ \A l \in DOMAIN key2idx : l # addKey => key2idx'[l] = key2idx[l]
        /\ UNCHANGED <<idx2key, lastIndex>> /\ addPc' = "last"
        /\ lastIndex \in DOMAIN idx2key /\ idx2key[lastIndex] = addKey
    BY <1>2 DEF PutKeyToIndex, Put, KeyInv, AddInv, HasKey
  <2>2. CASE k = addKey
    BY <2>1, <2>2 DEF HasKey
  <2>3. CASE k # addKey
    BY <2>1, <2>3 DEF HasKey, FoundInv, KnownKeys
  <2> QED BY <2>2, <2>3
<1>3. CASE PutLastIndex
  <2>1. UNCHANGED <<idx2key, key2idx>> /\ lastIndex' = lastIndex + 1
    BY <1>3 DEF PutLastIndex
  <2>2. k \in KnownKeys /\ key2idx[k] \in 0..lastIndex
    BY <2>1 DEF KnownKeys, KeyInv, KeyTypeOK
  <2> QED BY <1>0, <2>1, <2>2 DEF FoundInv, HasKey
<1> QED BY <1>1, <1>2, <1>3 DEF AddStep

\* Each write of add_key keeps the keys in the order of the chain.
LEMMA AddStepKeepsOrdered ==
  ASSUME KeyInv, Ordered, AddStep
  PROVE  Ordered'
<1>1. CASE PutIndexToKey
  BY <1>1 DEF PutIndexToKey, Ordered, KnownKeys
<1>2. CASE PutKeyToIndex
  <2>1. /\ DOMAIN key2idx' = DOMAIN key2idx \cup {addKey} /\ key2idx'[addKey] = lastIndex
        /\ \A l \in DOMAIN key2idx : l # addKey => key2idx'[l] = key2idx[l]
        /\ UNCHANGED <<lastIndex, addKey>> /\ addPc = "key2idx"
    BY <1>2 DEF PutKeyToIndex, Put
  <2> QED BY <2>1 DEF Ordered, KnownKeys
<1>3. CASE PutLastIndex
  <2>1. UNCHANGED key2idx /\ addPc' = "idle"
    BY <1>3 DEF PutLastIndex
  <2> QED BY <2>1 DEF Ordered, KnownKeys
<1> QED BY <1>1, <1>2, <1>3 DEF AddStep

\* The three writes of add_key.
LEMMA AddKeyWriteKeeps ==
  ASSUME TreeInv, AddKeyWrite
  PROVE  TreeInv' /\ (StoreInv => StoreInv')
<1>1. /\ AddStep /\ UNCHANGED <<kills, dirExists, tree, versions, latestL1Batch>>
      /\ UNCHANGED <<pc, block, pos, known, offer, sessions, torn, gapped>>
  BY DEF AddKeyWrite, treeVars, procVars, history
<1>2. KeyInv /\ TypeInv /\ PlaceInv /\ FoundInv /\ OrderInv /\ UnkilledStores
  BY DEF TreeInv
<1>3. /\ KnownKeys \subseteq KnownKeys' /\ KnownKeys' \subseteq KnownKeys \cup {addKey}
      /\ addPc # "idle"
  BY <1>1, <1>2, KnownStays DEF AddStep, PutIndexToKey, PutKeyToIndex, PutLastIndex
<1>4. KeyInv'
  BY <1>1, <1>2, KeyInvStep DEF DbNext
<1>5. TypeInv'
  <2>1. TreeTypeOK'
    BY <1>1, <1>2, <1>4 DEF TypeInv, TreeTypeOK, KeyInv
  <2> QED BY <1>1, <1>2, <2>1 DEF TypeInv
<1>6. FoundInv'
  BY <1>1, <1>2, AddStepKeepsFound
<1>7. addPc' # "idle" => addKey' = addKey
  BY <1>1 DEF AddStep, PutIndexToKey, PutKeyToIndex, PutLastIndex
<1>8. PlaceInv'
  <2>1. pc \in {"genesis", "insert", "import"}
    BY <1>2, <1>3 DEF PlaceInv
  <2>2. InitialChanges(block)' = InitialChanges(block)
    BY <1>1 DEF InitialChanges
  <2> QED BY <1>1, <1>2, <1>3, <1>7, <2>1, <2>2 DEF PlaceInv
<1>9. InOrder' => InOrder
  <2>1. ASSUME pc = "insert", DOMAIN ChainState[block - 1] \subseteq KnownKeys'
        PROVE  DOMAIN ChainState[block - 1] \subseteq KnownKeys
    <3>1. block \in Batches /\ addKey \in KeysOf(InitialChanges(block))
      BY <1>2, <1>3, <2>1 DEF PlaceInv
    <3>2. addKey \notin DOMAIN ChainState[block - 1]
      <4>1. PICK j \in 1..Len(InitialChanges(block)) : addKey = InitialChanges(block)[j].key
        BY <3>1, InitialKeys DEF KeysOf, KeyList
      <4> QED BY <3>1, <4>1, InitialFacts
    <3> QED BY <1>3, <2>1, <3>2
  <2> QED BY <1>1, <2>1 DEF InOrder
<1>10. OrderInv'
  BY <1>1, <1>2, <1>9, AddStepKeepsOrdered DEF OrderInv
<1>11. UnkilledStores'
  <2> SUFFICES ASSUME kills = 0
               PROVE  /\ addPc' \in {"idle", "idx2key"} => ~HasKey(lastIndex)'
                      /\ DOMAIN tree' \subseteq KnownKeys'
    BY <1>1 DEF UnkilledStores
  <2>1. DOMAIN tree' \subseteq KnownKeys'
    BY <1>1, <1>2, <1>3 DEF UnkilledStores
  <2>2. ASSUME addPc' \in {"idle", "idx2key"} PROVE ~HasKey(lastIndex)'
    <3>1. UNCHANGED idx2key /\ lastIndex' = lastIndex + 1
      BY <1>1, <2>2 DEF AddStep, PutIndexToKey, PutKeyToIndex, PutLastIndex
    <3>2. lastIndex + 1 \notin DOMAIN idx2key
      BY <1>2 DEF KeyInv, KeyTypeOK
    <3> QED BY <3>1, <3>2 DEF HasKey
  <2> QED BY <2>1, <2>2
<1>12. ASSUME StoreInv PROVE StoreInv'
  <2>1. KnownAsOf(latestL1Batch) => KnownAsOf(latestL1Batch)'
    BY <1>1, <1>2, KnownStays DEF KnownAsOf
  <2>2. LeavesOf(latestL1Batch) => LeavesOf(latestL1Batch)'
    BY <1>1 DEF LeavesOf
  <2>3. pc \in {"genesis", "insert", "import"}
    BY <1>2, <1>3 DEF PlaceInv
  <2> QED BY <1>1, <1>12, <2>1, <2>2, <2>3 DEF StoreInv
<1> QED BY <1>4, <1>5, <1>6, <1>8, <1>10, <1>11, <1>12 DEF TreeInv

-----------------------------------------------------------------------------
(***************************************************************************)
(* The genesis state.                                                      *)
(***************************************************************************)
\* Nothing is missing before a genesis key when those before it are known.
LEMMA GenesisInOrder ==
  ASSUME pos \in 1..Len(Genesis),
         \A j \in 1..Len(Genesis) : j < pos => Genesis[j].key \in KnownKeys
  PROVE  /\ Genesis[pos].key \in ChainKeys
         /\ \A k \in ChainKeys : ChainIndex(k) < ChainIndex(Genesis[pos].key) => k \in KnownKeys
<1>1. /\ 0 \in 0..NumBatches /\ ChainState[0] = GenesisState /\ NumKeys(0) = Len(Genesis)
      /\ DOMAIN ChainState[0] = KeysOf(Genesis) /\ Len(Genesis) \in Nat
      /\ DOMAIN Genesis = 1..Len(Genesis)
  BY L2Assumption, ChainFacts, GenesisFacts, GenesisKeys, EnumeratedCardinality DEF NumKeys, KeyList
<1>2. \A i \in 1..Len(Genesis) : /\ Genesis[i].key \in KeysOf(Genesis)
                                 /\ ChainState[0][Genesis[i].key].index = i
  <2> SUFFICES ASSUME NEW i \in 1..Len(Genesis)
               PROVE  /\ Genesis[i].key \in KeysOf(Genesis)
                      /\ ChainState[0][Genesis[i].key].index = i
    OBVIOUS
  <2>1. GenesisState[Genesis[i].key] = [index |-> i, value |-> Genesis[i].value]
    BY GenesisFacts
  <2>2. Genesis[i].key \in KeysOf(Genesis)
    BY GenesisFacts
  <2> QED BY <1>1, <2>1, <2>2
<1>3. \A i \in 1..Len(Genesis) :
        Genesis[i].key \in ChainKeys /\ ChainIndex(Genesis[i].key) = i
  BY <1>1, <1>2, IndexOf
<1>4. ASSUME NEW k \in ChainKeys, ChainIndex(k) < ChainIndex(Genesis[pos].key)
      PROVE  k \in KnownKeys
  <2>1. ChainIndex(k) \in Nat \ {0} /\ ChainIndex(k) < pos
    BY <1>3, <1>4, IndicesCount
  <2>2. ChainIndex(k) <= NumKeys(0)
    BY <1>1, <2>1
  <2>3. k \in KeysOf(Genesis)
    BY <1>1, <2>2, IndexOf
  <2>4. PICK i \in 1..Len(Genesis) : k = Genesis[i].key
    BY <1>1, <2>3 DEF KeysOf
  <2>5. i < pos
    BY <1>3, <2>1, <2>4
  <2> QED BY <2>4, <2>5
<1> QED BY <1>3, <1>4

\* The genesis state that is rebuilt is that of the chain.
LEMMA GenesisExtends ==
  ASSUME NEW g,
         g = Extended({[key |-> Genesis[i].key, index |-> i, value |-> Genesis[i].value] :
                         i \in DOMAIN Genesis})
  PROVE  /\ g = [k \in DOMAIN tree \cup KeysOf(Genesis) |->
                   IF k \in KeysOf(Genesis) THEN ChainState[0][k] ELSE tree[k]]
         /\ DOMAIN ChainState[0] = KeysOf(Genesis)
<1> DEFINE E == {[key |-> Genesis[i].key, index |-> i, value |-> Genesis[i].value] :
                   i \in DOMAIN Genesis}
           of(k) == CHOOSE e \in E : e.key = k
<1>1. DOMAIN Genesis = 1..Len(Genesis) /\ Len(Genesis) \in Nat
  BY GenesisKeys DEF KeyList
<1>0. /\ \A i \in DOMAIN Genesis : \E e \in E : e.key = Genesis[i].key
      /\ \A e \in E : \E i \in DOMAIN Genesis :
           e.key = Genesis[i].key /\ e.index = i /\ e.value = Genesis[i].value
  <2>1. ASSUME NEW i \in DOMAIN Genesis PROVE \E e \in E : e.key = Genesis[i].key
    <3>1. [key |-> Genesis[i].key, index |-> i, value |-> Genesis[i].value] \in E
      OBVIOUS
    <3> HIDE DEF E
    <3> QED BY <3>1
  <2> QED BY <2>1
<1>2. {e.key : e \in E} = KeysOf(Genesis)
  <2> HIDE DEF E
  <2> QED BY <1>0 DEF KeysOf
<1>3. ChainState[0] = GenesisState /\ DOMAIN ChainState[0] = KeysOf(Genesis)
  BY ChainFacts, GenesisFacts
<1>4. ASSUME NEW k \in KeysOf(Genesis) PROVE Leaf(of(k).index, of(k).value) = ChainState[0][k]
  <2>1. PICK i \in 1..Len(Genesis) : k = Genesis[i].key
    BY <1>1 DEF KeysOf
  <2>2. ASSUME NEW e \in E, e.key = k PROVE e.index = i /\ e.value = Genesis[i].value
    <3> HIDE DEF E
    <3>1. PICK j \in 1..Len(Genesis) :
            e.key = Genesis[j].key /\ e.index = j /\ e.value = Genesis[j].value
      BY <1>0, <1>1
    <3>2. j = i
      BY <1>1, <2>1, <2>2, <3>1, L2Assumption DEF OneWritePerKey
    <3> QED BY <3>1, <3>2
  <2>3. \E e \in E : e.key = k
    <3> HIDE DEF E
    <3> QED BY <1>0, <1>1, <2>1
  <2>4. of(k) \in E /\ of(k).key = k
    BY <2>3
  <2>5. of(k).index = i /\ of(k).value = Genesis[i].value
    <3> HIDE DEF of, E
    <3> QED BY <2>2, <2>4
  <2>6. ChainState[0][k] = [index |-> i, value |-> Genesis[i].value]
    BY <1>3, <2>1, GenesisFacts
  <2> HIDE DEF of
  <2> QED BY <2>5, <2>6 DEF Leaf
<1>5. g = [k \in DOMAIN tree \cup {e.key : e \in E} |->
             IF k \in {e.key : e \in E} THEN Leaf(of(k).index, of(k).value) ELSE tree[k]]
  BY DEF Extended
<1> HIDE DEF E, of
<1> QED BY <1>2, <1>3, <1>4, <1>5

\* After the loop over the genesis keys all of them are known.
LEMMA GenesisKnown ==
  ASSUME KeysAdded(Genesis), pos \in Nat,
         \A j \in 1..Len(Genesis) : j < pos => Genesis[j].key \in KnownKeys
  PROVE  KeysOf(Genesis) \subseteq KnownKeys
<1>1. DOMAIN Genesis = 1..Len(Genesis) /\ Len(Genesis) \in Nat
  BY GenesisKeys DEF KeyList
<1>2. \A j \in 1..Len(Genesis) : j < pos
  BY <1>1 DEF KeysAdded
<1> QED BY <1>1, <1>2 DEF KeysOf

\* All keys of a state, when they are known in the order of the chain.
LEMMA OrderedKnown ==
  ASSUME Ordered, NEW b \in 0..NumBatches, DOMAIN ChainState[b] \subseteq KnownKeys
  PROVE  KnownAsOf(b)
BY IndexOf DEF Ordered, KnownAsOf

\* A state of the chain is the function of its leaves.
LEMMA StateIsItsLeaves ==
  ASSUME NEW b \in 0..NumBatches
  PROVE  /\ ChainState[b] = [k \in DOMAIN ChainState[b] |-> ChainState[b][k]]
         /\ \A k \in DOMAIN ChainState[b] :
              ChainState[b][k] = Leaf(ChainState[b][k].index, ChainState[b][k].value)
<1> DEFINE f == ChainState[b]
<1>1. f = [k \in DOMAIN f |-> [index |-> f[k].index, value |-> f[k].value]]
  BY StateFacts, Zenon
<1> HIDE DEF f
<1>2. f = [k \in DOMAIN f |-> f[k]] /\ \A k \in DOMAIN f : f[k] = Leaf(f[k].index, f[k].value)
  BY <1>1 DEF Leaf
<1> QED BY <1>2 DEF f

\* g is the tree with the leaves of the entries E instead of what it had there.
ExtendedBy(g, E) ==
  /\ g = [k \in DOMAIN g |-> g[k]]
  /\ DOMAIN g = DOMAIN tree \cup {e.key : e \in E}
  /\ \A k \in {e.key : e \in E} : \E e \in E : e.key = k /\ g[k] = Leaf(e.index, e.value)
  /\ \A k \in DOMAIN tree : (\A e \in E : e.key # k) => g[k] = tree[k]

\* MerkleTree::extend replaces the leaves of the entries and keeps the others.
LEMMA ExtendedFacts ==
  ASSUME NEW E, NEW g, g = Extended(E)
  PROVE  ExtendedBy(g, E)
<1> DEFINE of(k) == CHOOSE e \in E : e.key = k
           ks    == {e.key : e \in E}
<1>1. g = [k \in DOMAIN tree \cup ks |-> IF k \in ks THEN Leaf(of(k).index, of(k).value) ELSE tree[k]]
  BY DEF Extended
<1>2. \A k \in ks : of(k) \in E /\ of(k).key = k
  OBVIOUS
<1>3. \A k : (\A e \in E : e.key # k) => k \notin ks
  OBVIOUS
<1> HIDE DEF of, ks
<1>4. DOMAIN g = DOMAIN tree \cup ks /\ g = [k \in DOMAIN g |-> g[k]]
  BY <1>1
<1>5. \A k \in ks : \E e \in E : e.key = k /\ g[k] = Leaf(e.index, e.value)
  BY <1>1, <1>2
<1>6. \A k \in DOMAIN tree : (\A e \in E : e.key # k) => g[k] = tree[k]
  BY <1>1, <1>3
<1> QED BY <1>4, <1>5, <1>6 DEF ks, ExtendedBy

\* The tree keeps its type.
LEMMA ExtendedTyped ==
  ASSUME TypeInv, NEW E, \A e \in E : e.key \in Keys /\ e.index \in Nat /\ e.value \in Words,
         NEW g, g = Extended(E)
  PROVE  /\ DOMAIN g \subseteq Keys
         /\ \A k \in DOMAIN g : g[k].index \in Nat /\ g[k].value \in Words
         /\ g = [k \in DOMAIN g |-> [index |-> g[k].index, value |-> g[k].value]]
<1>1. ExtendedBy(g, E)
  BY ExtendedFacts
<1>2. /\ DOMAIN tree \subseteq Keys
      /\ \A k \in DOMAIN tree : tree[k].index \in Nat /\ tree[k].value \in Words
  BY DEF TypeInv, TreeTypeOK
<1>3. \A k \in DOMAIN tree : tree[k] = [index |-> tree[k].index, value |-> tree[k].value]
  <2>1. tree = [k \in DOMAIN tree |-> [index |-> tree[k].index, value |-> tree[k].value]]
    BY DEF TypeInv
  <2> QED BY <2>1
<1>4. ASSUME NEW k \in DOMAIN g
      PROVE  /\ k \in Keys /\ g[k].index \in Nat /\ g[k].value \in Words
             /\ g[k] = [index |-> g[k].index, value |-> g[k].value]
  <2>1. CASE k \in {e.key : e \in E}
    <3>1. PICK e \in E : e.key = k /\ g[k] = Leaf(e.index, e.value)
      BY <1>1, <2>1 DEF ExtendedBy
    <3>2. e.index \in Nat /\ e.value \in Words /\ k \in Keys
      BY <3>1
    <3> QED BY <3>1, <3>2 DEF Leaf
  <2>2. CASE k \notin {e.key : e \in E}
    <3>1. k \in DOMAIN tree /\ g[k] = tree[k]
      BY <1>1, <2>2 DEF ExtendedBy
    <3> QED BY <1>2, <1>3, <3>1
  <2> QED BY <2>1, <2>2
<1>5. g = [k \in DOMAIN g |-> [index |-> g[k].index, value |-> g[k].value]]
  BY <1>1, <1>4 DEF ExtendedBy
<1> QED BY <1>4, <1>5

\* The loop over the genesis keys.
LEMMA AddGenesisKeysKeeps ==
  ASSUME TreeInv, AddGenesisKeys
  PROVE  TreeInv' /\ (StoreInv => StoreInv')
<1>1. pc = "genesis" /\ AddKeys(Genesis) /\ KeyList(Genesis)
  BY GenesisKeys DEF AddGenesisKeys
<1>2. TypeInv /\ PlaceInv
  BY DEF TreeInv
<1>3. pos \in 1..Len(Genesis)
  BY <1>1, <1>2 DEF AddKeys, KeyList, TypeInv
<1>4. \A j \in 1..Len(Genesis) : j < pos => Genesis[j].key \in KnownKeys
  BY <1>1, <1>2 DEF PlaceInv
<1>5. KeyInv' /\ TypeInv' /\ FoundInv' /\ OrderInv' /\ UnkilledStores'
  <2>1. /\ Genesis[pos].key \in ChainKeys
        /\ \A k \in ChainKeys : ChainIndex(k) < ChainIndex(Genesis[pos].key) => k \in KnownKeys
    BY <1>3, <1>4, GenesisInOrder
  <2> QED BY <1>1, <2>1, AddKeysKeeps
<1>6. /\ UNCHANGED <<key2idx, dirExists, tree, versions, latestL1Batch, pc, block>>
      /\ UNCHANGED <<offer, sessions, gapped>>
      /\ \/ Genesis[pos].key \in KnownKeys /\ pos' = pos + 1 /\ addPc' = "idle"
         \/ pos' = pos /\ addKey' = Genesis[pos].key
  BY <1>1 DEF AddKeys, BeginAdd, dbVars, treeVars, history
<1>7. KnownKeys' = KnownKeys /\ Genesis[pos].key \in KeysOf(Genesis)
  BY <1>1, <1>3, <1>6 DEF KnownKeys, KeysOf, KeyList
<1>8. \A j \in 1..Len(Genesis) : j < pos' => Genesis[j].key \in KnownKeys
  BY <1>3, <1>4, <1>6
<1>9. PlaceInv'
  BY <1>1, <1>2, <1>6, <1>7, <1>8 DEF PlaceInv
<1>10. StoreInv => StoreInv'
  BY <1>1, <1>6 DEF StoreInv
<1> QED BY <1>5, <1>9, <1>10 DEF TreeInv

\* extend_tree is called with all genesis keys in the index.
LEMMA ExtendGenesisKeeps ==
  ASSUME TreeInv, ExtendGenesis
  PROVE  TreeInv' /\ (~Spoilt => StoreInv') /\ tree' = ChainState[0] /\ DOMAIN tree = {}
<1>1. /\ pc = "genesis" /\ pc' = "recv" /\ KeysAdded(Genesis) /\ versions' = versions + 1
      /\ UNCHANGED <<idx2key, key2idx, lastIndex, addPc, addKey, kills, dirExists>>
      /\ UNCHANGED <<latestL1Batch, block, pos, known, offer, sessions, torn, gapped>>
      /\ tree' = Extended({[key |-> Genesis[i].key, index |-> i, value |-> Genesis[i].value] :
                             i \in DOMAIN Genesis})
  BY DEF ExtendGenesis, keyVars, history
<1>2. KeyInv /\ TypeInv /\ PlaceInv /\ FoundInv /\ OrderInv /\ UnkilledStores
  BY DEF TreeInv
<1>3. dirExists /\ block = 0 /\ DOMAIN tree = {} /\ latestL1Batch = 0 /\ addPc = "idle"
  BY <1>1, <1>2 DEF PlaceInv, KeysAdded
<1>4. KeysOf(Genesis) \subseteq KnownKeys
  BY <1>1, <1>2, GenesisKnown DEF PlaceInv, TypeInv
<1>5. 0 \in 0..NumBatches
  BY L2Assumption
<1>6. tree' = ChainState[0] /\ DOMAIN ChainState[0] = KeysOf(Genesis)
  <2>1. /\ tree' = [k \in DOMAIN tree \cup KeysOf(Genesis) |->
                      IF k \in KeysOf(Genesis) THEN ChainState[0][k] ELSE tree[k]]
        /\ DOMAIN ChainState[0] = KeysOf(Genesis)
    BY <1>1, GenesisExtends
  <2>2. tree' = [k \in KeysOf(Genesis) |-> ChainState[0][k]]
    BY <1>3, <2>1
  <2> QED BY <1>5, <2>1, <2>2, StateIsItsLeaves
<1>7. KnownKeys' = KnownKeys
  BY <1>1 DEF KnownKeys
<1>8. KeyInv' /\ FoundInv' /\ OrderInv' /\ UnkilledStores'
  <2>1. InOrder' => InOrder
    BY <1>1, <1>3 DEF InOrder
  <2>2. DOMAIN tree' \subseteq DOMAIN tree \cup KnownKeys
    BY <1>4, <1>6
  <2> QED BY <1>1, <2>1, <2>2, SameIndex
<1>9. TypeInv'
  <2>1. /\ DOMAIN tree' \subseteq Keys
        /\ \A k \in DOMAIN tree' : tree'[k].index \in Nat /\ tree'[k].value \in Words
        /\ tree' = [k \in DOMAIN tree' |-> [index |-> tree'[k].index, value |-> tree'[k].value]]
    <3>1. ChainState[0] = [k \in DOMAIN ChainState[0] |->
                             [index |-> ChainState[0][k].index, value |-> ChainState[0][k].value]]
      BY <1>5, StateFacts, Zenon
    <3>2. \A k \in DOMAIN ChainState[0] :
            ChainState[0][k].index \in Nat /\ ChainState[0][k].value \in Words
      <4>1. NumKeys(0) \in Nat /\ \A k \in DOMAIN ChainState[0] :
              ChainState[0][k].index \in 1..NumKeys(0) /\ ChainState[0][k].value \in Words
        BY <1>5, StateFacts, Zenon
      <4> QED BY <4>1
    <3>3. DOMAIN ChainState[0] \subseteq Keys
      BY <1>5, StateKeys
    <3> QED BY <1>6, <3>1, <3>2, <3>3
  <2>2. versions' \in Nat
    BY <1>1, <1>2 DEF TypeInv, TreeTypeOK
  <2>3. TreeTypeOK'
    BY <1>1, <1>2, <1>8, <2>1, <2>2 DEF TypeInv, TreeTypeOK, KeyInv
  <2> QED BY <1>1, <1>2, <2>1, <2>3 DEF TypeInv
<1>10. PlaceInv'
  BY <1>1, <1>2, <1>3 DEF PlaceInv
<1>11. ASSUME ~Spoilt PROVE StoreInv'
  <2>1. Ordered
    BY <1>2, <1>3, <1>11 DEF Spoilt, OrderInv, InOrder
  <2>2. KnownAsOf(0)
    BY <1>4, <1>5, <1>6, <2>1, OrderedKnown
  <2>3. KnownAsOf(latestL1Batch)'
    BY <1>1, <1>3, <2>2 DEF KnownAsOf, KnownKeys
  <2>4. LeavesOf(latestL1Batch)' /\ tree' = ChainState[latestL1Batch']
    BY <1>1, <1>3, <1>6 DEF LeavesOf
  <2>5. versions' > 0
    BY <1>1, <1>2 DEF TypeInv, TreeTypeOK
  <2> QED BY <1>1, <2>3, <2>4, <2>5 DEF StoreInv
<1> QED BY <1>3, <1>6, <1>8, <1>9, <1>10, <1>11 DEF TreeInv
-----------------------------------------------------------------------------
(***************************************************************************)
(* Steps between the batches.                                              *)
(***************************************************************************)
\* The type invariant after a step that leaves the tree alone.
LEMMA SameTree ==
  ASSUME TypeInv, KeyTypeOK', UNCHANGED <<tree, versions, kills, torn>>,
         latestL1Batch' \in 0..NumBatches,
         pc' \in {"closed", "genesis", "recv", "insert", "persist", "rollback",
                  "rejected", "panicked", "import"},
         block' \in 0..NumBatches, offer' \in 1..(NumBatches + 1), pos' \in Nat \ {0},
         known' \in {known, {}}, sessions' \in Nat, gapped' \in 0..sessions'
  PROVE  TypeInv'
<1>1. TreeTypeOK'
  BY DEF TypeInv, TreeTypeOK
<1> QED BY <1>1 DEF TypeInv

\* A batch that is stored already is passed over.
LEMMA SkipBlockKeeps ==
  ASSUME TreeInv, SkipBlock
  PROVE  TreeInv' /\ (~Spoilt' => ~Spoilt) /\ (StoreInv => StoreInv')
<1>1. /\ UNCHANGED <<idx2key, key2idx, lastIndex, addPc, addKey, kills, dirExists>>
      /\ UNCHANGED <<tree, versions, latestL1Batch, pc, block, pos, known, sessions>>
      /\ UNCHANGED <<torn, gapped>>
      /\ pc = "recv" /\ offer <= NumBatches /\ latestL1Batch >= offer /\ offer' = offer + 1
  BY DEF SkipBlock, keyVars, treeVars, history
<1>2. KeyInv /\ TypeInv /\ PlaceInv
  BY DEF TreeInv
<1>3. KeyInv' /\ FoundInv' /\ OrderInv' /\ UnkilledStores' /\ KnownKeys' = KnownKeys
  <2>1. KnownKeys' = KnownKeys
    BY <1>1 DEF KnownKeys
  <2>2. InOrder' => InOrder
    BY <1>1, <2>1 DEF InOrder
  <2> QED BY <1>1, <2>1, <2>2, SameIndex
<1>4. TypeInv'
  <2>1. offer' \in 1..(NumBatches + 1) /\ KeyTypeOK'
    BY <1>1, <1>2, <1>3, L2Assumption DEF TypeInv, TreeTypeOK, KeyInv
  <2> QED BY <1>1, <1>2, <2>1, SameTree DEF TypeInv, TreeTypeOK
<1>5. PlaceInv'
  <2>1. offer \in Nat /\ latestL1Batch \in Nat
    BY <1>2, L2Assumption DEF TypeInv, TreeTypeOK
  <2> QED BY <1>1, <1>2, <2>1 DEF PlaceInv
<1>6. ~Spoilt' => ~Spoilt
  BY <1>1 DEF Spoilt
<1>7. StoreInv => StoreInv'
  BY <1>1, <1>3 DEF StoreInv, KnownAsOf, LeavesOf
<1> QED BY <1>3, <1>4, <1>5, <1>6, <1>7 DEF TreeInv

\* A batch is taken on.  Only here does it show that batches were left out.
LEMMA ReceiveBlockKeeps ==
  ASSUME TreeInv, ReceiveBlock
  PROVE  TreeInv' /\ (~Spoilt' => ~Spoilt) /\ (StoreInv => StoreInv')
<1>1. /\ UNCHANGED <<idx2key, key2idx, lastIndex, addPc, addKey, kills, dirExists>>
      /\ UNCHANGED <<tree, versions, latestL1Batch, sessions, torn>>
      /\ pc = "recv" /\ offer <= NumBatches /\ latestL1Batch < offer /\ offer' = offer + 1
      /\ block' = offer /\ pos' = 1 /\ known' = {} /\ pc' = "insert"
      /\ gapped' = IF gapped = 0 /\ KeysMissing(offer) THEN sessions ELSE gapped
  BY DEF ReceiveBlock, keyVars, treeVars
<1>2. KeyInv /\ TypeInv /\ PlaceInv
  BY DEF TreeInv
<1>3. /\ offer \in Batches /\ latestL1Batch \in Nat /\ sessions \in Nat \ {0}
      /\ gapped \in 0..sessions /\ NumBatches \in Nat
  BY <1>1, <1>2, L2Assumption DEF TypeInv, TreeTypeOK, PlaceInv, Batches
<1>4. KnownKeys' = KnownKeys /\ addPc = "idle" /\ dirExists
  BY <1>1, <1>2 DEF KnownKeys, PlaceInv
<1>5. gapped' = 0 => gapped = 0 /\ ~KeysMissing(offer)
  BY <1>1, <1>3
<1>6. gapped # 0 => gapped' = gapped
  BY <1>1
<1>7. KeyInv' /\ FoundInv' /\ OrderInv' /\ UnkilledStores'
  <2>1. InOrder' => InOrder
    <3>1. gapped # 0 /\ InOrder' => gapped = sessions /\ kills = 0 /\ pc = "recv"
      BY <1>1, <1>3, <1>5, <1>6 DEF InOrder, Batches
    <3> QED BY <3>1 DEF InOrder
  <2> QED BY <1>1, <2>1, SameIndex
<1>8. TypeInv'
  <2>1. offer' \in 1..(NumBatches + 1) /\ block' \in 0..NumBatches /\ gapped' \in 0..sessions'
    BY <1>1, <1>3 DEF Batches
  <2>2. KeyTypeOK' /\ latestL1Batch' \in 0..NumBatches /\ sessions' \in Nat
    BY <1>1, <1>2, <1>7 DEF TypeInv, TreeTypeOK, KeyInv
  <2> QED BY <1>1, <1>2, <2>1, <2>2, SameTree
<1>9. PlaceInv'
  <2>1. gapped' = 0 => offer <= latestL1Batch + 1 /\ offer = latestL1Batch + 1
    BY <1>1, <1>2, <1>3, <1>5 DEF PlaceInv, Batches
  <2>2. gapped' = 0 /\ versions' > 0 => (DOMAIN ChainState[block - 1] \subseteq KnownKeys)'
    BY <1>1, <1>4, <1>5 DEF KeysMissing
  <2>3. \A j \in 1..Len(InitialChanges(block)') : ~(j < pos')
    BY <1>1
  <2> QED BY <1>1, <1>2, <1>3, <1>4, <2>1, <2>2, <2>3 DEF PlaceInv
<1>10. ~Spoilt' => ~Spoilt
  BY <1>1, <1>5, <1>6 DEF Spoilt
<1>11. StoreInv => StoreInv'
  BY <1>1, <1>4, <1>5 DEF StoreInv, KnownAsOf, LeavesOf
<1> QED BY <1>7, <1>8, <1>9, <1>10, <1>11 DEF TreeInv
\* The batch is accepted: LATEST_L1_BATCH follows the tree.
LEMMA PersistBatchKeeps ==
  ASSUME TreeInv, PersistBatch
  PROVE  TreeInv' /\ (~Spoilt' => ~Spoilt) /\ (StoreInv => StoreInv')
<1>1. /\ UNCHANGED <<idx2key, key2idx, lastIndex, addPc, addKey, kills, dirExists>>
      /\ UNCHANGED <<tree, versions, block, pos, known, offer, sessions, torn, gapped>>
      /\ pc = "persist" /\ pc' = "recv" /\ latestL1Batch' = block
  BY DEF PersistBatch, keyVars, treeVars, history
<1>2. KeyInv /\ TypeInv /\ PlaceInv
  BY DEF TreeInv
<1>3. /\ block \in Batches /\ offer = block + 1 /\ addPc = "idle" /\ dirExists
      /\ KnownKeys' = KnownKeys
  BY <1>1, <1>2 DEF PlaceInv, KnownKeys
<1>4. KeyInv' /\ FoundInv' /\ OrderInv' /\ UnkilledStores'
  <2>1. InOrder' => InOrder
    BY <1>1 DEF InOrder
  <2> QED BY <1>1, <2>1, SameIndex
<1>5. TypeInv'
  <2>1. KeyTypeOK' /\ latestL1Batch' \in 0..NumBatches
    BY <1>1, <1>2, <1>4 DEF TypeInv, TreeTypeOK, KeyInv
  <2> QED BY <1>1, <1>2, <2>1, SameTree DEF TypeInv, TreeTypeOK
<1>6. PlaceInv'
  BY <1>1, <1>2, <1>3 DEF PlaceInv, Batches
<1>7. ~Spoilt' => ~Spoilt
  BY <1>1 DEF Spoilt
<1>8. StoreInv => StoreInv'
  <2> SUFFICES ASSUME StoreInv PROVE StoreInv'
    OBVIOUS
  <2>1. versions > 0 /\ tree = ChainState[block] /\ KnownAsOf(block)
    BY <1>1, <1>3 DEF StoreInv
  <2>2. KnownAsOf(latestL1Batch)'
    BY <1>1, <2>1 DEF KnownAsOf, KnownKeys
  <2>3. LeavesOf(latestL1Batch)' /\ tree' = ChainState[latestL1Batch']
    BY <1>1, <2>1 DEF LeavesOf
  <2> QED BY <1>1, <2>1, <2>2, <2>3 DEF StoreInv
<1> QED BY <1>4, <1>5, <1>6, <1>7, <1>8 DEF TreeInv

\* The processor returns.
LEMMA CloseKeeps ==
  ASSUME TreeInv, Close
  PROVE  TreeInv' /\ (~Spoilt' => ~Spoilt) /\ (StoreInv => StoreInv')
<1>1. /\ UNCHANGED <<idx2key, key2idx, lastIndex, addPc, addKey, kills, dirExists>>
      /\ UNCHANGED <<tree, versions, latestL1Batch, block, pos, known, offer, sessions>>
      /\ UNCHANGED <<torn, gapped>>
      /\ pc \in {"recv", "rejected", "panicked"} /\ pc' = "closed"
  BY DEF Close, keyVars, treeVars, history
<1>2. KeyInv /\ TypeInv /\ PlaceInv
  BY DEF TreeInv
<1>3. KeyInv' /\ FoundInv' /\ OrderInv' /\ UnkilledStores'
  <2>1. InOrder' => InOrder
    BY <1>1 DEF InOrder
  <2> QED BY <1>1, <2>1, SameIndex
<1>4. TypeInv'
  <2>1. KeyTypeOK'
    BY <1>3 DEF KeyInv
  <2> QED BY <1>1, <1>2, <2>1, SameTree DEF TypeInv, TreeTypeOK
<1>5. PlaceInv'
  BY <1>1, <1>2 DEF PlaceInv
<1>6. ~Spoilt' => ~Spoilt
  BY <1>1 DEF Spoilt
<1>7. StoreInv => StoreInv'
  BY <1>1 DEF StoreInv, KnownAsOf, LeavesOf, KnownKeys
<1> QED BY <1>3, <1>4, <1>5, <1>6, <1>7 DEF TreeInv

\* The process is killed, anywhere but in an import.
LEMMA KillProcessorKeeps ==
  ASSUME TreeInv, KillProcessor
  PROVE  TreeInv' /\ (~Spoilt' => ~Spoilt) /\ (~Spoilt' /\ pc # "import" /\ StoreInv => StoreInv')
<1>1. /\ UNCHANGED <<idx2key, key2idx, lastIndex, dirExists, tree, versions>>
      /\ UNCHANGED <<latestL1Batch, block, pos, known, offer, sessions, gapped>>
      /\ addPc' = "idle" /\ kills' = kills + 1 /\ pc' = "closed" /\ kills < MaxKills
      /\ KillAdd /\ torn' = torn \cup OpenWrites
      /\ pc \notin {"closed", "rejected", "panicked"}
  BY DEF KillProcessor, KillAdd, dbVars, treeVars
<1>2. KeyInv /\ TypeInv /\ PlaceInv /\ FoundInv /\ OrderInv
  BY DEF TreeInv
<1>3. /\ KnownKeys' = KnownKeys /\ (\A i : HasKey(i)' <=> HasKey(i))
      /\ kills' # 0 /\ kills' \in Nat /\ dirExists
  BY <1>1, <1>2 DEF KnownKeys, HasKey, TypeInv, TreeTypeOK, KeyTypeOK, PlaceInv
<1>4. KeyInv'
  <2>1. DbNext
    BY <1>1 DEF DbNext, Kill
  <2> QED BY <1>2, <2>1, KeyInvStep
<1>5. TypeInv'
  <2>1. torn' \subseteq {"genesis", "persist", "rollback", "last"}
    BY <1>1, <1>2 DEF OpenWrites, TypeInv, TreeTypeOK
  <2>2. TreeTypeOK'
    BY <1>1, <1>2, <1>4, <2>1 DEF TypeInv, TreeTypeOK, KeyInv
  <2> QED BY <1>1, <1>2, <1>3, <2>2 DEF TypeInv
<1>6. PlaceInv'
  BY <1>1, <1>2, <1>3 DEF PlaceInv
<1>7. FoundInv'
  <2>1. "last" \notin torn' => "last" \notin torn /\ addPc # "last"
    BY <1>1 DEF OpenWrites
  <2> QED BY <1>1, <1>2, <1>3, <2>1 DEF FoundInv
<1>8. OrderInv'
  <2>1. InOrder' => InOrder
    BY <1>1, <1>3 DEF InOrder
  <2>2. Ordered => Ordered'
    BY <1>1, <1>3 DEF Ordered
  <2> QED BY <1>1, <1>2, <2>1, <2>2 DEF OrderInv
<1>9. UnkilledStores'
  BY <1>3 DEF UnkilledStores
<1>10. ~Spoilt' => gapped = 0 /\ torn = {} /\ pc \notin {"genesis", "persist", "rollback"}
  <2>1. ~Spoilt' => gapped' = 0 /\ torn' = {}
    BY <1>3 DEF Spoilt
  <2> QED BY <1>1, <2>1 DEF OpenWrites
<1>11. ~Spoilt' /\ pc # "import" /\ StoreInv => StoreInv'
  BY <1>1, <1>2, <1>3, <1>10 DEF StoreInv, KnownAsOf, LeavesOf, TypeInv, TreeTypeOK
<1>12. ~Spoilt' => ~Spoilt
  BY <1>10 DEF Spoilt
<1> QED BY <1>4, <1>5, <1>6, <1>7, <1>8, <1>9, <1>11, <1>12 DEF TreeInv

\* The tool is started again, from some batch.
LEMMA OpenKeeps ==
  ASSUME TreeInv, Open
  PROVE  TreeInv' /\ (~Spoilt' => ~Spoilt) /\ (StoreInv => StoreInv')
<1>1. /\ UNCHANGED <<idx2key, key2idx, lastIndex, addPc, addKey, kills>>
      /\ UNCHANGED <<tree, versions, latestL1Batch, torn>>
      /\ pc = "closed" /\ pc' = (IF dirExists THEN "recv" ELSE "genesis") /\ dirExists' = TRUE
      /\ pos' = 1 /\ block' = 0 /\ known' = {} /\ sessions' = sessions + 1
      /\ offer' \in Batches
      /\ gapped' = IF gapped = 0 /\ offer' > latestL1Batch + 1 THEN sessions' ELSE gapped
  BY DEF Open, keyVars, treeVars
<1>2. KeyInv /\ TypeInv /\ PlaceInv
  BY DEF TreeInv
<1>3. /\ sessions \in Nat /\ gapped \in 0..sessions /\ addPc = "idle" /\ KnownKeys' = KnownKeys
      /\ latestL1Batch \in Nat /\ NumBatches \in Nat
  BY <1>1, <1>2, L2Assumption DEF TypeInv, TreeTypeOK, PlaceInv, KnownKeys
<1>4. /\ gapped' = 0 => gapped = 0 /\ offer' <= latestL1Batch + 1
      /\ gapped' = sessions' => gapped = 0
      /\ gapped' \in 0..sessions'
  BY <1>1, <1>3 DEF Batches
<1>5. KeyInv' /\ FoundInv' /\ OrderInv' /\ UnkilledStores'
  <2>1. InOrder' => InOrder
    BY <1>4 DEF InOrder
  <2> QED BY <1>1, <2>1, SameIndex
<1>6. TypeInv'
  <2>1. offer' \in 1..(NumBatches + 1) /\ block' \in 0..NumBatches
    BY <1>1, <1>3 DEF Batches
  <2>2. KeyTypeOK' /\ latestL1Batch' \in 0..NumBatches /\ sessions' \in Nat
    BY <1>1, <1>2, <1>5 DEF TypeInv, TreeTypeOK, KeyInv
  <2>3. pc' \in {"recv", "genesis"}
    BY <1>1
  <2> QED BY <1>1, <1>2, <1>4, <2>1, <2>2, <2>3, SameTree
<1>7. PlaceInv'
  <2>1. \A j \in 1..Len(Genesis) : ~(j < pos')
    BY <1>1
  <2>2. pc' = "genesis" => DOMAIN tree = {} /\ latestL1Batch = 0
    BY <1>1, <1>2 DEF PlaceInv
  <2>3. pc' \in {"recv", "genesis"} /\ sessions' > 0 /\ (pc' = "recv" => pc' # "genesis")
    BY <1>1, <1>3
  <2> QED BY <1>1, <1>3, <1>4, <2>1, <2>2, <2>3 DEF PlaceInv
<1>8. ~Spoilt' => ~Spoilt
  BY <1>1, <1>4 DEF Spoilt
<1>9. StoreInv => StoreInv'
  BY <1>1, <1>3, <1>4 DEF StoreInv, KnownAsOf, LeavesOf
<1> QED BY <1>5, <1>6, <1>7, <1>8, <1>9 DEF TreeInv
-----------------------------------------------------------------------------
(***************************************************************************)
(* The keys of a batch.                                                    *)
(***************************************************************************)
\* Nothing is missing before an initial key when those before it are known.
LEMMA InitialInOrder ==
  ASSUME block \in Batches, DOMAIN ChainState[block - 1] \subseteq KnownKeys,
         pos \in 1..Len(InitialChanges(block)),
         \A j \in 1..Len(InitialChanges(block)) :
           j < pos => InitialChanges(block)[j].key \in KnownKeys
  PROVE  /\ InitialChanges(block)[pos].key \in ChainKeys
         /\ \A k \in ChainKeys :
              ChainIndex(k) < ChainIndex(InitialChanges(block)[pos].key) => k \in KnownKeys
<1> DEFINE s == InitialChanges(block)
           n == NumKeys(block - 1)
<1>1. /\ Len(s) \in Nat /\ NumKeys(block) = n + Len(s)
      /\ DOMAIN ChainState[block] = DOMAIN ChainState[block - 1] \cup {s[j].key : j \in 1..Len(s)}
      /\ \A j \in 1..Len(s) : ChainState[block][s[j].key].index = n + j
  <2>1. \A j \in 1..Len(s) :
          ChainState[block][s[j].key] = [index |-> n + j, value |-> Unpack(s[j].op, 0, s[j].value)]
    BY InitialFacts, Zenon
  <2>2. /\ Len(s) \in Nat /\ NumKeys(block) = n + Len(s)
        /\ DOMAIN ChainState[block] = DOMAIN ChainState[block - 1] \cup {s[j].key : j \in 1..Len(s)}
    BY InitialFacts, Zenon
  <2>3. \A j \in 1..Len(s) : ChainState[block][s[j].key].index = n + j
    <3> SUFFICES ASSUME NEW j \in 1..Len(s)
                 PROVE  ChainState[block][s[j].key].index = n + j
      OBVIOUS
    <3> DEFINE v == Unpack(s[j].op, 0, s[j].value)
    <3>1. ChainState[block][s[j].key] = [index |-> n + j, value |-> v]
      BY <2>1
    <3> HIDE DEF s, n, v
    <3> QED BY <3>1
  <2> QED BY <2>2, <2>3, Zenon
<1>2. block \in 0..NumBatches /\ block - 1 \in 0..NumBatches /\ n \in Nat
  <2>1. block \in 0..NumBatches /\ block - 1 \in 0..NumBatches
    BY L2Assumption DEF Batches
  <2> QED BY <2>1, StateFacts, Zenon
<1>3. \A j \in 1..Len(s) : s[j].key \in ChainKeys /\ ChainIndex(s[j].key) = n + j
  BY <1>1, <1>2, IndexOf
<1> HIDE DEF s, n
<1>4. ASSUME NEW k \in ChainKeys, ChainIndex(k) < n + pos PROVE k \in KnownKeys
  <2>1. ChainIndex(k) \in Nat
    BY IndicesCount
  <2>2. ChainIndex(k) <= NumKeys(block)
    BY <1>1, <1>2, <1>4, <2>1 DEF s
  <2>3. k \in DOMAIN ChainState[block]
    BY <1>2, <2>2, IndexOf
  <2>4. CASE k \in DOMAIN ChainState[block - 1]
    BY <2>4
  <2>5. CASE \E j \in 1..Len(s) : k = s[j].key
    <3>1. PICK j \in 1..Len(s) : k = s[j].key
      BY <2>5
    <3>2. j < pos
      BY <1>1, <1>2, <1>3, <1>4, <3>1 DEF s
    <3> QED BY <3>1, <3>2 DEF s
  <2> QED BY <1>1, <2>3, <2>4, <2>5
<1>5. s[pos].key \in ChainKeys /\ ChainIndex(s[pos].key) = n + pos
  BY <1>3 DEF s
<1> QED BY <1>4, <1>5 DEF s

\* The loop over the initial changes.
LEMMA AddInitialKeysKeeps ==
  ASSUME TreeInv, AddInitialKeys
  PROVE  TreeInv' /\ (~Spoilt' => ~Spoilt) /\ (StoreInv => StoreInv')
<1> DEFINE s == InitialChanges(block)
<1>1. pc = "insert" /\ versions > 0 /\ AddKeys(s)
  BY DEF AddInitialKeys
<1>2. TypeInv /\ PlaceInv
  BY DEF TreeInv
<1>3. block \in Batches /\ KeyList(s)
  BY <1>1, <1>2, InitialKeys DEF PlaceInv
<1>4. pos \in 1..Len(s) /\ \A j \in 1..Len(s) : j < pos => s[j].key \in KnownKeys
  BY <1>1, <1>2, <1>3 DEF PlaceInv, AddKeys, KeyList, TypeInv
<1>5. KeyInv' /\ TypeInv' /\ FoundInv' /\ OrderInv' /\ UnkilledStores'
  <2>1. InOrder => DOMAIN ChainState[block - 1] \subseteq KnownKeys
    BY <1>1, <1>2, <1>3 DEF InOrder, PlaceInv, Batches
  <2>2. InOrder => /\ s[pos].key \in ChainKeys
                   /\ \A k \in ChainKeys : ChainIndex(k) < ChainIndex(s[pos].key) => k \in KnownKeys
    BY <1>3, <1>4, <2>1, InitialInOrder
  <2> HIDE DEF s
  <2> QED BY <1>1, <1>3, <2>2, AddKeysKeeps
<1>6. /\ UNCHANGED <<key2idx, dirExists, tree, versions, latestL1Batch, pc, block, kills>>
      /\ UNCHANGED <<offer, sessions, torn, gapped>>
      /\ \/ s[pos].key \in KnownKeys /\ pos' = pos + 1 /\ addPc' = "idle"
         \/ pos' = pos /\ addKey' = s[pos].key
  BY <1>1 DEF AddKeys, BeginAdd, dbVars, treeVars, history
<1>7. KnownKeys' = KnownKeys /\ s[pos].key \in KeysOf(s)
  BY <1>3, <1>4, <1>6 DEF KnownKeys, KeysOf, KeyList
<1>8. (\A j \in 1..Len(s) : j < pos' => s[j].key \in KnownKeys) /\ InitialChanges(block)' = s
  <2>1. \A j \in 1..Len(s) : j < pos' => s[j].key \in KnownKeys
    BY <1>4, <1>6
  <2> QED BY <1>6, <2>1 DEF InitialChanges
<1>9. PlaceInv'
  <2> HIDE DEF s
  <2>1. PlaceInv /\ pc = "insert" /\ versions > 0
    BY <1>1, <1>2
  <2> QED BY <1>6, <1>7, <1>8, <2>1 DEF PlaceInv
<1>10. StoreInv => StoreInv'
  <2> HIDE DEF s
  <2> QED BY <1>1, <1>6 DEF StoreInv, KnownAsOf, LeavesOf, KnownKeys
<1>11. ~Spoilt' => ~Spoilt
  BY <1>6 DEF Spoilt
<1> QED BY <1>5, <1>9, <1>10, <1>11 DEF TreeInv

\* All keys before the batch are known under their indices, and found, when no
\* batch was left out.
LEMMA RepeatedFound ==
  ASSUME TreeInv, pc = "insert", versions > 0, addPc = "idle", gapped = 0, "last" \notin torn,
         NEW k \in DOMAIN ChainState[block - 1]
  PROVE  /\ k \in KnownKeys /\ key2idx[k] + 1 = ChainState[block - 1][k].index
         /\ HasKey(key2idx[k]) /\ idx2key[key2idx[k]] = k /\ key2idx[k] \in 0..(lastIndex - 1)
<1>1. KeyInv /\ PlaceInv /\ FoundInv /\ OrderInv
  BY DEF TreeInv
<1>2. k \in KnownKeys /\ Ordered /\ block - 1 \in 0..NumBatches
  <2>1. block \in Batches /\ DOMAIN ChainState[block - 1] \subseteq KnownKeys
    BY <1>1 DEF PlaceInv
  <2>2. Ordered
    BY <1>1 DEF OrderInv, InOrder
  <2> QED BY <2>1, <2>2, L2Assumption DEF Batches
<1>3. KnownAsOf(block - 1)
  BY <1>1, <1>2, OrderedKnown DEF PlaceInv
<1>4. key2idx[k] \in 0..lastIndex /\ lastIndex \in Nat
  BY <1>1, <1>2 DEF KeyInv, KeyTypeOK, KnownKeys
<1>5. HasKey(key2idx[k]) /\ idx2key[key2idx[k]] = k /\ key2idx[k] < lastIndex
  BY <1>1, <1>2 DEF FoundInv
<1> QED BY <1>2, <1>3, <1>4, <1>5 DEF KnownAsOf

\* insert_block gives up only when batches were left out or a kill came between
\* two writes.
LEMMA InsertPanicsKeeps ==
  ASSUME TreeInv, InsertPanics
  PROVE  TreeInv' /\ (~Spoilt' => ~Spoilt) /\ (~Spoilt' /\ StoreInv => StoreInv')
<1>1. /\ UNCHANGED <<idx2key, key2idx, lastIndex, addPc, addKey, kills, dirExists>>
      /\ UNCHANGED <<tree, versions, latestL1Batch, block, pos, known, offer, sessions>>
      /\ UNCHANGED <<torn, gapped>>
      /\ pc = "insert" /\ pc' = "panicked"
      /\ \/ versions = 0
         \/ /\ KeysAdded(InitialChanges(block))
            /\ \E r \in RepeatedChanges(block) : ~HasKey(r.index - 1)
  BY DEF InsertPanics, keyVars, treeVars, history
<1>2. KeyInv /\ TypeInv /\ PlaceInv
  BY DEF TreeInv
<1>3. addPc = "idle" /\ dirExists /\ block \in Batches
  <2>1. versions = 0 => addPc = "idle"
    BY <1>1, <1>2 DEF PlaceInv
  <2>2. dirExists /\ block \in Batches
    BY <1>1, <1>2 DEF PlaceInv
  <2> QED BY <1>1, <2>1, <2>2 DEF KeysAdded
<1>4. KeyInv' /\ FoundInv' /\ OrderInv' /\ UnkilledStores'
  <2>1. InOrder' => InOrder
    BY <1>1 DEF InOrder
  <2> QED BY <1>1, <2>1, SameIndex
<1>5. TypeInv'
  <2>1. KeyTypeOK'
    BY <1>4 DEF KeyInv
  <2> QED BY <1>1, <1>2, <2>1, SameTree DEF TypeInv, TreeTypeOK
<1>6. PlaceInv'
  BY <1>1, <1>2, <1>3 DEF PlaceInv
<1>7. ~Spoilt' => ~Spoilt
  BY <1>1 DEF Spoilt
<1>8. ASSUME StoreInv, ~Spoilt, gapped = 0 PROVE FALSE
  <2>1. versions > 0
    BY <1>1, <1>3, <1>8 DEF StoreInv
  <2>2. PICK r \in RepeatedChanges(block) : ~HasKey(r.index - 1)
    BY <1>1, <2>1
  <2>3. PICK k \in DOMAIN ChainState[block - 1] : ChainState[block - 1][k].index = r.index
    BY <1>3, RepeatedKeys
  <2>4. "last" \notin torn
    BY <1>8 DEF Spoilt
  <2>5. HasKey(key2idx[k]) /\ key2idx[k] + 1 = r.index /\ key2idx[k] \in 0..(lastIndex - 1)
    BY <1>1, <1>3, <1>8, <2>1, <2>3, <2>4, RepeatedFound
  <2>6. r.index - 1 = key2idx[k]
    BY <2>5
  <2> QED BY <2>2, <2>5, <2>6
<1>9. ~Spoilt' /\ StoreInv => StoreInv'
  BY <1>1, <1>7, <1>8 DEF StoreInv, KnownAsOf, LeavesOf, KnownKeys
<1> QED BY <1>4, <1>5, <1>6, <1>7, <1>9 DEF TreeInv
-----------------------------------------------------------------------------
(***************************************************************************)
(* The tree is extended.                                                   *)
(***************************************************************************)
\* The batch whose keys are all resolved.
LEMMA ResolvedBlock ==
  ASSUME TreeInv, BlockResolved
  PROVE  /\ pc = "insert" /\ versions > 0 /\ addPc = "idle" /\ dirExists
         /\ block \in Batches /\ block - 1 \in 0..NumBatches
         /\ \A j \in 1..Len(InitialChanges(block)) : InitialChanges(block)[j].key \in KnownKeys
<1> DEFINE s == InitialChanges(block)
<1>1. /\ pc = "insert" /\ versions > 0 /\ addPc = "idle" /\ pos > Len(s)
      /\ TypeInv /\ PlaceInv
  BY DEF BlockResolved, KeysAdded, TreeInv
<1>2. /\ block \in Batches /\ dirExists
      /\ \A j \in 1..Len(s) : j < pos => s[j].key \in KnownKeys
  BY <1>1 DEF PlaceInv
<1>3. pos \in Nat /\ Len(s) \in Nat
  BY <1>1, <1>2, InitialKeys DEF TypeInv, KeyList
<1>4. block - 1 \in 0..NumBatches
  BY <1>2, L2Assumption DEF Batches
<1> HIDE DEF s
<1>5. \A j \in 1..Len(s) : s[j].key \in KnownKeys
  BY <1>1, <1>2, <1>3
<1> QED BY <1>1, <1>2, <1>4, <1>5 DEF s

\* A repeated change has the index that the key index has for its key.
LEMMA ResolvedIndex ==
  ASSUME TreeInv, BlockResolved, (gapped = 0 /\ "last" \notin torn) \/ kills = 0,
         NEW r \in RepeatedChanges(block)
  PROVE  KeyAt(r.index) \in KnownKeys /\ key2idx[KeyAt(r.index)] = r.index - 1
<1>1. pc = "insert" /\ versions > 0 /\ addPc = "idle" /\ block \in Batches /\ HasKey(r.index - 1)
  BY ResolvedBlock DEF BlockResolved
<1>2. KeyInv /\ UnkilledStores
  BY DEF TreeInv
<1>3. r.index - 1 \in 0..(lastIndex - 1)
  <2>1. CASE gapped = 0 /\ "last" \notin torn
    <3>1. PICK k \in DOMAIN ChainState[block - 1] : ChainState[block - 1][k].index = r.index
      BY <1>1, RepeatedKeys
    <3>2. key2idx[k] + 1 = r.index /\ key2idx[k] \in 0..(lastIndex - 1)
      BY <1>1, <2>1, <3>1, RepeatedFound
    <3>3. r.index - 1 = key2idx[k]
      BY <3>2
    <3> QED BY <3>2, <3>3
  <2>2. CASE kills = 0
    <3>1. r.index - 1 \in 0..lastIndex /\ lastIndex \in Nat
      BY <1>1, <1>2 DEF KeyInv, KeyTypeOK, HasKey
    <3>2. r.index - 1 # lastIndex
      BY <1>1, <1>2, <2>2 DEF UnkilledStores
    <3> QED BY <3>1, <3>2
  <2> QED BY <2>1, <2>2
<1> QED BY <1>2, <1>3 DEF KeyInv, IndexPointsBack, KeyAt

\* What the entries of the batch come from.
LEMMA InitialEntryOf ==
  ASSUME block \in Batches, NEW e \in InitialEntries(block)
  PROVE  \E i \in 1..Len(InitialChanges(block)) :
           /\ e.key = InitialChanges(block)[i].key
           /\ e.index = NumKeys(block - 1) + i
           /\ e.value = Unpack(InitialChanges(block)[i].op,
                               ValueIn(tree, InitialChanges(block)[i].key),
                               InitialChanges(block)[i].value)
<1> DEFINE s == InitialChanges(block)
           n == NumKeys(block - 1)
           v(i) == ProcessValue(s[i].key, s[i].op, s[i].value)
<1>1. PICK i \in DOMAIN s : e = [key |-> s[i].key, index |-> FirstIndex(block) + i - 1, value |-> v(i)]
  BY DEF InitialEntries
<1>2. DOMAIN s = 1..Len(s) /\ Len(s) \in Nat
  BY InitialKeys DEF KeyList
<1>3. FirstIndex(block) = n + 1 /\ n \in Nat
  <2>1. block \in 0..NumBatches /\ block - 1 \in 0..NumBatches
    BY L2Assumption DEF Batches
  <2>2. IndexRepeated(block) = NumKeys(block) + 1 /\ n \in Nat
    BY <2>1, StateFacts, Zenon
  <2>3. NumKeys(block) = n + Len(s)
    BY InitialFacts, Zenon
  <2> HIDE DEF s, n
  <2> QED BY <1>2, <2>2, <2>3 DEF FirstIndex, s
<1>4. v(i) = Unpack(s[i].op, ValueIn(tree, s[i].key), s[i].value)
  BY DEF ProcessValue, Unpack
<1>5. e.key = s[i].key /\ e.index = n + i /\ e.value = v(i)
  <2> HIDE DEF s, n, v
  <2> QED BY <1>1, <1>2, <1>3
<1> QED BY <1>2, <1>4, <1>5, Zenon

\* Every initial write has its entry.
LEMMA InitialEntryFor ==
  ASSUME block \in Batches, NEW i \in 1..Len(InitialChanges(block))
  PROVE  \E e \in InitialEntries(block) : e.key = InitialChanges(block)[i].key
<1> DEFINE s == InitialChanges(block)
           v == ProcessValue(s[i].key, s[i].op, s[i].value)
           e == [key |-> s[i].key, index |-> FirstIndex(block) + i - 1, value |-> v]
<1>1. i \in DOMAIN s
  BY InitialKeys DEF KeyList
<1>2. e \in InitialEntries(block)
  BY <1>1 DEF InitialEntries
<1>3. e.key = s[i].key
  <2> HIDE DEF v, s
  <2> QED OBVIOUS
<1> QED BY <1>2, <1>3

\* An entry for a repeated write, with its key looked up by the index.
LEMMA RepeatedEntryOf ==
  ASSUME NEW e \in RepeatedEntries(block)
  PROVE  \E r \in RepeatedChanges(block) :
           /\ e.key = KeyAt(r.index) /\ e.index = r.index
           /\ e.value = Unpack(r.op, ValueIn(tree, e.key), r.value)
<1> DEFINE v(r) == ProcessValue(KeyAt(r.index), r.op, r.value)
<1>1. PICK r \in RepeatedChanges(block) : e = [key |-> KeyAt(r.index), index |-> r.index, value |-> v(r)]
  BY DEF RepeatedEntries
<1>2. v(r) = Unpack(r.op, ValueIn(tree, KeyAt(r.index)), r.value)
  BY DEF ProcessValue, Unpack
<1>3. e.key = KeyAt(r.index) /\ e.index = r.index /\ e.value = v(r)
  <2> HIDE DEF v
  <2> QED BY <1>1
<1> QED BY <1>2, <1>3

\* Every repeated write has its entry.
LEMMA RepeatedEntryFor ==
  ASSUME NEW r \in RepeatedChanges(block)
  PROVE  \E e \in RepeatedEntries(block) : e.key = KeyAt(r.index)
<1> DEFINE v == ProcessValue(KeyAt(r.index), r.op, r.value)
           e == [key |-> KeyAt(r.index), index |-> r.index, value |-> v]
<1>1. e \in RepeatedEntries(block)
  BY DEF RepeatedEntries
<1>2. e.key = KeyAt(r.index)
  <2> HIDE DEF v
  <2> QED OBVIOUS
<1> QED BY <1>1, <1>2

\* The values that the tree has are words.
LEMMA TreeWords ==
  ASSUME TypeInv, NEW k
  PROVE  ValueIn(tree, k) \in Words
<1>1. 0 \in Words
  BY L2Assumption DEF Words
<1> QED BY <1>1 DEF TypeInv, TreeTypeOK, ValueIn

\* The entries of a batch are leaves of keys.
LEMMA EntriesTyped ==
  ASSUME TreeInv, BlockResolved, NEW e \in BlockEntries(block)
  PROVE  e.key \in Keys /\ e.index \in Nat /\ e.value \in Words
<1>1. block \in Batches /\ TypeInv /\ KeyInv
  BY ResolvedBlock DEF TreeInv
<1>2. block - 1 \in 0..NumBatches
  BY ResolvedBlock
<1>3. NumKeys(block - 1) \in Nat
  BY <1>2, StateFacts, Zenon
<1>4. CASE e \in InitialEntries(block)
  <2> DEFINE s == InitialChanges(block)
  <2>1. PICK i \in 1..Len(s) :
          /\ e.key = s[i].key /\ e.index = NumKeys(block - 1) + i
          /\ e.value = Unpack(s[i].op, ValueIn(tree, s[i].key), s[i].value)
    BY <1>1, <1>4, InitialEntryOf
  <2>2. s[i].key \in Keys /\ s[i].value \in Words
    BY <1>1, InitialKeys DEF KeyList
  <2>3. e.value \in Words
    BY <1>1, <2>1, <2>2, TreeWords, UnpackIsWord
  <2> QED BY <1>3, <2>1, <2>2, <2>3
<1>5. CASE e \in RepeatedEntries(block)
  <2>1. PICK r \in RepeatedChanges(block) :
          /\ e.key = KeyAt(r.index) /\ e.index = r.index
          /\ e.value = Unpack(r.op, ValueIn(tree, e.key), r.value)
    BY <1>5, RepeatedEntryOf
  <2>2. KeyAt(r.index) \in Keys
    BY <1>1 DEF BlockResolved, HasKey, KeyAt, KeyInv, KeyTypeOK
  <2>3. r.index \in Nat
    <3>1. PICK k \in DOMAIN ChainState[block - 1] : ChainState[block - 1][k].index = r.index
      BY <1>1, RepeatedKeys
    <3>2. ChainState[block - 1][k].index \in 1..NumKeys(block - 1)
      BY <1>2, StateFacts, Zenon
    <3> QED BY <1>3, <3>1, <3>2
  <2>4. r.value \in Words
    BY <1>1, RepeatedFacts, Zenon
  <2>5. e.value \in Words
    BY <1>1, <2>1, <2>4, TreeWords, UnpackIsWord
  <2> QED BY <2>1, <2>2, <2>3, <2>5
<1> QED BY <1>4, <1>5 DEF BlockEntries

\* Without a kill between two writes, and no batch left out or no kill at all,
\* all keys of the batch are known.
LEMMA EntryKeysKnown ==
  ASSUME TreeInv, BlockResolved, (gapped = 0 /\ "last" \notin torn) \/ kills = 0,
         NEW e \in BlockEntries(block)
  PROVE  e.key \in KnownKeys
<1>1. block \in Batches
  BY ResolvedBlock
<1>2. CASE e \in InitialEntries(block)
  <2>1. PICK i \in 1..Len(InitialChanges(block)) : e.key = InitialChanges(block)[i].key
    BY <1>1, <1>2, InitialEntryOf
  <2> QED BY <2>1, ResolvedBlock
<1>3. CASE e \in RepeatedEntries(block)
  <2>1. PICK r \in RepeatedChanges(block) : e.key = KeyAt(r.index)
    BY <1>3, RepeatedEntryOf
  <2> QED BY <2>1, ResolvedIndex
<1> QED BY <1>2, <1>3 DEF BlockEntries
\* g is the tree with one of the entries E of each key entered.
EntersOne(g, E) ==
  /\ g = [k \in DOMAIN g |-> g[k]]
  /\ DOMAIN g = DOMAIN tree \cup {e.key : e \in E}
  /\ \A e \in E : e.key \in DOMAIN g
  /\ \A k \in DOMAIN g :
       \/ \E e \in E : e.key = k /\ g[k] = Leaf(e.index, e.value)
       \/ (\A e \in E : e.key # k) /\ k \in DOMAIN tree /\ g[k] = tree[k]

\* Of several entries of a key the tree takes one.
LEMMA OneOfEach ==
  ASSUME NEW E, NEW s \in OnePerKey(E), NEW g, g = Extended(s)
  PROVE  s \subseteq E /\ EntersOne(g, E)
<1>1. s \subseteq E /\ {e.key : e \in s} = {e.key : e \in E}
  BY DEF OnePerKey
<1>2. ExtendedBy(g, s)
  BY ExtendedFacts
<1>3. g = [k \in DOMAIN g |-> g[k]] /\ DOMAIN g = DOMAIN tree \cup {e.key : e \in E}
  BY <1>1, <1>2 DEF ExtendedBy
<1>4. ASSUME NEW k \in DOMAIN g, ~(\E e \in E : e.key = k /\ g[k] = Leaf(e.index, e.value))
      PROVE  (\A e \in E : e.key # k) /\ k \in DOMAIN tree /\ g[k] = tree[k]
  <2>1. k \notin {e.key : e \in s}
    BY <1>1, <1>2, <1>4 DEF ExtendedBy
  <2>2. \A e \in E : e.key # k
    BY <1>1, <2>1
  <2>3. k \in DOMAIN tree /\ \A e \in s : e.key # k
    BY <1>1, <1>3, <2>2
  <2> QED BY <1>2, <2>2, <2>3 DEF ExtendedBy
<1>5. \A e \in E : e.key \in DOMAIN g
  BY <1>3
<1> QED BY <1>1, <1>3, <1>4, <1>5 DEF EntersOne

\* An honest batch makes of the state before it the state of the chain.
LEMMA HonestBatch ==
  ASSUME TreeInv, BlockResolved, gapped = 0, "last" \notin torn,
         tree = ChainState[block - 1],
         NEW s \in OnePerKey(BlockEntries(block)), NEW g, g = Extended(s)
  PROVE  g = ChainState[block]
<1> DEFINE E   == BlockEntries(block)
           new == InitialChanges(block)
           n   == NumKeys(block - 1)
<1>1. /\ pc = "insert" /\ versions > 0 /\ addPc = "idle" /\ block \in Batches
      /\ block \in 0..NumBatches /\ block - 1 \in 0..NumBatches
  BY ResolvedBlock, L2Assumption DEF Batches
<1>2. DOMAIN ChainState[block] = DOMAIN tree \cup {new[j].key : j \in 1..Len(new)}
  BY <1>1, InitialFacts, Zenon
<1>3. ASSUME NEW e \in E
      PROVE  e.key \in DOMAIN ChainState[block] /\ ChainState[block][e.key] = Leaf(e.index, e.value)
  <2>1. CASE e \in InitialEntries(block)
    <3>1. PICK i \in 1..Len(new) :
            /\ e.key = new[i].key /\ e.index = n + i
            /\ e.value = Unpack(new[i].op, ValueIn(tree, new[i].key), new[i].value)
      BY <1>1, <2>1, InitialEntryOf
    <3>2. new[i].key \notin DOMAIN tree
      BY <1>1, InitialFacts, Zenon
    <3>3. e.value = Unpack(new[i].op, 0, new[i].value)
      BY <3>1, <3>2 DEF ValueIn
    <3>4. ChainState[block][new[i].key]
            = [index |-> n + i, value |-> Unpack(new[i].op, 0, new[i].value)]
      BY <1>1, InitialFacts, Zenon
    <3>5. e.key \in DOMAIN ChainState[block]
      BY <1>2, <3>1
    <3>6. ChainState[block][e.key] = [index |-> e.index, value |-> e.value]
      BY <3>1, <3>3, <3>4, Zenon
    <3> QED BY <3>5, <3>6 DEF Leaf
  <2>2. CASE e \in RepeatedEntries(block)
    <3>1. PICK r \in RepeatedChanges(block) :
            /\ e.key = KeyAt(r.index) /\ e.index = r.index
            /\ e.value = Unpack(r.op, ValueIn(tree, e.key), r.value)
      BY <2>2, RepeatedEntryOf
    <3>2. PICK k \in DOMAIN tree :
            /\ tree[k].index = r.index
            /\ ChainState[block][k] = [index |-> r.index, value |-> Unpack(r.op, tree[k].value, r.value)]
      BY <1>1, RepeatedFacts, Zenon
    <3>3. key2idx[k] + 1 = r.index /\ idx2key[key2idx[k]] = k /\ key2idx[k] \in 0..(lastIndex - 1)
      BY <1>1, <3>2, RepeatedFound
    <3>4. KeyAt(r.index) = k
      <4>1. r.index - 1 = key2idx[k]
        BY <3>3
      <4> QED BY <3>3, <4>1 DEF KeyAt
    <3>5. e.key = k /\ e.value = Unpack(r.op, tree[k].value, r.value)
      BY <3>1, <3>2, <3>4 DEF ValueIn
    <3>6. ChainState[block][e.key] = [index |-> e.index, value |-> e.value]
      BY <3>1, <3>2, <3>5, Zenon
    <3>7. e.key \in DOMAIN ChainState[block]
      BY <1>2, <3>2, <3>5
    <3> QED BY <3>6, <3>7 DEF Leaf
  <2> QED BY <2>1, <2>2 DEF BlockEntries
<1>4. ASSUME NEW k \in DOMAIN tree, \A e \in E : e.key # k
      PROVE  ChainState[block][k] = tree[k]
  <2>1. \/ ChainState[block][k] = tree[k]
        \/ \E r \in RepeatedChanges(block) : r.index = tree[k].index
    <3>1. \A l \in DOMAIN ChainState[block - 1] :
            \/ ChainState[block][l] = ChainState[block - 1][l]
            \/ \E r \in RepeatedChanges(block) : r.index = ChainState[block - 1][l].index
      BY <1>1, RepeatedFacts, Zenon
    <3> QED BY <3>1
  <2>2. ASSUME NEW r \in RepeatedChanges(block), r.index = tree[k].index PROVE FALSE
    <3>1. key2idx[k] + 1 = r.index /\ idx2key[key2idx[k]] = k /\ key2idx[k] \in 0..(lastIndex - 1)
      BY <1>1, <2>2, RepeatedFound
    <3>2. r.index - 1 = key2idx[k]
      BY <3>1
    <3>3. KeyAt(r.index) = k
      BY <3>1, <3>2 DEF KeyAt
    <3>4. PICK e \in RepeatedEntries(block) : e.key = KeyAt(r.index)
      BY RepeatedEntryFor
    <3> QED BY <1>4, <3>3, <3>4 DEF BlockEntries
  <2> QED BY <2>1, <2>2
<1>5. \A i \in 1..Len(new) : \E e \in E : e.key = new[i].key
  BY <1>1, InitialEntryFor DEF BlockEntries
<1> HIDE DEF E, new, n
<1>6. EntersOne(g, E)
  <2>1. s \in OnePerKey(E)
    BY DEF E
  <2> QED BY <2>1, OneOfEach
<1>7. DOMAIN g = DOMAIN ChainState[block]
  <2>1. DOMAIN g \subseteq DOMAIN ChainState[block]
    BY <1>2, <1>3, <1>6 DEF EntersOne
  <2>2. DOMAIN ChainState[block] \subseteq DOMAIN g
    BY <1>2, <1>5, <1>6 DEF EntersOne
  <2> QED BY <2>1, <2>2
<1>8. \A k \in DOMAIN g : g[k] = ChainState[block][k]
  BY <1>3, <1>4, <1>6 DEF EntersOne
<1>9. ChainState[block] = [k \in DOMAIN ChainState[block] |-> ChainState[block][k]]
  BY <1>1, StateIsItsLeaves, Zenon
<1> QED BY <1>6, <1>7, <1>8, <1>9 DEF EntersOne

\* What a roll back will find: the old leaves of all keys that the batch wrote.
LEMMA WrittenRollsBack ==
  ASSUME TreeInv, BlockResolved, (gapped = 0 /\ "last" \notin torn) \/ kills = 0,
         KnownAsOf(latestL1Batch), LeavesOf(latestL1Batch),
         NEW s \in OnePerKey(BlockEntries(block)), tree' = Extended(s),
         known' = {[key |-> e.key, index |-> e.index, value |-> ValueIn(tree, e.key)] :
                     e \in BlockEntries(block)},
         latestL1Batch' = latestL1Batch, NEW k \in DOMAIN ChainState[latestL1Batch]
  PROVE  RollsBackTo(latestL1Batch, k)'
<1> DEFINE E == BlockEntries(block)
           c == ChainState[latestL1Batch]
<1>1. /\ pc = "insert" /\ block \in Batches /\ block - 1 \in 0..NumBatches
      /\ PlaceInv /\ TypeInv
  BY ResolvedBlock DEF TreeInv
<1>2. latestL1Batch \in 0..NumBatches /\ latestL1Batch <= block - 1
  BY <1>1, L2Assumption DEF PlaceInv, TypeInv, TreeTypeOK, Batches
<1>3. k \in KnownKeys /\ key2idx[k] + 1 = c[k].index /\ k \in DOMAIN tree /\ tree[k] = c[k]
  BY DEF KnownAsOf, LeavesOf
<1>4. c[k] = Leaf(c[k].index, c[k].value)
  BY <1>2, StateIsItsLeaves, Zenon
<1>5. ASSUME NEW e \in E, e.key = k PROVE e.index = c[k].index
  <2>1. CASE e \in InitialEntries(block)
    <3>1. PICK i \in 1..Len(InitialChanges(block)) : e.key = InitialChanges(block)[i].key
      BY <1>1, <2>1, InitialEntryOf
    <3>2. InitialChanges(block)[i].key \notin DOMAIN ChainState[block - 1]
      BY <1>1, InitialFacts, Zenon
    <3>3. block - 1 \in latestL1Batch..NumBatches
      BY <1>1, <1>2
    <3>4. k \in DOMAIN ChainState[block - 1]
      BY <1>2, <3>3, ChainGrows
    <3> QED BY <1>5, <3>1, <3>2, <3>4
  <2>2. CASE e \in RepeatedEntries(block)
    <3>1. PICK r \in RepeatedChanges(block) : e.key = KeyAt(r.index) /\ e.index = r.index
      BY <2>2, RepeatedEntryOf
    <3>2. key2idx[k] = r.index - 1
      BY <1>5, <3>1, ResolvedIndex
    <3>3. r.index \in Int
      <4>1. PICK l \in DOMAIN ChainState[block - 1] : ChainState[block - 1][l].index = r.index
        BY <1>1, RepeatedKeys
      <4>2. NumKeys(block - 1) \in Nat /\ ChainState[block - 1][l].index \in 1..NumKeys(block - 1)
        BY <1>1, StateFacts, Zenon
      <4> QED BY <4>1, <4>2
    <3> QED BY <1>3, <3>1, <3>2, <3>3
  <2> QED BY <2>1, <2>2 DEF BlockEntries
<1>6. /\ k \in DOMAIN tree'
      /\ (\A e \in E : e.key # k) => tree'[k] = tree[k]
  <2> HIDE DEF E
  <2>1. s \in OnePerKey(E)
    BY DEF E
  <2>2. EntersOne(tree', E)
    BY <2>1, OneOfEach
  <2> QED BY <1>3, <2>2 DEF EntersOne
<1>7. \A d \in known' : \E e \in E : d.key = e.key /\ d.index = e.index /\ d.value = ValueIn(tree, e.key)
  <2> HIDE DEF E
  <2>1. known' = {[key |-> e.key, index |-> e.index, value |-> ValueIn(tree, e.key)] : e \in E}
    BY DEF E
  <2> QED BY <2>1
<1>8. \A e \in E : \E d \in known' : d.key = e.key
  <2> HIDE DEF E
  <2>1. known' = {[key |-> e.key, index |-> e.index, value |-> ValueIn(tree, e.key)] : e \in E}
    BY DEF E
  <2>2. ASSUME NEW e \in E PROVE \E d \in known' : d.key = e.key
    <3>1. [key |-> e.key, index |-> e.index, value |-> ValueIn(tree, e.key)] \in known'
      BY <2>1
    <3> QED BY <3>1
  <2> QED BY <2>2
<1>9. ASSUME NEW d \in known', d.key = k PROVE Leaf(d.index, d.value) = c[k]
  <2>1. PICK e \in E : d.key = e.key /\ d.index = e.index /\ d.value = ValueIn(tree, e.key)
    BY <1>7
  <2>2. d.index = c[k].index /\ d.value = c[k].value
    BY <1>3, <1>5, <1>9, <2>1 DEF ValueIn
  <2> QED BY <1>4, <2>2
<1>10. (\A d \in known' : d.key # k) => tree'[k] = c[k]
  BY <1>3, <1>6, <1>8
<1> QED BY <1>6, <1>9, <1>10 DEF RollsBackTo
\* The tree is extended and its root compared: an honest batch is accepted, and
\* of any other the leaves of the batch before can be brought back.
LEMMA ExtendTreeKeeps ==
  ASSUME TreeInv, ExtendTree
  PROVE  /\ TreeInv' /\ (~Spoilt' => ~Spoilt) /\ (~Spoilt' /\ StoreInv => StoreInv')
         /\ pc' \in {"persist", "rollback"} /\ pc = "insert" /\ block \in Batches
         /\ gapped = 0 => block = latestL1Batch + 1
         /\ pc' = "persist" => block \notin BadBatches /\ tree' = ChainState[block]
<1> DEFINE E == BlockEntries(block)
<1>1. PICK s \in OnePerKey(E) :
        /\ tree' = Extended(s)
        /\ pc' = IF RootMatches(block, tree') THEN "persist" ELSE "rollback"
  BY DEF ExtendTree
<1>2. /\ BlockResolved /\ versions' = versions + 1
      /\ known' = {[key |-> e.key, index |-> e.index, value |-> ValueIn(tree, e.key)] : e \in E}
      /\ UNCHANGED <<idx2key, key2idx, lastIndex, addPc, addKey, kills, dirExists>>
      /\ UNCHANGED <<latestL1Batch, block, pos, offer, sessions, torn, gapped>>
  BY DEF ExtendTree, keyVars, history
<1>3. KeyInv /\ TypeInv /\ PlaceInv /\ FoundInv /\ OrderInv /\ UnkilledStores
  BY DEF TreeInv
<1>4. /\ pc = "insert" /\ versions > 0 /\ addPc = "idle" /\ dirExists
      /\ block \in Batches /\ block - 1 \in 0..NumBatches /\ block \in 0..NumBatches
      /\ \A j \in 1..Len(InitialChanges(block)) : InitialChanges(block)[j].key \in KnownKeys
      /\ KnownKeys' = KnownKeys
  BY <1>2, ResolvedBlock, L2Assumption DEF Batches, KnownKeys
<1>5. \A e \in E : e.key \in Keys /\ e.index \in Nat /\ e.value \in Words
  BY <1>2, EntriesTyped
<1>6. s \subseteq E /\ EntersOne(tree', E)
  BY <1>1, OneOfEach
<1>7. /\ pc' \in {"persist", "rollback"}
      /\ pc' = "persist" => block \notin BadBatches /\ tree' = ChainState[block]
      /\ pc' = "rollback" => block \in BadBatches \/ tree' # ChainState[block]
  BY <1>1 DEF RootMatches
<1> HIDE DEF E
<1>8. \A d \in known' : \E e \in E :
        d.key = e.key /\ d.index = e.index /\ d.value = ValueIn(tree, e.key)
  BY <1>2
<1>9. kills = 0 => DOMAIN tree' \subseteq KnownKeys
  <2>1. kills = 0 => \A e \in E : e.key \in KnownKeys
    BY <1>2, EntryKeysKnown DEF E
  <2> QED BY <1>3, <1>6, <2>1 DEF UnkilledStores, EntersOne
<1>10. InOrder' => InOrder
  <2> SUFFICES ASSUME InOrder', gapped # 0 PROVE InOrder
    BY DEF InOrder
  <2>1. gapped = sessions /\ kills = 0 /\ pc' = "persist"
    BY <1>2, <1>4, <1>7 DEF InOrder, Batches
  <2>2. DOMAIN ChainState[block] \subseteq KnownKeys
    BY <1>7, <1>9, <2>1
  <2>3. DOMAIN ChainState[block - 1] \subseteq DOMAIN ChainState[block]
    <3>1. DOMAIN ChainState[block]
            = DOMAIN ChainState[block - 1]
                \cup {InitialChanges(block)[j].key : j \in 1..Len(InitialChanges(block))}
      BY <1>4, InitialFacts, Zenon
    <3> QED BY <3>1
  <2> QED BY <1>4, <2>1, <2>2, <2>3 DEF InOrder
<1>11. KeyInv' /\ FoundInv' /\ OrderInv'
  BY <1>2, <1>10, SameIndex
<1>12. UnkilledStores'
  BY <1>2, <1>3, <1>4, <1>9 DEF UnkilledStores, HasKey
<1>13. TypeInv'
  <2>1. /\ DOMAIN tree' \subseteq Keys
        /\ \A k \in DOMAIN tree' : tree'[k].index \in Nat /\ tree'[k].value \in Words
        /\ tree' = [k \in DOMAIN tree' |-> [index |-> tree'[k].index, value |-> tree'[k].value]]
    <3>1. \A e \in s : e.key \in Keys /\ e.index \in Nat /\ e.value \in Words
      BY <1>5, <1>6
    <3> QED BY <1>1, <1>3, <3>1, ExtendedTyped
  <2>2. versions' \in Nat
    BY <1>2, <1>3 DEF TypeInv, TreeTypeOK
  <2>3. TreeTypeOK'
    BY <1>2, <1>3, <1>7, <1>11, <2>1, <2>2 DEF TypeInv, TreeTypeOK, KeyInv
  <2>4. \A d \in known' : d.key \in Keys /\ d.index \in Nat /\ d.value \in Words
    BY <1>3, <1>5, <1>8, TreeWords
  <2> QED BY <1>2, <1>3, <2>1, <2>3, <2>4 DEF TypeInv
<1>14. PlaceInv'
  <2>1. \A d \in known' : d.key \in DOMAIN tree'
    BY <1>6, <1>8 DEF EntersOne
  <2> QED BY <1>2, <1>3, <1>4, <1>7, <2>1 DEF PlaceInv
<1>15. ~Spoilt' => ~Spoilt
  BY <1>2 DEF Spoilt
<1>16. ASSUME ~Spoilt, StoreInv PROVE StoreInv'
  <2>1. KnownAsOf(latestL1Batch) /\ LeavesOf(latestL1Batch)
    BY <1>4, <1>16 DEF StoreInv
  <2>2. torn = {} /\ (gapped = 0 \/ (gapped = sessions /\ kills = 0))
    BY <1>16 DEF Spoilt
  <2>3. KnownAsOf(latestL1Batch)' /\ versions' > 0
    BY <1>2, <1>3, <1>4, <2>1 DEF KnownAsOf, TypeInv, TreeTypeOK
  <2>4. ASSUME pc' = "persist" PROVE tree' = ChainState[block] /\ KnownAsOf(block)'
    <3>1. DOMAIN ChainState[block] \subseteq KnownKeys
      <4>1. CASE gapped = 0
        <5>1. DOMAIN ChainState[block - 1] \subseteq KnownKeys
          BY <1>3, <1>4, <4>1 DEF PlaceInv
        <5>2. DOMAIN ChainState[block]
                = DOMAIN ChainState[block - 1]
                    \cup {InitialChanges(block)[j].key : j \in 1..Len(InitialChanges(block))}
          BY <1>4, InitialFacts, Zenon
        <5> QED BY <1>4, <5>1, <5>2
      <4>2. CASE kills = 0
        BY <1>7, <1>9, <2>4, <4>2
      <4> QED BY <2>2, <4>1, <4>2
    <3>2. InOrder
      <4>1. InOrder'
        BY <1>2, <2>2, <2>4 DEF InOrder
      <4> QED BY <1>10, <4>1
    <3>3. Ordered
      BY <1>3, <2>2, <3>2 DEF OrderInv
    <3>4. KnownAsOf(block)
      BY <1>4, <3>1, <3>3, OrderedKnown
    <3> QED BY <1>2, <1>4, <1>7, <2>4, <3>4 DEF KnownAsOf
  <2>5. ASSUME NEW k \in DOMAIN ChainState[latestL1Batch] PROVE RollsBackTo(latestL1Batch, k)'
    <3>1. (gapped = 0 /\ "last" \notin torn) \/ kills = 0
      BY <2>2
    <3> QED BY <1>1, <1>2, <2>1, <3>1, WrittenRollsBack DEF E
  <2>6. ASSUME gapped = 0, pc' = "rollback" PROVE block \in BadBatches
    <3>1. block = latestL1Batch + 1 /\ latestL1Batch \in Nat
      BY <1>3, <1>4, <2>6 DEF PlaceInv, TypeInv, TreeTypeOK
    <3>2. tree = ChainState[latestL1Batch] \/ latestL1Batch + 1 \in BadBatches
      BY <1>4, <1>16, <2>6 DEF StoreInv
    <3>3. block - 1 = latestL1Batch
      BY <3>1
    <3>4. tree = ChainState[block - 1] => tree' = ChainState[block]
      BY <1>1, <1>2, <2>2, <2>6, HonestBatch DEF E
    <3> QED BY <1>7, <2>6, <3>1, <3>2, <3>3, <3>4
  <2> QED BY <1>2, <1>4, <1>7, <2>3, <2>4, <2>5, <2>6 DEF StoreInv
<1>17. gapped = 0 => block = latestL1Batch + 1
  BY <1>3, <1>4 DEF PlaceInv
<1> QED BY <1>4, <1>7, <1>11, <1>12, <1>13, <1>14, <1>15, <1>16, <1>17 DEF TreeInv

\* The old leaves are written back.
LEMMA RollBackKeeps ==
  ASSUME TreeInv, RollBack
  PROVE  TreeInv' /\ (~Spoilt' => ~Spoilt) /\ (StoreInv => StoreInv')
<1>1. PICK s \in OnePerKey(known) : tree' = Extended(s)
  BY DEF RollBack
<1>2. /\ pc = "rollback" /\ pc' = "rejected" /\ versions' = versions + 1
      /\ UNCHANGED <<idx2key, key2idx, lastIndex, addPc, addKey, kills, dirExists>>
      /\ UNCHANGED <<latestL1Batch, block, pos, known, offer, sessions, torn, gapped>>
  BY DEF RollBack, keyVars, history
<1>3. KeyInv /\ TypeInv /\ PlaceInv
  BY DEF TreeInv
<1>4. /\ \A e \in known : e.key \in DOMAIN tree
      /\ addPc = "idle" /\ dirExists /\ block \in Batches /\ KnownKeys' = KnownKeys
  BY <1>2, <1>3 DEF PlaceInv, KnownKeys
<1>5. s \subseteq known /\ EntersOne(tree', known)
  BY <1>1, OneOfEach
<1>6. DOMAIN tree' = DOMAIN tree
  <2>1. {e.key : e \in known} \subseteq DOMAIN tree
    BY <1>4
  <2>2. DOMAIN tree' = DOMAIN tree \cup {e.key : e \in known}
    BY <1>5 DEF EntersOne
  <2> QED BY <2>1, <2>2
<1>7. KeyInv' /\ FoundInv' /\ OrderInv' /\ UnkilledStores'
  <2>1. InOrder' => InOrder
    BY <1>2 DEF InOrder
  <2> QED BY <1>2, <1>6, <2>1, SameIndex
<1>8. TypeInv'
  <2>1. /\ DOMAIN tree' \subseteq Keys
        /\ \A k \in DOMAIN tree' : tree'[k].index \in Nat /\ tree'[k].value \in Words
        /\ tree' = [k \in DOMAIN tree' |-> [index |-> tree'[k].index, value |-> tree'[k].value]]
    <3>1. \A e \in s : e.key \in Keys /\ e.index \in Nat /\ e.value \in Words
      BY <1>3, <1>5 DEF TypeInv
    <3> QED BY <1>1, <1>3, <3>1, ExtendedTyped
  <2>2. versions' \in Nat
    BY <1>2, <1>3 DEF TypeInv, TreeTypeOK
  <2>3. TreeTypeOK'
    BY <1>2, <1>3, <1>7, <2>1, <2>2 DEF TypeInv, TreeTypeOK, KeyInv
  <2> QED BY <1>2, <1>3, <2>1, <2>3 DEF TypeInv
<1>9. PlaceInv'
  BY <1>2, <1>3, <1>4 DEF PlaceInv
<1>10. ~Spoilt' => ~Spoilt
  BY <1>2 DEF Spoilt
<1>11. ASSUME StoreInv PROVE StoreInv'
  <2>1. /\ versions > 0 /\ KnownAsOf(latestL1Batch)
        /\ \A k \in DOMAIN ChainState[latestL1Batch] : RollsBackTo(latestL1Batch, k)
        /\ gapped = 0 => block \in BadBatches
    BY <1>2, <1>4, <1>11 DEF StoreInv
  <2>2. LeavesOf(latestL1Batch)'
    <3> SUFFICES ASSUME NEW k \in DOMAIN ChainState[latestL1Batch]
                 PROVE  k \in DOMAIN tree' /\ tree'[k] = ChainState[latestL1Batch][k]
      BY <1>2 DEF LeavesOf
    <3>1. RollsBackTo(latestL1Batch, k)
      BY <2>1
    <3> QED BY <1>5, <1>6, <3>1 DEF RollsBackTo, EntersOne
  <2>3. gapped = 0 => latestL1Batch + 1 \in BadBatches
    BY <1>2, <1>3, <2>1 DEF PlaceInv
  <2>4. versions' > 0 /\ KnownAsOf(latestL1Batch)'
    BY <1>2, <1>3, <1>4, <2>1 DEF KnownAsOf, TypeInv, TreeTypeOK
  <2> QED BY <1>2, <2>1, <2>2, <2>3, <2>4 DEF StoreInv
<1> QED BY <1>7, <1>8, <1>9, <1>10, <1>11 DEF TreeInv
-----------------------------------------------------------------------------
(***************************************************************************)
(* The processor as a whole.                                               *)
(***************************************************************************)
\* Before the first session both stores are empty.
LEMMA TreeInitInv == TreeInit => TreeInv /\ StoreInv
<1> SUFFICES ASSUME TreeInit PROVE TreeInv /\ StoreInv
  OBVIOUS
<1>1. /\ KeyInit /\ kills = 0 /\ dirExists = FALSE /\ DOMAIN tree = {} /\ versions = 0
      /\ latestL1Batch = 0 /\ pc = "closed" /\ block = 0 /\ pos = 1 /\ known = {} /\ offer = 1
      /\ sessions = 0 /\ torn = {} /\ gapped = 0
      /\ tree = [k \in DOMAIN tree |-> [index |-> tree[k].index, value |-> tree[k].value]]
  BY DEF TreeInit, Leaf
<1>2. KeyInv /\ DOMAIN key2idx = {} /\ DOMAIN idx2key = {} /\ addPc = "idle"
  BY <1>1, KeyInitInv DEF DbInit, KeyInit
<1>3. TypeInv
  <2>1. TreeTypeOK
    BY <1>1, <1>2, L2Assumption DEF TreeTypeOK, KeyInv
  <2> QED BY <1>1, <2>1 DEF TypeInv
<1>4. PlaceInv
  BY <1>1, <1>2 DEF PlaceInv
<1>5. FoundInv /\ OrderInv /\ UnkilledStores
  BY <1>1, <1>2 DEF FoundInv, OrderInv, Ordered, UnkilledStores, KnownKeys, HasKey
<1>6. StoreInv
  BY <1>1 DEF StoreInv
<1> QED BY <1>2, <1>3, <1>4, <1>5, <1>6 DEF TreeInv

\* Every step of a processor that runs.
LEMMA TreeStepKeeps ==
  ASSUME TreeInv, TreeStep
  PROVE  TreeInv' /\ (~Spoilt' => ~Spoilt) /\ (~Spoilt' /\ StoreInv => StoreInv')
<1>1. CASE AddGenesisKeys
  <2>1. ~Spoilt' => ~Spoilt
    BY <1>1 DEF AddGenesisKeys, AddKeys, history, Spoilt
  <2> QED BY <1>1, <2>1, AddGenesisKeysKeeps
<1>2. CASE ExtendGenesis
  <2>1. ~Spoilt' => ~Spoilt
    BY <1>2 DEF ExtendGenesis, keyVars, history, Spoilt
  <2> QED BY <1>2, <2>1, ExtendGenesisKeeps
<1>3. CASE AddKeyWrite
  <2>1. ~Spoilt' => ~Spoilt
    BY <1>3 DEF AddKeyWrite, history, Spoilt
  <2> QED BY <1>3, <2>1, AddKeyWriteKeeps
<1> QED
  BY <1>1, <1>2, <1>3, SkipBlockKeeps, ReceiveBlockKeeps, AddInitialKeysKeeps,
     InsertPanicsKeeps, ExtendTreeKeeps, RollBackKeeps, PersistBatchKeeps DEF TreeStep

\* Steps of whoever runs the processor.
LEMMA TreeStutters ==
  ASSUME TreeInv, UNCHANGED allVars
  PROVE  TreeInv' /\ (~Spoilt' => ~Spoilt) /\ (StoreInv => StoreInv')
<1>1. /\ UNCHANGED <<idx2key, key2idx, lastIndex, addPc, addKey, kills, dirExists>>
      /\ UNCHANGED <<tree, versions, latestL1Batch, pc, block, pos, known, offer>>
      /\ UNCHANGED <<sessions, torn, gapped>>
  BY DEF allVars, keyVars, treeVars, procVars, history
<1>2. KnownKeys' = KnownKeys
  BY <1>1 DEF KnownKeys
<1>3. KeyInv' /\ FoundInv' /\ OrderInv' /\ UnkilledStores'
  <2>1. InOrder' => InOrder
    BY <1>1, <1>2 DEF InOrder
  <2> QED BY <1>1, <2>1, SameIndex
<1>4. TypeInv /\ PlaceInv
  BY DEF TreeInv
<1>5. TypeInv'
  <2>1. KeyTypeOK'
    BY <1>3 DEF KeyInv
  <2> QED BY <1>1, <1>4, <2>1, SameTree DEF TypeInv, TreeTypeOK
<1>6. PlaceInv'
  BY <1>1, <1>2, <1>4 DEF PlaceInv, InitialChanges
<1>7. (~Spoilt' => ~Spoilt) /\ (StoreInv => StoreInv')
  BY <1>1, <1>2 DEF Spoilt, StoreInv, KnownAsOf, LeavesOf, RollsBackTo
<1> QED BY <1>3, <1>5, <1>6, <1>7 DEF TreeInv

=============================================================================
