---------------------------- MODULE TreeProcessor ----------------------------
(***************************************************************************)
(* The tree processor: it opens the tree and the database, rebuilds the    *)
(* genesis state the first time, and inserts batch after batch             *)
(* (TreeProcessor::new and run, TreeWrapper::insert_block).                *)
(*                                                                         *)
(* The tree and the database are two stores that are written one after the *)
(* other; the process may be killed between any two writes.  The fetcher   *)
(* offers batches in order, from some batch at or before the one that is   *)
(* due on; with Gaps it may also start past it.  The sessions this module  *)
(* is run in are those of FileImport and SnapshotTransfer.                 *)
(***************************************************************************)
EXTENDS KeyIndexDb, L2Ledger

CONSTANTS
  Gaps,        \* the fetcher may start past the batch that is due
  MaxSessions  \* bound: how often the tool is started

ASSUME TreeAssumption ==
  /\ Gaps \in BOOLEAN /\ MaxSessions \in Nat
  /\ KeysOf(Genesis) \subseteq Keys
  /\ \A b \in Batches : KeysOf(Diffs[b]) \subseteq Keys

VARIABLES
  dirExists,      \* the database directory was created
  tree,           \* the latest version of the Merkle tree
  versions,       \* how many versions the tree has
  latestL1Batch,  \* LATEST_L1_BATCH in the database
  pc,             \* where the processor is; "closed" when it does not run,
                  \* "import" while SnapshotTransfer restores a snapshot
  block,          \* the batch it works on
  pos,            \* how far it is in a list of keys to add
  known,          \* index_to_key and key_to_value: what to roll back to
  offer,          \* the batch the fetcher sends next
  sessions,       \* how often the tool was started
  torn,           \* history: the pairs of writes that kills came between
  gapped          \* history: the first session that went on without a batch:
                  \* it started past the one that was due, or gave keys an
                  \* index while keys of earlier batches had none; or 0

treeVars == <<tree, versions>>
procVars == <<pc, block, pos, known, offer>>
history  == <<torn, gapped>>
allVars  == <<keyVars, dirExists, treeVars, latestL1Batch, procVars, sessions, history>>

-----------------------------------------------------------------------------
Leaf(i, v) == [index |-> i, value |-> v]

\* MerkleTree::extend with one entry [key, index, value] for each written key.
Extended(entries) ==
  LET of(k) == CHOOSE e \in entries : e.key = k
      ks    == {e.key : e \in entries}
  IN  [k \in DOMAIN tree \cup ks |->
        IF k \in ks THEN Leaf(of(k).index, of(k).value) ELSE tree[k]]

\* The subsets of entries that keep one entry of each key: a key that was
\* entered twice gets the one or the other.
OnePerKey(entries) ==
  {s \in SUBSET entries :
     /\ {e.key : e \in s} = {e.key : e \in entries}
     /\ \A d, e \in s : d.key = e.key => d = e}

\* A mutant: the index of a key is taken before those of its block are known.
FirstIndexLate(b) == IndexRepeated(b)

\* The index of the first initial change of batch b.
FirstIndex(b) == IndexRepeated(b) - Len(InitialChanges(b))

\* A mutant: the index of the repeated changes is used as it is.
KeyAtUnshifted(i) == idx2key[IF HasKey(i) THEN i ELSE i - 1]

\* get_key: indices on L1 start at 1, those of the database at 0.
KeyAt(i) == idx2key[i - 1]

\* process_value: the word that a packed write leaves under key k.
ProcessValue(k, op, v) ==
  LET old == ValueIn(tree, k)
  IN  CASE op = "add" -> (old + v) % Modulus
        [] op = "sub" -> (old - v) % Modulus
        [] OTHER      -> v

InitialEntries(b) ==
  LET s == InitialChanges(b)
  IN  {[key |-> s[i].key, index |-> FirstIndex(b) + i - 1,
        value |-> ProcessValue(s[i].key, s[i].op, s[i].value)] :
         i \in DOMAIN s}

RepeatedEntries(b) ==
  {[key |-> KeyAt(r.index), index |-> r.index,
    value |-> ProcessValue(KeyAt(r.index), r.op, r.value)] :
      r \in RepeatedChanges(b)}

BlockEntries(b) == InitialEntries(b) \cup RepeatedEntries(b)

-----------------------------------------------------------------------------
\* One step of a loop that calls add_key for each key of a list in turn; the
\* writes of add_key are steps of their own.
AddKeys(keys) ==
  /\ addPc = "idle"
  /\ pos <= Len(keys)
  /\ \/ /\ keys[pos].key \in KnownKeys
        /\ pos' = pos + 1
        /\ UNCHANGED <<dbVars, addPc, addKey>>
     \/ BeginAdd(keys[pos].key) /\ UNCHANGED pos
  /\ UNCHANGED <<kills, dirExists, treeVars, latestL1Batch, pc, block, known,
                 offer, sessions, history>>

KeysAdded(keys) == addPc = "idle" /\ pos > Len(keys)

AddKeyWrite ==
  /\ AddStep
  /\ UNCHANGED <<kills, dirExists, treeVars, latestL1Batch, procVars, sessions,
                 history>>

\* TreeProcessor::new: genesis only if the directory does not exist yet.
Open ==
  /\ pc = "closed"
  /\ sessions < MaxSessions
  /\ sessions' = sessions + 1
  /\ \E b \in Batches : (b <= latestL1Batch + 1 \/ Gaps) /\ offer' = b
  /\ gapped' = IF gapped = 0 /\ offer' > latestL1Batch + 1 THEN sessions' ELSE gapped
  /\ dirExists' = TRUE
  /\ pc' = IF dirExists THEN "recv" ELSE "genesis"
  /\ pos' = 1
  /\ block' = 0
  /\ known' = {}
  /\ UNCHANGED <<keyVars, treeVars, latestL1Batch, torn>>

\* reconstruct_genesis_state.
AddGenesisKeys == pc = "genesis" /\ AddKeys(Genesis)

ExtendGenesis ==
  /\ pc = "genesis"
  /\ KeysAdded(Genesis)
  /\ tree' = Extended({[key |-> Genesis[i].key, index |-> i,
                        value |-> Genesis[i].value] : i \in DOMAIN Genesis})
  /\ versions' = versions + 1
  /\ pc' = "recv"
  /\ UNCHANGED <<keyVars, dirExists, latestL1Batch, block, pos, known, offer,
                 sessions, history>>

-----------------------------------------------------------------------------
SkipBlock ==
  /\ pc = "recv"
  /\ offer <= NumBatches
  /\ latestL1Batch >= offer
  /\ offer' = offer + 1
  /\ UNCHANGED <<keyVars, dirExists, treeVars, latestL1Batch, pc, block, pos,
                 known, sessions, history>>

\* The keys of batch b would get indices although keys before them have none.
KeysMissing(b) == versions > 0 /\ ~(DOMAIN ChainState[b - 1] \subseteq KnownKeys)

\* clear_known_base, and on to insert_block.
ReceiveBlock ==
  /\ pc = "recv"
  /\ offer <= NumBatches
  /\ latestL1Batch < offer
  /\ block' = offer
  /\ offer' = offer + 1
  /\ pos' = 1
  /\ known' = {}
  /\ pc' = "insert"
  /\ gapped' = IF gapped = 0 /\ KeysMissing(offer) THEN sessions ELSE gapped
  /\ UNCHANGED <<keyVars, dirExists, treeVars, latestL1Batch, sessions, torn>>

AddInitialKeys ==
  /\ pc = "insert"
  /\ versions > 0
  /\ AddKeys(InitialChanges(block))

\* process_value finds no version, or get_key no key: the task panics.
InsertPanics ==
  /\ pc = "insert"
  /\ \/ versions = 0
     \/ /\ KeysAdded(InitialChanges(block))
        /\ \E r \in RepeatedChanges(block) : ~HasKey(r.index - 1)
  /\ pc' = "panicked"
  /\ UNCHANGED <<keyVars, dirExists, treeVars, latestL1Batch, block, pos, known,
                 offer, sessions, history>>

\* Every key of the block is known.
BlockResolved ==
  /\ pc = "insert"
  /\ versions > 0
  /\ KeysAdded(InitialChanges(block))
  /\ \A r \in RepeatedChanges(block) : HasKey(r.index - 1)

\* The tree is extended and its root compared with the published one.
ExtendTree ==
  /\ BlockResolved
  /\ \E entries \in OnePerKey(BlockEntries(block)) :
       /\ tree' = Extended(entries)
       /\ pc' = IF RootMatches(block, tree') THEN "persist" ELSE "rollback"
  /\ known' = {[key |-> e.key, index |-> e.index, value |-> ValueIn(tree, e.key)] :
                 e \in BlockEntries(block)}
  /\ versions' = versions + 1
  /\ UNCHANGED <<keyVars, dirExists, latestL1Batch, block, pos, offer, sessions,
                 history>>

\* A mutant: the old values are not written back.
RollBackNothing ==
  /\ pc = "rollback"
  /\ tree' = tree
  /\ versions' = versions + 1
  /\ pc' = "rejected"
  /\ UNCHANGED <<keyVars, dirExists, latestL1Batch, block, pos, known, offer,
                 sessions, history>>

\* The old values are written back as a further version; the processor returns.
RollBack ==
  /\ pc = "rollback"
  /\ \E entries \in OnePerKey(known) : tree' = Extended(entries)
  /\ versions' = versions + 1
  /\ pc' = "rejected"
  /\ UNCHANGED <<keyVars, dirExists, latestL1Batch, block, pos, known, offer,
                 sessions, history>>

PersistBatch ==
  /\ pc = "persist"
  /\ latestL1Batch' = block
  /\ pc' = "recv"
  /\ UNCHANGED <<keyVars, dirExists, treeVars, block, pos, known, offer, sessions,
                 history>>

\* The channel is closed, or the processor gave up: the program ends.
Close ==
  /\ pc \in {"recv", "rejected", "panicked"}
  /\ pc' = "closed"
  /\ UNCHANGED <<keyVars, dirExists, treeVars, latestL1Batch, block, pos, known,
                 offer, sessions, history>>

\* The writes that a kill would separate although they belong together: those of
\* the genesis state, a write of the tree and the one that follows it, and the
\* last two writes of add_key.
OpenWrites ==
  ({pc} \cap {"genesis", "persist", "rollback"}) \cup ({addPc} \cap {"last"})

KillProcessor ==
  /\ pc \notin {"closed", "rejected", "panicked"}
  /\ kills < MaxKills
  /\ kills' = kills + 1
  /\ KillAdd
  /\ pc' = "closed"
  /\ torn' = torn \cup OpenWrites
  /\ UNCHANGED <<dirExists, treeVars, latestL1Batch, block, pos, known, offer,
                 sessions, gapped>>

-----------------------------------------------------------------------------
TreeInit ==
  /\ KeyInit /\ kills = 0
  /\ dirExists = FALSE
  /\ tree = [k \in {} |-> Leaf(0, 0)] /\ versions = 0
  /\ latestL1Batch = 0
  /\ pc = "closed" /\ block = 0 /\ pos = 1 /\ known = {} /\ offer = 1
  /\ sessions = 0 /\ torn = {} /\ gapped = 0

TreeStep ==
  \/ AddGenesisKeys \/ ExtendGenesis \/ SkipBlock \/ ReceiveBlock \/ AddInitialKeys
  \/ AddKeyWrite \/ InsertPanics \/ ExtendTree \/ RollBack \/ PersistBatch

-----------------------------------------------------------------------------
(***************************************************************************)
(* Properties                                                              *)
(***************************************************************************)
\* The type invariant of the tree processor.
TreeTypeOK ==
  /\ KeyTypeOK
  /\ DOMAIN tree \subseteq Keys
  /\ \A k \in DOMAIN tree : tree[k].index \in Nat /\ tree[k].value \in Words
  /\ versions \in Nat
  /\ latestL1Batch \in 0..NumBatches
  /\ pc \in {"closed", "genesis", "recv", "insert", "persist", "rollback",
             "rejected", "panicked", "import"}
  /\ torn \subseteq {"genesis", "persist", "rollback", "last"}
  /\ block \in 0..NumBatches /\ offer \in 1..(NumBatches + 1) /\ pos \in Nat

\* A kill came between two writes that belong together, or a session started
\* past the batch that was due.
Harmed == torn # {} \/ gapped # 0

ReplayedBatch == IF pc = "persist" THEN block ELSE latestL1Batch

\* Until it is harmed the local tree goes through the states of the chain, batch
\* by batch, indices included, whichever batches are sent again and wherever
\* else it is killed: packed differences and index lookups agree with the keys
\* the chain enumerated.  A wrong batch that is rejected is no part of the replay.
Replay == INSTANCE L2Replay WITH state <- tree, batch <- ReplayedBatch
ChainIsReplayed ==
  /\ Replay!ReplayInit
  /\ [][~Harmed' /\ ~(pc \in {"insert", "rollback"} /\ block \in BadBatches)
         => Replay!ReplayNext]_<<tree, ReplayedBatch>>

=============================================================================
