-------------------------- MODULE SnapshotTransfer --------------------------
(***************************************************************************)
(* `reconstruct --snapshot`: a session that first restores the tree from   *)
(* the chunks an export has written, and then goes on from there           *)
(* (SnapshotExporter::export_storage_logs, SnapshotImporter::run,          *)
(* TreeWrapper::restore_from_snapshot).                                    *)
(*                                                                         *)
(*   files --> reading task --> key task (add_key) --> tree (extend)       *)
(*                                                                         *)
(* The snapshot is that of a whole batch, as SnapshotIsTheChain says of    *)
(* the database it comes from.  The reading task stops at a chunk it       *)
(* cannot read; the tasks behind it take that for the end.  Nothing        *)
(* depends on how far it has read ahead, so that it has no steps here.     *)
(***************************************************************************)
EXTENDS TreeProcessor

CONSTANTS
  Snapshots,  \* the batches whose snapshots there are
  ChunkSize   \* SNAPSHOT_CHUNK_SIZE

ASSUME TransferAssumption ==
  Snapshots \subseteq Batches /\ ChunkSize \in Nat \ {0}

VARIABLES
  importPc,   \* "off", "genesis", "chunks" or "done" in a session
  snapBatch,  \* l1_batch_number of the header, 0 without an import
  readable,   \* how many chunks can be read before one fails
  keyChunks,  \* chunks whose keys are added and that were sent to the tree
  treeChunks, \* chunks the tree was extended with
  base        \* history: what the last import left behind

importVars   == <<importPc, snapBatch, readable, keyChunks, treeChunks, base>>
transferVars == <<allVars, importVars>>

-----------------------------------------------------------------------------
\* The key of the log with enumeration index i after batch b.
LogKey(b, i) == CHOOSE k \in DOMAIN ChainState[b] : ChainState[b][k].index = i

\* A mutant: the log carries the index the database has for the key.
LogAtFromZero(b, i) ==
  [key |-> LogKey(b, i), index |-> i - 1, value |-> ChainState[b][LogKey(b, i)].value]

\* The i-th log of the snapshot of b, in the order of INDEX_TO_KEY_MAP.
LogAt(b, i) ==
  [key |-> LogKey(b, i), index |-> i, value |-> ChainState[b][LogKey(b, i)].value]

NumLogs(b) == IndexRepeated(b) - 1

\* A mutant: the number of chunks is rounded down.
NumChunksFloor(b) == NumLogs(b) \div ChunkSize

NumChunks(b) == (NumLogs(b) + ChunkSize - 1) \div ChunkSize

\* Chunk c of the export: ChunkSize logs, or what is left of them.
ChunkLen(b, c) ==
  IF c * ChunkSize <= NumLogs(b) THEN ChunkSize ELSE NumLogs(b) - (c - 1) * ChunkSize

Chunk(b, c) == [i \in 1..ChunkLen(b, c) |-> LogAt(b, (c - 1) * ChunkSize + i)]

\* The database knows a key that the snapshot does not have.
HoldsMoreThan(b) == ~(KnownKeys \cup DOMAIN tree \subseteq DOMAIN ChainState[b])

-----------------------------------------------------------------------------
\* new_snapshot_wrapper: the genesis state is rebuilt whether or not there is a
\* database.
BeginImport ==
  /\ pc = "closed"
  /\ sessions < MaxSessions
  /\ sessions' = sessions + 1
  /\ \E b \in Snapshots :
       /\ snapBatch' = b
       /\ readable' \in 0..NumChunks(b)
       /\ base' = IF HoldsMoreThan(b) THEN "overlaid" ELSE "partial"
  /\ dirExists' = TRUE
  /\ pc' = "import" /\ importPc' = "genesis"
  /\ keyChunks' = 0 /\ treeChunks' = 0
  /\ pos' = 1 /\ block' = 0 /\ known' = {}
  /\ UNCHANGED <<keyVars, treeVars, latestL1Batch, offer, history>>

ImportGenesisKeys ==
  /\ importPc = "genesis" /\ pc = "import"
  /\ AddKeys(Genesis)
  /\ UNCHANGED importVars

ImportGenesis ==
  /\ importPc = "genesis" /\ pc = "import"
  /\ KeysAdded(Genesis)
  /\ tree' = Extended({[key |-> Genesis[i].key, index |-> i,
                        value |-> Genesis[i].value] : i \in DOMAIN Genesis})
  /\ versions' = versions + 1
  /\ importPc' = "chunks"
  /\ pos' = 1
  /\ UNCHANGED <<keyVars, dirExists, latestL1Batch, pc, block, known, offer,
                 sessions, history, snapBatch, readable, keyChunks, treeChunks,
                 base>>

\* The key task: the keys of the next chunk, one after the other.
AddChunkKeys ==
  /\ importPc = "chunks" /\ pc = "import"
  /\ keyChunks < readable
  /\ AddKeys(Chunk(snapBatch, keyChunks + 1))
  /\ UNCHANGED importVars

\* A mutant: the channel to the tree takes one chunk more.
SendChunkMore ==
  /\ importPc = "chunks" /\ pc = "import"
  /\ keyChunks < readable
  /\ KeysAdded(Chunk(snapBatch, keyChunks + 1))
  /\ keyChunks - treeChunks < 3
  /\ keyChunks' = keyChunks + 1
  /\ pos' = 1
  /\ UNCHANGED <<keyVars, dirExists, treeVars, latestL1Batch, pc, block, known,
                 offer, sessions, history, importPc, snapBatch, readable,
                 treeChunks, base>>

\* tree_tx takes one chunk while the tree works on another.
SendChunk ==
  /\ importPc = "chunks" /\ pc = "import"
  /\ keyChunks < readable
  /\ KeysAdded(Chunk(snapBatch, keyChunks + 1))
  /\ keyChunks - treeChunks < 2
  /\ keyChunks' = keyChunks + 1
  /\ pos' = 1
  /\ UNCHANGED <<keyVars, dirExists, treeVars, latestL1Batch, pc, block, known,
                 offer, sessions, history, importPc, snapBatch, readable,
                 treeChunks, base>>

\* The tree takes the enumeration index from the log.
ExtendChunk ==
  /\ importPc = "chunks" /\ pc = "import"
  /\ treeChunks < keyChunks
  /\ LET logs == Chunk(snapBatch, treeChunks + 1)
     IN  tree' = Extended({logs[i] : i \in DOMAIN logs})
  /\ versions' = versions + 1
  /\ treeChunks' = treeChunks + 1
  /\ UNCHANGED <<keyVars, dirExists, latestL1Batch, procVars, sessions, history,
                 importPc, snapBatch, readable, keyChunks, base>>

\* Both channels are closed: LATEST_L1_BATCH is set, whatever was read, and the
\* session goes on as any other, from a batch the fetcher finds for this one.
EndImport ==
  /\ importPc = "chunks" /\ pc = "import"
  /\ keyChunks = readable /\ treeChunks = readable
  /\ latestL1Batch' = snapBatch
  /\ pc' = "recv" /\ importPc' = "done"
  /\ \E b \in Batches : (b <= snapBatch + 1 \/ Gaps) /\ offer' = b
  /\ gapped' = IF gapped = 0 /\ offer' > snapBatch + 1 THEN sessions ELSE gapped
  /\ base' = CASE base = "overlaid"              -> "overlaid"
               [] readable < NumChunks(snapBatch) -> "lost"
               [] OTHER                           -> "whole"
  /\ UNCHANGED <<keyVars, dirExists, treeVars, pos, block, known, sessions,
                 torn, snapBatch, readable, keyChunks, treeChunks>>

\* A session without --snapshot, and the steps of a processor that runs.
OpenWithout ==
  /\ Open
  /\ importPc' = "off"
  /\ UNCHANGED <<snapBatch, readable, keyChunks, treeChunks, base>>

ImportStep ==
  \/ ImportGenesisKeys \/ ImportGenesis \/ AddChunkKeys \/ SendChunk \/ ExtendChunk
  \/ EndImport

ProcessorStep == (TreeStep \/ Close \/ KillProcessor) /\ UNCHANGED importVars

-----------------------------------------------------------------------------
TransferInit ==
  /\ TreeInit
  /\ importPc = "off" /\ snapBatch = 0 /\ readable = 0
  /\ keyChunks = 0 /\ treeChunks = 0 /\ base = "none"

TransferNext == OpenWithout \/ BeginImport \/ ImportStep \/ ProcessorStep

TransferSpec == TransferInit /\ [][TransferNext]_transferVars

-----------------------------------------------------------------------------
(***************************************************************************)
(* Properties                                                              *)
(***************************************************************************)
\* The type invariant of sessions with and without an import.
TransferTypeOK ==
  /\ TreeTypeOK
  /\ importPc \in {"off", "genesis", "chunks", "done"}
  /\ snapBatch \in Snapshots \cup {0}
  /\ treeChunks \in 0..keyChunks
  /\ keyChunks \in 0..readable
  /\ keyChunks - treeChunks <= 2
  /\ base \in {"none", "partial", "lost", "overlaid", "whole"}

ImportIsOver == importPc = "done" /\ pc = "recv" /\ block = 0

\* An import that read every chunk leaves the state of the snapshot in the tree
\* and every key under the index it has on the chain, also when an earlier import
\* was cut short, when batches up to the snapshot were processed or rejected
\* before, or when a kill left the genesis state or a batch half done.  Only a
\* key that add_key lost before stays lost.
ImportRestoresTheSnapshot ==
  ImportIsOver /\ base = "whole" /\ "last" \notin torn /\ gapped \in {0, sessions} =>
    /\ tree = ChainState[snapBatch]
    /\ \A k \in DOMAIN tree : HasKey(tree[k].index - 1) /\ KeyAt(tree[k].index) = k

\* A processor panics or rejects an honest batch for one of five reasons only: a
\* kill between two writes that belong together, a start past the due batch, an
\* import that was cut short, one that missed a chunk, or one into a database
\* that knew more than the snapshot.
OnlyKnownHarmHurts ==
  pc \in {"rejected", "panicked"} =>
    \/ torn # {} \/ gapped # 0 \/ block \in BadBatches
    \/ base \in {"partial", "lost", "overlaid"}

\* A rejected batch, wrong or too early, leaves the leaves of the last accepted
\* state as they were: rolling back restores values packed as differences.  The
\* keys of a batch that came too early stay in the key index, and what a later
\* session makes of them is another matter; so is an index that a kill left with
\* a key add_key has not finished, and that such a batch finds.
RejectionKeepsTheState ==
  /\ pc = "rejected"
  /\ torn = {} /\ base \in {"none", "whole"}
  /\ gapped = 0 \/ (gapped = sessions /\ kills = 0)
  => \A k \in DOMAIN ChainState[latestL1Batch] :
       k \in DOMAIN tree /\ tree[k] = ChainState[latestL1Batch][k]

=============================================================================
