# zksync-state-reconstruct in TLA+

Models of the tool that rebuilds the state of zkSync Era from the batches
committed on Ethereum, the properties that make it correct, the TLC runs that
check them on small instances and the TLAPS proofs that hold for every instance.
Paths are relative to the root of the repository; `l1_fetcher.rs` stands for
`state-reconstruct-fetcher/src/l1_fetcher.rs`.

    tlc -workers 2 -config MCFetchPipeline_restart.cfg MCFetchPipeline   # a run
    tlapm SnapshotTransferProofs.tla                                     # the proofs of a module

## 1. The system

One process with one of five commands, the first with two sources; three of the
commands share the L1 fetcher.

    reconstruct l1 : [snapshot import] -> fetcher (main | tx | parse) -> tree processor -> Merkle tree + key index
    reconstruct file:                     JSON file                   -> tree processor
    download       :                      fetcher                     -> JSON file
    prepare-snapshot:                     fetcher                     -> snapshot builder -> snapshot database
    export-snapshot:                      snapshot database           -> header and chunk files
    query          :                      Merkle tree                 -> root hash

| Component | State | Operations | Talks to | What is hard | What makes it correct |
|---|---|---|---|---|---|
| Main handler (`spawn_main_handler`) | current block, end block, last batch number, last hash | one iteration per window of logs | node; `hash_tx`; cancellation token | window arithmetic at the tip, several batches per transaction, blocks read twice, polling or not | every finalized commit once, in order; ends, or polls for ever |
| Tx handler (`spawn_tx_handler`) | the hash it works on | fetch with endless retries | node; two channels; metrics lock | retry against cancellation | returns after an interrupt |
| Parse handler (`spawn_parsing_handler`) | the transaction and what is left of it; last parsed block | parse, send batches | blob server; sink; metrics lock held over the sends | failures half way through a transaction, locks and full channels | hands on every batch; reports the right block |
| `run`, `decide_start_block`, `main` | `LATEST_L1_BLOCK` | start, join, store, wait for the processor | all tasks | stop at any moment and resume, kill | no batch left out by a resume |
| Batch search (`map_l1_batch_to_l1_block`) | two bounds and a probe | one probe per iteration | node | windows that overlap the bounds, the chain grows meanwhile | "does not exist" only if it does not |
| Tree processor (`TreeProcessor`, `TreeWrapper`) | tree versions, `LATEST_L1_BATCH`, roll-back base | genesis, insert a batch, compare the root, roll back | key index; tree | two stores written one after the other, differences relative to the old value | the tree goes through the states of the chain |
| Key index (`ReconstructionDatabase`) | two maps and a counter | `add_key` (three writes), `get_key` | RocksDB | kill between the writes | an index always leads to the key it was given to |
| Snapshot builder (`SnapshotBuilder`, `SnapshotDatabase`) | logs, index, counter, two positions | insert and update logs | RocksDB | no root to compare with, two positions, kill | the database is the state after a batch |
| Export and import (`SnapshotExporter`, `SnapshotImporter`, `restore_from_snapshot`) | a directory of files; the tree and the index | write chunks, dependencies, header; read, index, extend | three tasks and two channels | a task that dies looks like the end, import over a used database, exports over older ones, none truncated | the tree is the snapshot; an import reads one export |
| Pubdata parser (`types/common.rs`, `types/v3.rs`) | position in the bytes | read the next field | parse handler | zeros at the end of blobs that were cut off, widths taken from the data | the block holds the changes that were committed |
| Commit block decoding (`types/v1.rs`, `v2.rs`, `mod.rs`, `parse_calldata`) | the batches parsed so far | parse a transaction token by token | parse handler, blob client | formats that change in the very block of an upgrade, one batch of several that fails | all batches of a transaction or none |
| Blob client (`blob_http_client.rs`) | attempts made | GET with retries and sleeps | blob server | outage, nonsense as an answer, cancellation during a sleep, parsing that begins anew | no blob twice, left out or in the wrong batch |
| File import and JSON export | a channel | read an array, send its batches | tree processor | `main` does not wait for the processor, files that end early | what was imported is in the tree |
| Query, metrics, command line | none that lasts | I/O | | | |

`PROJECT.json` lists the components with their status and, under `hazards`,
what in this code is hard to test, each with its line and the properties aimed
at it.

## 2. The modules

| Module | Models | Builds on |
|---|---|---|
| `CommitLedger` | the commits on Ethereum: batches, transactions, blocks (outside the repository) | |
| `TxFeed` | abstract: each commit of the finalized chain, once and in order | `CommitLedger` |
| `LogScanner` | the main handler, one action per branch of its loop | `CommitLedger` |
| `ParseTask` | abstract: what the parsing task promises the tasks around it | |
| `FetchPipeline` | three tasks, channels, metrics lock, processor, `run`, `main`, restarts, kills | `LogScanner`, `ParseTask` |
| `TxParser` | the parsing task from the inside: tokens, formats, blobs, retries | `ParseTask` |
| `PubdataFormat` | how the operator writes a batch down (outside the repository) | |
| `PubdataParser` | how it is read back, field by field | `PubdataFormat` |
| `BatchSearch` | the search for the block of the last imported batch | `CommitLedger` |
| `KeyIndexDb` | the key index, write by write | |
| `L2Ledger` | the zkSync chain: writes, packing, indices, states (outside the repository) | |
| `L2Replay` | abstract: the states of the chain one after the other | `L2Ledger` |
| `TreeProcessor` | opening, genesis, `insert_block`, roll back, `LATEST_L1_BATCH` | `KeyIndexDb`, `L2Ledger` |
| `FileImport` | `reconstruct file`: `main`, its channel, a processor that is dropped | `TreeProcessor` |
| `SnapshotTransfer` | chunks of an export, the import, and sessions after it | `TreeProcessor` |
| `SnapshotFiles` | the directory of exports: files, header, what an import reads of them | |
| `SnapshotBuilder` | `prepare-snapshot` and its database, write by write | `L2Ledger` |
| `MC*` | small instances for TLC | the module of that name |
| `L2LedgerProofs` | lemmas about the states of the chain | `L2Ledger` |
| `TreeProcessorProofs` | the key index and the tree processor, step by step | `TreeProcessor`, `L2LedgerProofs` |
| `SnapshotTransferProofs`, `FileImportProofs` | theorems about the sessions | the module of that name, `TreeProcessorProofs` |
| `SnapshotProofs` | theorems about the builder and the directory of exports | `SnapshotBuilder`, `SnapshotFiles`, `L2LedgerProofs` |
| `FetchPipelineProofs` | theorems about the main handler, the batch search and the pipeline | `FetchPipeline`, `BatchSearch` |
| `TxParserProofs` | theorems about the parsing task | `TxParser` |
| `PubdataParserProofs` | theorems about what the parser reads | `PubdataParser` |

How they correspond to the code (`map` in `PROJECT.json` gives the lines of
every definition):

* **`LogScanner`.** `scanPc` is the place in the loop: `top` (cancellation, end
  block, waiting, the request) or `logs` (the loop over the events). `nextLog`
  stands for the events that are left, `latestBatch` and `previousHash` are the
  two variables that recognise what was handled. Errors of the node change no
  state and are stuttering steps. `Options` holds the options a session may be
  started with; `NoPolling` is the rule of `run` that a limit on the blocks
  switches polling off. `sent` and `sends` are history variables.
* **`FetchPipeline`.** One program counter per task; a channel is a sequence of
  at most `ChanCap` elements, and dropping a receiver empties it. The parse task
  holds the metrics mutex while `parsePc = "send"`; every step of another task
  that takes the mutex has the guard `MetricsFree`. `StoreLatestBlock`, `Exit`
  and `RunFails` are the end of `run` and `main`. `StartAgain` and
  `KillAndStart` begin a session with what the stores hold. The tree is
  reduced to the number of the batch it holds, the parsing of a transaction to
  one step. For the reasons of `BadTxs` (it never parses) and `BlobTxs` (it needs
  the blob server) that step may be an error, which cancels the run
  (`ParseFails`), or a panic of the task, which cancels nobody (`ParsePanics`):
  the other tasks find its channels closed when they next use them, `run` joins
  it and returns an error (`RunFails`) though the main task may still be going,
  and `main` returns without storing a block or waiting for the processor.
* **`ParseTask`, `TxParser`.** `ParseTask` is the interface between the two: a
  transaction is handed on as a whole or not at all, its block is named after its
  last batch, and a task that refuses one has cancelled the run (`Fail`) or has
  panicked without a word (`Panic`). Both `TxParser` (what the
  task does) and `FetchPipeline` (what the tasks around it rely on) implement
  it. In `TxParser` a step is one token, one request or one sleep; `boojumMode`
  stands for the candidate functions, `attempt` is the counter of `get_blob`,
  `blocks` and `blobs` what `parse_calldata` has gathered. A token is `good`,
  `bad` (an error) or `short` (a read past its end panics); the last two are the
  verdicts of `PubdataParser`. The blob server is `up`, `down`, or `odd`: it
  answers something that is no blob, or a blob that is not the one asked for.
  Blobs are not compared with their commitments, so a batch with a wrong one
  parses to something else, gives an error or panics.
* **`PubdataParser`.** `pos` is the pointer the code passes through its
  functions; `Field`, `AtEnd` and `Torn` are `read_next_n_bytes`, which returns
  zeros at the end and panics when a read only begins before it. `Resolve`
  gathers the pubdata: the tail of the calldata cut off, or the blobs joined
  and the zeros at their end removed.
* **`TreeProcessor`.** The tree is a function from keys to `[index, value]`;
  a root is the set of leaves. Every write of a store is a step, so that a kill
  can come between any two. `AddKeys` is the loop around `add_key`. The order of
  entries with the same key is left open (`OnePerKey`) as the tree library and
  the hash map of the roll back leave it open. `offer` is what the fetcher sends.
  `torn` and `gapped` are history variables that name what may have gone wrong
  outside the processor: which pairs of writes a kill separated, and the first
  session that worked on a state that lacks a batch. That is one that started
  past the due batch, or one that gives keys an index while keys of earlier
  batches have none (`KeysMissing`).
* **`L2Replay`.** The abstract specification knows the chain only as a sequence
  of states: its parameters are `NumBatches` and `ChainState`.
* **`FileImport`.** `main` and the processor share one channel. `DropTask` is
  the end of the runtime: the task may be at any `.await` (`TaskWaits`), because
  each one may yield once the budget of tokio is used up, and between awaits it
  runs on. A file ends with any batch, whole or torn (`fileWhole`).
* **`SnapshotTransfer`.** The reading task has no steps of its own: all that
  matters of it is how many chunks it can read before it panics (`readable`).
  The key task and the tree are separated by a channel for one chunk.
* **`SnapshotFiles`.** What is exported is a state of the database. A file has
  the number of that state (`Number`, its `LATEST_L1_BATCH`) in its name, and
  two states may have the same one: a batch that is partly inserted, after a kill
  or while `prepare-snapshot` runs, has logs of its own and the number of the
  batch before it. A chunk or dependency file holds the content of one state or
  is torn. Opening it does not truncate it, so it stays whole if it is written
  over with what it holds (`Holds`) and is torn until it is closed if it held
  another state's. The history variable `patched` has the numbers of which an
  export began to do that and none has finished since. The header has one name for all batches, so
  its text is modelled: a sequence of units, each the piece of a field, written
  field by field over what is there (`Overwritten`). `Parses` accepts a text
  whose fields have their places and that is followed by nothing. An import
  resolves the paths of the header, stored or inferred, from the working
  directory it was started in.
* **`SnapshotBuilder`.** As the tree processor, with one store, no roots and the
  start block that `main` computes.
* **`BatchSearch`.** `Seen` is what a probe returns; `LearnNothing` is a window
  without an event, or no answer.

The names of actions and variables follow the code. Left out everywhere:
logging, metrics figures and hashes.

## 3. The runs

| Run | Question | Distinct states |
|---|---|---|
| `scan` | Does the main handler implement `TxFeed` from every start block and with every option? Does it end complete? Whose fault is a failed assertion? | 6,839 |
| `pipe_restart` | Is each batch offered to the tree in turn over interrupts, restarts and a kill? Is a run that ends by itself complete? Is the parse task a `ParseTask`? | 1,479,123 |
| `pipe_outage` | Does the tool exit after an interrupt, a rejected batch or a panic of the parse task although the node is silent and channels are full? Does every batch get to the tree if the node answers? | 98,893 |
| `parser_outage` | Are batches and blobs kept together over outages, retries, odd answers and batches that panic the parser? Is the task a `ParseTask`? Does an outage cost anything? | 25,267 |
| `parse` | Is what is read from the pubdata what was written, in all four formats? | 81,412 |
| `search` | Does the search report a batch as missing only if it is, and end? | 8,784 |
| `transfer` | Sessions with and without import, two kills, unreadable chunks, a wrong batch and early batches: what stays sound, and which accidents do harm? | 663,580 |
| `exports` | Killed exports of several states of the database into one directory, two of them with one number: what can be imported, and as what? | 256,623 |
| `file_drops` | What is lost when `main` returns before the processor, and does that or a torn file ever do harm? | 21,049 |
| `file_message` | violation: objects counted as imported are not | |
| `snapshot_kills` | Does the snapshot database stay the state of the chain over kills and interrupts? | 6,885 |
| `snapshot_skip` | violation: a batch of the stored block is skipped | |

The longest, `transfer`, `pipe_outage` and `file_drops` (the last two because of
their fairness), take two to three minutes with two workers.

**Bounds, and why they are enough.** Every bound is a constant: `MaxTip`,
`MaxHead` (blocks), `MaxSessions`, `MaxCrashes`, `MaxKills`, `MaxExports`,
`MaxChanges`, `ChanCap`. The ledgers have the shapes that the code tells apart:
a transaction with several batches, two transactions in one block, blocks
without a commit, commits at window ends. Windows have two blocks, so that a
window is cut, full, or a single block. Channels hold one element instead of
five: tasks block earlier, and nothing in the code depends on the number (the
proofs of section 4 hold for any capacity). `pipe_restart` has three sessions
over three blocks with all three kinds of options: a resume inside a block, a
kill in the window between the store of the block and the end of the processor,
and the lost batches that follow; its fourth transaction needs the blob server,
so that it may parse, fail or panic, and its last one never parses. In
`pipe_outage` the fourth transaction is without a block number or does not parse,
and one more follows, which is what makes the other tasks notice. `transfer` allows two kills in three sessions:
a kill, one in the attempt to repair it, and a session that meets the result;
the snapshot has three chunks, the last not full. Imports of
several snapshots are left to the proofs: `ImportRestores` holds for any set of
them. `Modulus` 4 lets additions and subtractions wrap. `parse` takes words of three bytes instead of 32, so that all
keys and values with zeros at one end or the other can be listed; other widths
are those of the code, and blobs hold 7 bytes, so that batches end within, at
and after the end of a blob. `parser_outage` has transactions in and around the
two upgrade blocks, one with two batches of one blob and two, one with an error
after a good batch, one with a batch that panics, and a server that changes three
times. `exports` has three states: a batch, the same with the next one partly
inserted (one chunk more under the same number), and the next one; and three
spellings of the directory, two of them equally long, so that a killed header may
leave a mixture that parses. Three exports are what it takes to write a state,
tear it with another of its number, and repair it or export something else.
Deadlock checking is off since every model may stop: the user need not start
the tool again.

**Fairness.** The tasks are spawned on tokio, which runs every task that can
run: weak fairness per task (`TaskFairness` of the pipeline, `HandlerStep` of
the parsing task, `main` and the processor of `FileSpec`). `FileSpec` states
the fairness of `InsertBlock` by the predicate that enables it,
`BlockResolved`; a processor that waits is only certain to go on while the
runtime exists, so `DropTask` has none, and `TaskReturns` covers the end. That
the node or the blob server answers in the end is an assumption of its own, and
a premise of the properties that need it (`NodeFairness` in `RunEnds` and
`EveryBatchIsApplied`, `ServerFairness` in `OutagesAreOvercome`);
`GracefulShutdown`, `RejectionStopsTheRun`, `PanicEndsTheRun` and
`StopsWhenCancelled` do without.
Every single request is assumed to end, with an answer or an error: the clients
in use have no timeout of their own, and the models do not say what happens when
a connection hangs for ever. The search has weak fairness of `Probe`, an
iteration that learns something. There is no fairness for the chain to grow, for
the user to interrupt or to start the tool, for the server to change, nor for
kills. The other specifications state safety only and have none.

**What the runs show.** The fetcher loses nothing by itself: duplicate
detection, windows, the end block and the resume block are right, a run that
ends by itself is complete, shutdown needs no answer of the node, and the mutex
held over the sends never blocks for ever. A transaction is parsed as a whole or
not at all, however often its blobs have to be fetched again. What is read from
pubdata is what was written. The tree goes through the states of the chain until
it is killed at the wrong moment or handed a batch that is not due:
`ChainIsReplayed` says that every step before that is one of `L2Replay`, kills
and dropped tasks at other moments included. An import reads all chunks of
one state of the database. What can go wrong is confined to named windows:

* `GapOnlyAfterLostTail`: between the store of `LATEST_L1_BLOCK` and the end of
  the processor, and after a rejected batch, since the block moves past it.
* `OnlyKnownHarmHurts`: a kill between the tree and `LATEST_L1_BATCH`, inside
  the genesis state, during a roll back, or between the last two writes of
  `add_key`; a start past the due batch; an import that was cut short, missed a
  chunk, or went into a database that knew more.
* `OnlySeparatedWritesHurt`: of all the places where `main` may drop the
  processor, only the one between the tree and `LATEST_L1_BATCH` does harm;
  elsewhere the import can be repeated.
* `LossIsBounded`: apart from that, a dropped processor misses at most the
  batches of a full channel and the one in work.
* `SnapshotIsTheChain`: a kill inside a batch, or a session that began inside a
  block.
* `FailuresAreJustified`: in blobs, a batch whose last write is a zero that was
  not compressed ends in zeros that are cut off with the padding; the parser
  then reads past the end and panics. The operator decides
  whether such a batch is ever committed.
* `OutagesAreOvercome`, `ParseTaskImplemented`: an answer of the blob server
  that is no blob ends the run, while an outage is waited for; so may a wrong
  blob, by an error or a panic of the batch it is made part of.
* `PanicEndsTheRun`, `EveryBatchIsApplied`: a transaction that panics the parse
  task ends the run only when one more transaction is fetched. Until then a tool
  that polls does so for nobody, and when it ends `LATEST_L1_BLOCK` is not stored
  and the batches in the sink may be lost; the next run reads them again.
* `ReadsOneExport`: a kill while a header is written over another one of the
  same form (equal lengths of its paths, as many chunks) leaves a text that
  parses and names two batches. And an export that was killed over the chunks of
  another state with the same number (`exporter.rs:131`, `snapshot/mod.rs:131`)
  leaves a chunk torn, or of the other state, under the valid header of the
  first: the import ends early or mixes and still stores `LATEST_L1_BATCH`.
  Every chunk it reads is of that number all the same, and an export of the
  number that finishes mends it (`FinishedExportIsReadable`).
* `FinishedExportIsReadable`: a header shorter than the one before it, and a
  relative path that is looked up from somewhere else.

**Disagreements with comments and documents** (the violation runs):

| Run | Code | Text |
|---|---|---|
| `snapshot_skip` | the session goes on at the stored block plus one; batches of the stored block that were not done are never read | `src/main.rs:168`: "continuing from L1 block" |
| `file_message` | the handle of the processor is dropped, so that `main` returns with batches in the channel | `src/main.rs:116`: "{num_objects} objects imported from {file}" |

Noticed while modelling, kept as named exceptions of the properties above or
outside of the models: `LATEST_L1_BLOCK` counts what was put into the channel,
although `state-reconstruct-storage/src/lib.rs:18` calls it the last block
processed; an import removes nothing from a used database, although
`README.md:141` calls its effect truncating; the directory of a database exists
before the genesis state does, and an existing one is taken for complete
(`src/processor/tree/mod.rs:34`); after a root mismatch the tool ends without an
error although `README.md:109` says that it panics, and a query then shows the
version of the rolled back tree; the help of `--snapshot` (`src/cli.rs:83`) says
an import only works with a fresh database while `README.md:141` describes one
over a used one; a transaction without a block number ends the parse task
without a cancellation, so that the tool polls on for nobody until it is
interrupted; a header that is inferred from file names holds names without their
directory.

## 4. The proofs

The theorems hold for every value of the constants, under the named
assumptions of the modules (`LedgerAssumption`, `ScannerAssumption`,
`SearchAssumption`, `KeyIndexAssumption`, `L2Assumption`, `TreeAssumption`,
`TransferAssumption`, `FileAssumption`, `SnapshotAssumption`, `FeedAssumption`,
`FilesAssumption`, `FormatAssumption`, `CommittedAssumption`), which TLC
evaluates in the runs. Of the chain `L2Assumption`
says that the genesis state is not empty, that a batch, and the genesis state,
write each key at most once (the changes of a `CommitBlock` are in maps and the
rows of the genesis file are batched by key), and what the fields of a write
are. Nothing is assumed of the order of keys, of the operations or the values.

* **`L2LedgerProofs`**: what the states of the chain have in common. The keys of
  a state have the indices 1, 2, ... without a gap and two keys never the same
  (`EnumeratedBy`, `ChainFacts`), a key keeps its index (`ChainGrows`), a batch
  gives its initial changes the next ones in their order (`InitialFacts`), and a
  repeated change names exactly one key of the state before (`RepeatedFacts`).
  States and initial changes are defined by recursion. The induction is over a
  set of numbers instead of a predicate: `NatSet`, itself proved from the
  well-foundedness of `<`, says that a set with 0 and all successors has all
  numbers, and each use applies it to the set of the numbers for which a fact
  holds.
* **`TreeProcessorProofs`** has two parts. The first is the key index by itself:
  `IndicesPointBack`, `IndicesAreForEver`, `UnkilledKeysAreFound`. `KeyInv` adds
  how far `add_key` has come (`AddInv`) and that without a kill only the key in
  progress may hold the next index (`UnkilledInv`). The second has, for every
  action of the processor, a lemma that it keeps the invariant, so that the
  modules of the sessions can cite it. `TreeInv` holds whatever happens: types,
  where the processor is (`PlaceInv`), that keys are found unless a kill fell
  between the last two writes of `add_key` (`FoundInv`), and that they have the
  indices of the chain as long as nothing was left out (`OrderInv`). `StoreInv`
  holds unless the two stores were `Spoilt` by a kill between writes that belong
  together or by a gap: both hold the state of `LATEST_L1_BATCH`, or that of the
  batch in work while it is to be persisted, or what the roll back will turn into
  it (`RollsBackTo`). `HonestBatch` is the heart of it: unpacking the entries of
  an honest batch on top of the state before gives the state after, whichever
  entry of a key the tree takes. `WrittenRollsBack` is its counterpart for the
  remembered old values.
* **`SnapshotTransferProofs`**: `ImportRestores`, `OnlyKnownHarm`,
  `RejectionKeeps`, `TransferTypesOK`, for any number of sessions, kills and
  imports. `TransferInv` extends `TreeInv` by `ImportInv`, how far an import has
  come: the keys of the chunks that were sent, and of the chunk in work, are known
  (`KeysUpTo`), the leaves of the chunks the tree was extended with are there
  (`LeavesUpTo`), and unless the database knew more there are no others; and by
  `OverInv`, what a finished import left, until the first batch. `StoreInv`
  holds again as soon as `base` is `"none"` or `"whole"`: a complete import
  repairs what an import that was cut short left. That the chunks cover the logs
  exactly, the last one cut, is `ChunkFacts`, `ChunksCount` and `WholeSnapshot`.
  `TransferImplementsDb` shows that sessions implement `DbSpec`: each step is one
  of the index or leaves it alone. The three theorems about the index then carry
  over to the whole (`TransferIndicesPointBack`, `TransferIndicesAreForEver`,
  `TransferKeysAreFound`).
* **`FileImportProofs`**: `ImportLossIsBounded`, `OnlyTornImportsHurt`,
  `FileReplaysTheChain`. `FileInv` adds to the invariant of the processor what
  `main` and the task have of the file between them (`ChanInv`); the loss is
  bounded because what was taken from the channel is followed, without a gap, by
  what is in it, up to the end of the file when `main` is done. The last theorem
  is the refinement of `L2Replay`: an accepted batch is a `ReplayBatch`, the
  genesis state a `StartFromGenesis`, a rejected or rolled back batch is bad, and
  every other step stutters.
* **`SnapshotProofs`** has two parts. For the builder: `ExportedIndicesPointBack`,
  `BuilderFollowsTheChain`, `BuilderFindsTheKeys`. `SnapInv` says that a log's
  index was given (`LogInv`) and what the write in progress has done
  (`WriteInv`); `BuilderInv` adds `ChainInv`, what the database holds at each
  point of a session that nothing has torn or split: while logs are inserted
  those of the batch before and the first of the new ones (`InsertInv`), while changes are
  applied each log with the old or the new value, told apart by `pending`
  (`UpdateInv`), and otherwise all of the state (`HoldsAllOf`), with the stored
  block being that of the stored batch (`BlockIsStored`), from which
  `FirstFromNext` concludes that the next session begins with the next batch.
  For the directory of exports: `ImportsReadOneExport`, `FinishedExportsAreReadable`,
  for any states and numbers of them, any spellings of the directory and any
  lengths of the fields. `DirInv` says that every file holds a state of the number in its name or is
  torn, and that without a header the files of a number that is not `patched` are
  those an export of one state has come to (`FilesInv`, `Begun`); how much of
  files and header an export has written (`ExportInv`); and that the header is
  the text of a state all of whose files are there, unless its number is
  `patched`, or does not parse, or was mixed by a kill (`TextInv`). That a text
  which only begins with a state's own cannot parse is `PrefixIsText`: the path of the dependencies comes last. The
  arithmetic of fields is in `FieldOf`, `FieldRange` and `FieldStart`.
* **`FetchPipelineProofs`** has three parts. For the main handler: `ScanTypesHold`,
  `OnlyTheCallerIsToBlame`, `ScansAreComplete`, `HandlerImplementsFeed`. The
  inductive invariant `ScanInv` adds to the types that a known end block is not past the tip (`EndKnown`),
  that the handler is past it only while polling (`PollingInv`), how the two
  duplicate tests relate to the last transaction sent (`MemoryInv`), and that
  everything below the current block was sent (`ProgressInv`). The last two are
  what the refinement of `TxFeed` and completeness rest on: neither test alone
  recognises a block that is read twice when its last transaction has several
  batches. For the search: `SearchTypesHold`, `MissingBatchesAreMissing`.
  `SearchInv` adds to the types where the target lies while the search goes on:
  behind the whole window of the lower bound and below the upper one, unless a
  bound is still where the search began (`BoundsInv`).
  For the pipeline: `PipeTypesHold`, `GapsComeFromLostTails`,
  `ExitsAreResumable`, `ExitsAreComplete`, `PipelineKeepsTheTask`, for any number
  of sessions and kills, whether a transaction that does not parse cancels or
  panics. `PipeInv` extends `ScanInv` to the whole program.
  `TxFlow` places every transaction between the one the parse task holds and the
  last one sent: in a channel or in the hands of the tx task, without a gap.
  `ParseInv` and `SinkInv` do the same for batches: those in the sink follow the
  one in the processor, which is the one after `LATEST_L1_BATCH` unless a tail
  was lost. `RunInv` says what lies before the start of this session and of the
  next, `EndInv` that without a cancellation or a panic each task ends after the one before
  it, with nothing left in between. The hypothesis `StartsAtGenesis` (the
  configured start block leaves out no batch) is what a gap is measured from;
  `ExitsAreComplete` also needs `Unmined = {}`, as a transaction without a block
  number ends the parse task in the middle.
* **`TxParserProofs`**: `TxTypesHold`, `NoBlobIsMisplaced`,
  `ParserImplementsTask`. `TxInv` describes the half-parsed transaction:
  `blocks` are its first tokens with all their blobs, `blobs` the first ones of
  the token in work (`BlocksInv`, `BlobsInv`), and the format in use is the one of the
  block (`ModeInv`), which follows from the order of the upgrades in
  `FeedAssumption`.
* **`PubdataParserProofs`**: `ParserInvariant`, `BlockReadsTheBatch`,
  `ParserFailsWithReason`, for every set of batches and every size of a word, a
  log, a tail and a blob. `CommittedAssumption` says only what the format needs
  for a batch to be in it: counts, lengths, keys and values fit into their fields
  (of a compressed value the length has five bits), a list names a key once, as
  it comes from a map, indices begin with 1, and the bytes of version and width
  are not zero. It allows versions, widths and operations that the parser does
  not know. The argument compares two positions: the pointer, in the bytes the
  parser has, and the place of the next field in the whole pubdata.
  * `PubdataLayout` and the lemmas before it say where each field of the pubdata
    is (`MessagePos`, ..., `RepeatedPos`) and what it holds (`Layout`).
    `ResolvedFacts` says that the parser's bytes are the pubdata but for zeros at
    its end (`Trimmed`): the blobs joined are the pubdata filled up with zeros.
  * The two positions are equal, or both are past the last byte that is left
    (`Aligned`). As version and width are not zero, everything up to the width is
    always there (`SectionsInOrder`): up to there the invariant has equalities,
    and from there `Aligned`.
  * `ReadNumber` and `ReadPacked` are the core: a read at an aligned position
    returns what was written at the place, though some or all of it may have been
    cut off, and leaves the positions aligned. That no field which is read as a
    whole is cut in the middle is `WritesReach`: the last write has a byte that is
    not zero where its value begins or behind that, unless it is a zero that was
    not compressed (`ZeroIsLast`), the exception that `FailuresAreJustified`
    makes.
  * `ParserInv` has a conjunct for each section: the pointer is at the next entry,
    and what was read is exactly the entries before it. `InsertAppends` is where
    the keys of a list have to be different. V1 has no sections:
    `ReadEntriesV1` shows that a list of entries of a fixed size is read back
    entry by entry.
  * What fields hold is defined by recursive functions (`FromBE`, `Shifted`,
    `Offset`, `FlattenSeq`, `ChangesV1`). Each has a lemma that unfolds it once,
    proved from the existence of such a function (`Recursion`), and facts about
    all arguments follow by `BoundedInduction`, which is `NatSet` up to a bound.

Every invariant that a passing run checks is proved, and so are its action
properties and refinements. Only model-checked is liveness (`RunEnds`,
`GracefulShutdown`, `EveryBatchIsApplied`, `RejectionStopsTheRun`,
`PanicEndsTheRun`, `SearchEnds`, `ImportEnds`, `OutagesAreOvercome`, `StopsWhenCancelled`), which the prover does
not reach.

What the proofs changed in the models: that an honest batch is accepted after a
batch that came too early depends on the session in which it came, so that
`gapped` holds the session instead of a flag, and `KeysMissing` records that a
session works on a key index that lacks keys; `RejectionKeepsTheState` excepts a
kill during such a session, which may leave an index with a key `add_key` has
not finished and that a batch that comes too early then finds. In the parser,
what is assumed of the batches became the explicit `CommittedAssumption`; with a
key twice in a list, or with the index 0 in a last repeated write whose value is
a zero that was not compressed, what is read is not what was written.

## 5. Not modelled, and what is left

`PROJECT.json` gives the status of every component. What is abstracted in the
modelled ones:

* ABI decoding: a token has the shape its format asks for or it has not; the
  checks of the shapes (`types/v1.rs`, `v2.rs`, `v3.rs`) read no state and are
  one choice, an error or a panic, as for the pubdata. The contents of a token
  beyond its pubdata (roots, timestamps) are not told apart. The elements of the
  stored block (`l1_fetcher.rs:746`) are there in every transaction that
  `decode_input` accepts, so that reading them cannot panic.
* A log without a transaction hash, which the main handler passes over: the logs
  of mined blocks have one.
* That a kill inside `add_key` gives one index to two keys: no property forbids
  it, because the code does it; `OnlyKnownHarmHurts` has it among the accidents.
* `SnapshotTransfer` exports the state of a whole batch; which files of another
  state an import may meet is the business of `SnapshotFiles`.
* The entries of V1 are taken to be whole: a length that is no multiple of an
  entry is an error in the code and an input the chain does not have.
* The conversions between the storage types and protobuf and JSON
  (`state-reconstruct-storage/src/types.rs`): a file that is whole is read as
  what was written.
* Factory dependencies are written once under their hash; nothing reads them
  back but the check that they decode. The number of the L2 block is stored and
  never used for a decision.
* The JSON export is one write per batch; a killed one is a file that
  `FileImport` starts from.

Not modelled, because they keep no state that anything else depends on: query,
metrics figures (their lock is part of `FetchPipeline`), the command line,
logging, constants, the hashing of byte code.

What could follow: the tree inside the pipeline (`FetchPipeline` takes it for a
number, which `TreeProcessor` justifies only as long as it is not harmed); the
search in front of a session that starts with an import; connections that
hang.
