----------------------------- MODULE SnapshotFiles -----------------------------
(***************************************************************************)
(* The directory of a snapshot: `export-snapshot` writes the chunks, the   *)
(* factory dependencies and at last the header; an import reads the header *)
(* first, or infers it from the file names, then the dependencies and the  *)
(* chunks (SnapshotExporter::export_snapshot, SnapshotImporter::run).      *)
(*                                                                         *)
(* No file is truncated when it is opened, and several exports may go to  *)
(* one directory, each of them killed at any moment.  Names of chunks and  *)
(* dependencies contain the LATEST_L1_BATCH of the database, which is      *)
(* written after all the logs of a batch: a database in which a batch is   *)
(* partly inserted, after a kill or while prepare-snapshot runs, goes by   *)
(* the number of the batch before, with other content.  A compressed file  *)
(* ends where its stream does, whatever follows.  The header has one name  *)
(* for all batches, and its text must not be followed by anything.         *)
(***************************************************************************)
EXTENDS Integers, Sequences, FiniteSetsExt

CONSTANTS
  Snapshots,   \* states of the database that are exported
  Number,      \* Number[s]: LATEST_L1_BATCH in that state; not theirs alone
  Chunks,      \* Chunks[s]: how many chunks the export of s has
  Paths,       \* spellings of the directory on the command line
  Absolute,    \* those that do not depend on the working directory
  Width,       \* Width[s, p]: the length of a field of the header of s under p
  MaxExports   \* bound: how many exports there are

ASSUME FilesAssumption ==
  /\ "torn" \notin Snapshots
  /\ Number \in [Snapshots -> Nat \ {0}]
  /\ Chunks \in [Snapshots -> Nat \ {0}]
  /\ Absolute \subseteq Paths /\ "bare" \notin Paths
  /\ Width \in [Snapshots \X Paths -> Nat \ {0}]
  /\ MaxExports \in Nat

VARIABLES
  files,     \* the chunk and dependency files there are: the state whose content
             \* a file holds, or "torn"; those of two states differ
  hasHeader, \* there is a header file
  header,    \* its text, see Unit
  exportPc,  \* the export: "off", "chunks", "deps" or "header"
  exState, exPath, \* what it exports and its directory
  exPos,     \* how many chunks, or fields of the header, are written
  isOpen,    \* the file it works on is open
  exports,   \* how many exports there were
  imported,  \* the last import since an export began
  finished,  \* history: the last export came to its end
  mixed,     \* history: a kill left a header that parses
  patched    \* history: numbers of which an export began to write over the content
             \* of another state, and no export of that number has finished since

fileVars   == <<files, hasHeader, header>>
exportVars == <<exportPc, exState, exPath, exPos, isOpen, exports>>
filesVars  == <<fileVars, exportVars, imported, finished, mixed, patched>>

-----------------------------------------------------------------------------
ChunkName(n, c) == <<n, c>>
DepsName(n)     == <<n, 0>>

Whole(name) == name \in DOMAIN files /\ files[name] # "torn"

\* The content that the export writes to the file is already there.
Holds(s, name) == name \in DOMAIN files /\ files[name] = s

\* A mutant: the file is truncated first.
OpenedTruncated(name) ==
  [n \in DOMAIN files \cup {name} |-> IF n = name THEN "torn" ELSE files[n]]

\* Proto::encode opens a file: while it is written over, it is torn, unless it holds
\* the same bytes already.
Opened(name) ==
  [n \in DOMAIN files \cup {name} |->
    IF n = name /\ ~Holds(exState, name) THEN "torn" ELSE files[n]]

Closed(name) == [files EXCEPT ![name] = exState]

\* A mutant: the header holds the names of the files only.
UnitBare(s, p, i) ==
  [kind |-> LET field == (i - 1) \div Width[s, p]
            IN  IF field = 0 THEN "num" ELSE IF field <= Chunks[s] THEN "chunk" ELSE "deps",
   batch |-> Number[s], path |-> "bare", width |-> Width[s, p], off |-> (i - 1) % Width[s, p]]

\* The text of a header: a field for its number, one for each path of a chunk and
\* one for the path of the dependencies, each as many units long as its Width.
Unit(s, p, i) ==
  LET field == (i - 1) \div Width[s, p]
  IN  [kind |-> IF field = 0 THEN "num" ELSE IF field <= Chunks[s] THEN "chunk" ELSE "deps",
       batch |-> Number[s], path |-> p, width |-> Width[s, p], off |-> (i - 1) % Width[s, p]]

Fields(s)     == Chunks[s] + 2
TextLen(s, p) == Fields(s) * Width[s, p]

\* The text of s is written up to its field k; what is there beyond it stays.
Overwritten(s, p, k) ==
  LET new == k * Width[s, p]
  IN  [i \in 1..Max({new, Len(header)}) |-> IF i <= new THEN Unit(s, p, i) ELSE header[i]]

-----------------------------------------------------------------------------
NoImport == [verdict |-> "none", dir |-> "home", batch |-> 0, chunks |-> <<>>]

BeginExport(s, p) ==
  /\ exportPc = "off"
  /\ exports < MaxExports
  /\ exports' = exports + 1
  /\ exportPc' = "chunks" /\ exState' = s /\ exPath' = p /\ exPos' = 0
  /\ isOpen' = FALSE
  /\ finished' = FALSE
  /\ imported' = NoImport
  /\ UNCHANGED <<fileVars, mixed, patched>>

\* encode of one file: it is opened and written, then the stream is ended.
Encode(name) ==
  /\ files' = IF isOpen THEN Closed(name) ELSE Opened(name)
  /\ isOpen' = ~isOpen
  /\ patched' = IF ~isOpen /\ Whole(name) /\ ~Holds(exState, name)
                THEN patched \cup {Number[exState]} ELSE patched

WriteChunk ==
  /\ exportPc = "chunks"
  /\ Encode(ChunkName(Number[exState], exPos + 1))
  /\ exPos' = IF isOpen THEN exPos + 1 ELSE exPos
  /\ exportPc' = IF exPos' = Chunks[exState] THEN "deps" ELSE "chunks"
  /\ UNCHANGED <<hasHeader, header, exState, exPath, exports, imported, finished,
                 mixed>>

WriteDeps ==
  /\ exportPc = "deps"
  /\ Encode(DepsName(Number[exState]))
  /\ exportPc' = IF isOpen THEN "header" ELSE "deps"
  /\ exPos' = 0
  /\ UNCHANGED <<hasHeader, header, exState, exPath, exports, imported, finished,
                 mixed>>

\* to_writer has no buffer: each field is a write of its own.
WriteHeader ==
  /\ exportPc = "header"
  /\ isOpen' = TRUE
  /\ hasHeader' = TRUE
  /\ exPos' = IF isOpen THEN exPos + 1 ELSE 0
  /\ header' = Overwritten(exState, exPath, exPos')
  /\ finished' = (exPos' = Fields(exState))
  /\ mixed' = (mixed /\ ~finished')
  /\ patched' = IF finished' THEN patched \ {Number[exState]} ELSE patched
  /\ exportPc' = IF finished' THEN "off" ELSE "header"
  /\ UNCHANGED <<files, exState, exPath, exports, imported>>

-----------------------------------------------------------------------------
\* The working directory of an import: where the exports ran, the directory of
\* the snapshot itself, or another.
WorkDirs == {"home", "snapshot", "other"}

\* Fields of w units each: the number, the paths of the chunks, and as field `last`
\* the path of the dependencies, which ends the text.
HasForm(w, last) ==
  /\ Len(header) = (last + 1) * w /\ last > 0
  /\ \A i \in DOMAIN header :
       LET field == (i - 1) \div w
       IN  /\ header[i].width = w /\ header[i].off = (i - 1) % w
           /\ header[i].kind = IF field = 0 THEN "num"
                               ELSE IF field = last THEN "deps" ELSE "chunk"

\* serde_json::from_str.
Parses ==
  /\ header # <<>>
  /\ HasForm(header[1].width, Len(header) \div header[1].width - 1)

\* A path of a file: the batch in its name, and how the directory is spelt.
FilePath(unit) == [batch |-> unit.batch, dir |-> unit.path]

StoredHeader ==
  LET w == header[1].width
  IN  [num |-> header[1].batch,
       list |-> [c \in 1..(Len(header) \div w - 2) |-> FilePath(header[c * w + 1])],
       deps |-> FilePath(header[Len(header)])]

\* infer_header_from_file_names: the chunks there are, by their bare names; it
\* panics if the names have no batch or several.
NamedBatches == {name[1] : name \in DOMAIN files}

InferredHeader ==
  LET b    == CHOOSE b \in NamedBatches : TRUE
      bare == [batch |-> b, dir |-> "bare"]
  IN  [num |-> b, list |-> [c \in {name[2] : name \in DOMAIN files} \ {0} |-> bare],
       deps |-> bare]

\* read_header fails.
NoHeader == IF hasHeader THEN ~Parses ELSE \A s \in Snapshots : NamedBatches # {Number[s]}

Header == IF hasHeader THEN StoredHeader ELSE InferredHeader

\* Relative paths are looked up in the working directory.
Resolves(path, workDir) ==
  IF path.dir = "bare" THEN workDir = "snapshot"
  ELSE path.dir \in Absolute \/ workDir = "home"

Readable(path, workDir, name) == Resolves(path, workDir) /\ Whole(name)

\* read_factory_deps.
DepsReadable(h, workDir) == Readable(h.deps, workDir, DepsName(h.deps.batch))

\* read_storage_logs_chunks_async: the chunks up to the first that fails, each with
\* the content it holds; the tasks behind it take that for the end.
ChunksRead(h, workDir) ==
  LET name(c)     == ChunkName(h.list[c].batch, c)
      readable(c) == Readable(h.list[c], workDir, name(c))
  IN  [c \in {d \in DOMAIN h.list : \A e \in DOMAIN h.list : e <= d => readable(e)} |->
        files[name(c)]]

\* SnapshotImporter::run: the tree is set to the number of the header.
Import ==
  /\ exportPc = "off"
  /\ \E dir \in WorkDirs :
       imported' =
         IF NoHeader \/ ~DepsReadable(Header, dir)
         THEN [NoImport EXCEPT !.verdict = "refused", !.dir = dir]
         ELSE [verdict |-> "ran", dir |-> dir, batch |-> Header.num,
               chunks |-> ChunksRead(Header, dir)]
  /\ UNCHANGED <<fileVars, exportVars, finished, mixed, patched>>

KillExport ==
  /\ exportPc # "off"
  /\ exportPc' = "off"
  /\ mixed' = (mixed \/ (exportPc = "header" /\ exPos > 0 /\ Parses))
  /\ UNCHANGED <<fileVars, exState, exPath, exPos, isOpen, exports, imported, finished,
                 patched>>

-----------------------------------------------------------------------------
FilesInit ==
  /\ files = [n \in {} |-> "torn"] /\ hasHeader = FALSE /\ header = <<>>
  /\ exportPc = "off" /\ exState = "" /\ exPath = "" /\ exPos = 0 /\ isOpen = FALSE
  /\ exports = 0
  /\ imported = NoImport
  /\ finished = FALSE /\ mixed = FALSE /\ patched = {}

FilesNext ==
  \/ \E s \in Snapshots, p \in Paths : BeginExport(s, p)
  \/ WriteChunk \/ WriteDeps \/ WriteHeader \/ KillExport \/ Import

FilesSpec == FilesInit /\ [][FilesNext]_filesVars

-----------------------------------------------------------------------------
(***************************************************************************)
(* Properties                                                              *)
(***************************************************************************)
Complete(s) == [c \in 1..Chunks[s] |-> s]

\* An import does not end early unnoticed, nor does it mix: once header and
\* dependencies are read, it reads all chunks of one state of the database, whose
\* number it then sets the tree to, whatever exports were killed and whatever they
\* left behind.  There are two exceptions.  After a kill within a header that was
\* being written over another one of the same columns nothing is certain.  And after
\* an export of another state with the same number was killed, the chunks are of that
\* number, but perhaps not all of them, and of more than one state.
ReadsOneExport ==
  imported.verdict = "ran" /\ ~mixed
    => /\ \A c \in DOMAIN imported.chunks : Number[imported.chunks[c]] = imported.batch
       /\ \/ imported.batch \in patched
          \/ \E s \in Snapshots :
               imported.batch = Number[s] /\ imported.chunks = Complete(s)

\* What an export has finished can be imported, as that very state and under its
\* number, wherever its paths resolve and whatever was there before, unless the
\* directory ever held a longer header.
FinishedExportIsReadable ==
  finished /\ imported.verdict # "none"
    => \/ imported.batch = Number[exState] /\ imported.chunks = Complete(exState)
       \/ exPath \notin Absolute /\ imported.dir # "home"
       \/ Len(header) > TextLen(exState, exPath)

=============================================================================
