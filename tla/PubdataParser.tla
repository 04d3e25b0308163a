---------------------------- MODULE PubdataParser ----------------------------
(***************************************************************************)
(* How the changes of one batch are read back from what was committed on   *)
(* L1 (types/common.rs, v1.rs, v2.rs, v3.rs, mod.rs):                      *)
(*                                                                         *)
(*   V1  two byte strings of fixed-size entries                            *)
(*   V2  pubdata: logs, messages, bytecodes and compressed state diffs     *)
(*   V3  pubdata in the calldata, with a tail to cut off, or in blobs.     *)
(*       As nothing says how many of the zeros at the end of the blobs are *)
(*       padding, all of them are cut off, and what is missing is read as  *)
(*       zeros: a value byte by byte, other fields only as a whole.        *)
(*                                                                         *)
(* A step reads one entry.  A word has WordLen bytes instead of 32, all    *)
(* other widths are those of the code.                                     *)
(***************************************************************************)
EXTENDS PubdataFormat, FiniteSetsExt

CONSTANT Committed  \* batches the operator may commit, see PubdataFormat

Byte  == 0..255
Write == [key : Nat, op : {"none", "add", "sub", "transform", "unknown"}, value : Nat]

KeysDiffer(writes) ==
  \A i, j \in DOMAIN writes : writes[i].key = writes[j].key => i = j

\* The value fits into a word, and if it is compressed, its length into five bits.
ValueFits(w) == Fits(w.value, WordLen) /\ (w.op # "none" => Fits(w.value, 31))

\* Numbers fit into their fields, keys are different, indices are positive.
WellFormed(c) ==
  /\ Fits(c.logs, 4) /\ Fits(Len(c.messages), 4) /\ Fits(Len(c.codes), 4)
  /\ \A i \in DOMAIN c.messages : Fits(Len(c.messages[i]), 4)
  /\ \A i \in DOMAIN c.codes : Fits(Len(c.codes[i]), 4)
  /\ Fits(Len(c.initial), 2) /\ KeysDiffer(c.initial) /\ KeysDiffer(c.repeated)
  /\ \A i \in DOMAIN c.initial : Fits(c.initial[i].key, WordLen) /\ ValueFits(c.initial[i])
  /\ \A i \in DOMAIN c.repeated :
       /\ c.repeated[i].key > 0
       /\ Fits(c.repeated[i].key, c.width) /\ Fits(c.repeated[i].key, 8)
       /\ ValueFits(c.repeated[i])

ASSUME CommittedAssumption ==
  /\ Committed \subseteq
       [logs : Nat, messages : Seq(Seq(Byte)), codes : Seq(Seq(Byte)),
        initial : Seq(Write), repeated : Seq(Write),
        version : Byte \ {0}, width : Byte \ {0}]
  /\ \A c \in Committed : WellFormed(c)

VARIABLES
  batch,    \* what is committed
  format,   \* and how: "V1", "V2", "V3calldata" or "V3blob"
  bytes,    \* the pubdata
  pos,      \* *pointer
  section,  \* what is read next
  left,     \* entries left of the section
  width,    \* enumeration_index: the bytes of the index of a repeated write
  factoryDeps, initialChanges, repeatedChanges, \* of the CommitBlock
  verdict   \* "reading", "done", "error" or "panic"

blockVars  == <<factoryDeps, initialChanges, repeatedChanges>>
inputVars  == <<batch, format>>
parserVars == <<inputVars, bytes, pos, section, left, width, blockVars, verdict>>

-----------------------------------------------------------------------------
FromBE(s) ==
  LET value[n \in 0..Len(s)] == IF n = 0 THEN 0 ELSE 256 * value[n - 1] + s[n]
  IN  value[Len(s)]

\* The bytes from p on, at most n of them.
From(p, n) == SubSeq(bytes, p + 1, Min({p + n, Len(bytes)}))

\* read_next_n_bytes at the pointer: zeros, and no move, at the end; a read that
\* only begins before the end is out of range.
AtEnd    == pos >= Len(bytes)
Torn(n)  == ~AtEnd /\ pos + n > Len(bytes)
Field(n) == IF AtEnd THEN Filled(n, 0) ELSE From(pos, n)
Past(n)  == IF AtEnd THEN pos ELSE pos + n

\* A mutant: what is missing of a value is left out instead of read as zeros.
PackedUnshifted(p) ==
  LET meta == IF p >= Len(bytes) THEN 0 ELSE bytes[p + 1]
      from == IF p >= Len(bytes) THEN p ELSE p + 1
      len  == IF meta % 8 = 0 THEN WordLen ELSE meta \div 8
  IN  [op |-> meta % 8, value |-> FromBE(From(from, len)), end |-> from + len,
       inRange |-> from <= Len(bytes)]

\* A mutant: a value has to be there as a whole.
PackedStrict(p) ==
  LET meta == IF p >= Len(bytes) THEN 0 ELSE bytes[p + 1]
      from == IF p >= Len(bytes) THEN p ELSE p + 1
      len  == IF meta % 8 = 0 THEN WordLen ELSE meta \div 8
  IN  [op |-> meta % 8, value |-> FromBE(From(from, len)), end |-> from + len,
       inRange |-> from + len <= Len(bytes)]

\* read_compressed_value at p: what is missing of the value is zeros.
Packed(p) ==
  LET meta == IF p >= Len(bytes) THEN 0 ELSE bytes[p + 1]
      from == IF p >= Len(bytes) THEN p ELSE p + 1
      len  == IF meta % 8 = 0 THEN WordLen ELSE meta \div 8
      have == From(from, len)
  IN  [op |-> meta % 8, value |-> FromBE(have \o Filled(len - Len(have), 0)),
       end |-> from + len, inRange |-> from <= Len(bytes)]

OpName == <<"none", "add", "sub", "transform">>

\* IndexMap::insert: a key that is there keeps its place.
Insert(map, key, op, value) ==
  LET w == [key |-> key, op |-> op, value |-> value]
  IN  IF \E i \in DOMAIN map : map[i].key = key
      THEN [i \in DOMAIN map |-> IF map[i].key = key THEN w ELSE map[i]]
      ELSE Append(map, w)

-----------------------------------------------------------------------------
WithoutZeros(s) == SubSeq(s, 1, Max({0} \cup {i \in DOMAIN s : s[i] # 0}))

\* A mutant: each blob loses the zeros at its end.
ResolvedEach ==
  CASE format = "V2"         -> Pubdata(batch)
    [] format = "V3calldata" -> Pubdata(batch)
    [] format = "V3blob"     ->
         LET blobs == Blobs(Pubdata(batch))
         IN  FlattenSeq([i \in DOMAIN blobs |-> WithoutZeros(blobs[i])])

\* V2::try_from, V3::parse_pubdata and parse_pubdata_from_blobs.
Resolved ==
  LET tailed == Pubdata(batch) \o Filled(TailSize, 9)
  IN  CASE format = "V2"         -> Pubdata(batch)
        [] format = "V3calldata" -> SubSeq(tailed, 1, Len(tailed) - TailSize)
        [] format = "V3blob"     -> WithoutZeros(FlattenSeq(Blobs(Pubdata(batch))))

Resolve ==
  /\ section = "source" /\ format # "V1"
  /\ bytes' = Resolved
  /\ section' = "logs"
  /\ UNCHANGED <<inputVars, pos, left, width, blockVars, verdict>>

\* The entries of a byte string of V1 after its count.
EntryV1(s, size, i) == SubSeq(s, 5 + (i - 1) * size, 4 + i * size)

ChangesV1(s, keyLen, lowFirst) ==
  LET size     == keyLen + WordLen
      Entry(i) == EntryV1(s, size, i)
      Bytes(e) == SubSeq(e, 1, keyLen)
      Key(e)   == IF lowFirst THEN Reverse(Bytes(e)) ELSE Bytes(e)
      Value(e) == SubSeq(e, keyLen + 1, size)
      count    == (Len(s) - 4) \div size
      map[i \in 0..count] ==
        IF i = 0 THEN <<>>
        ELSE Insert(map[i - 1], FromBE(Key(Entry(i))), "none", FromBE(Value(Entry(i))))
  IN  map[count]

\* V1::try_from; the lengths are checked first.
ParseV1 ==
  /\ section = "source" /\ format = "V1"
  /\ IF (Len(InitialV1(batch)) - 4) % (2 * WordLen) # 0
     THEN verdict' = "error" /\ UNCHANGED blockVars
     ELSE IF (Len(RepeatedV1(batch)) - 4) % (8 + WordLen) # 0
     THEN verdict' = "panic" /\ UNCHANGED blockVars
     ELSE /\ initialChanges' = ChangesV1(InitialV1(batch), WordLen, TRUE)
          /\ repeatedChanges' = ChangesV1(RepeatedV1(batch), 8, FALSE)
          /\ factoryDeps' = batch.codes
          /\ verdict' = "done"
  /\ section' = "end"
  /\ UNCHANGED <<inputVars, bytes, pos, left, width>>

-----------------------------------------------------------------------------
\* How many bytes the next field has.
FieldLen ==
  CASE section \in {"logs", "messages", "message", "bytecodes", "bytecode"} -> 4
    [] section \in {"version", "width"} -> 1
    [] section = "length"   -> 3
    [] section = "count"    -> 2
    [] section = "initial"  -> WordLen
    [] section = "repeated" -> width
    [] OTHER -> 0

Number == FromBE(Field(FieldLen))
After  == Past(FieldLen)

Begins(name, n) == section' = name /\ left' = n

SkipLogs ==
  /\ section = "logs" /\ ~Torn(4)
  /\ pos' = After + LogSize * Number
  /\ Begins("messages", 0)
  /\ UNCHANGED <<inputVars, bytes, width, blockVars, verdict>>

CountEntries ==
  /\ ~Torn(4)
  /\ \/ section = "messages" /\ Begins("message", Number)
     \/ section = "bytecodes" /\ Begins("bytecode", Number)
  /\ pos' = After
  /\ UNCHANGED <<inputVars, bytes, width, blockVars, verdict>>

SkipMessage ==
  /\ section = "message" /\ left > 0 /\ ~Torn(4)
  /\ pos' = After + Number
  /\ left' = left - 1
  /\ UNCHANGED <<inputVars, bytes, section, width, blockVars, verdict>>

ReadBytecode ==
  /\ section = "bytecode" /\ left > 0 /\ ~Torn(4)
  /\ After + Number <= Len(bytes)
  /\ factoryDeps' = Append(factoryDeps, From(After, Number))
  /\ pos' = After + Number
  /\ left' = left - 1
  /\ UNCHANGED <<inputVars, bytes, section, width, initialChanges, repeatedChanges,
                 verdict>>

EndEntries ==
  /\ left = 0
  /\ \/ section = "message"  /\ Begins("bytecodes", 0)
     \/ section = "bytecode" /\ Begins("version", 0)
     \/ section = "initial"  /\ Begins("repeated", 0)
  /\ UNCHANGED <<inputVars, bytes, pos, width, blockVars, verdict>>

\* The header of the compressed diffs, field by field; it may be all there is.
ReadVersion ==
  /\ section = "version"
  /\ pos' = After
  /\ IF Number # 1 THEN verdict' = "error" /\ Begins("end", 0)
     ELSE IF pos' >= Len(bytes) THEN verdict' = "done" /\ Begins("end", 0)
     ELSE Begins("length", 0) /\ UNCHANGED verdict
  /\ UNCHANGED <<inputVars, bytes, width, blockVars>>

ReadHeader ==
  /\ ~Torn(FieldLen)
  /\ \/ section = "length" /\ Begins("width", 0) /\ UNCHANGED width
     \/ section = "width" /\ Begins("count", 0) /\ width' = Number
     \/ section = "count" /\ Begins("initial", Number) /\ UNCHANGED width
  /\ pos' = After
  /\ UNCHANGED <<inputVars, bytes, blockVars, verdict>>

-----------------------------------------------------------------------------
\* There is another write to read.
MoreWrites ==
  \/ section = "initial" /\ left > 0
  \/ section = "repeated" /\ ~AtEnd

Rejected ==
  \/ section = "repeated" /\ width \notin {4, 5}
  \/ ~Torn(FieldLen) /\ Packed(After).inRange /\ Packed(After).op > 3

\* The key has its lowest byte first.
ReadInitial ==
  /\ section = "initial" /\ MoreWrites /\ ~Rejected
  /\ ~Torn(WordLen) /\ Packed(After).inRange
  /\ LET packed == Packed(After)
     IN  /\ initialChanges' = Insert(initialChanges, FromBE(Reverse(Field(WordLen))),
                                     OpName[packed.op + 1], packed.value)
         /\ pos' = packed.end
  /\ left' = left - 1
  /\ UNCHANGED <<inputVars, bytes, section, width, factoryDeps, repeatedChanges, verdict>>

ReadRepeated ==
  /\ section = "repeated" /\ MoreWrites /\ ~Rejected
  /\ ~Torn(width) /\ Packed(After).inRange
  /\ LET packed == Packed(After)
     IN  /\ repeatedChanges' = Insert(repeatedChanges, Number,
                                      OpName[packed.op + 1], packed.value)
         /\ pos' = packed.end
  /\ UNCHANGED <<inputVars, bytes, section, left, width, factoryDeps, initialChanges,
                 verdict>>

RejectWrite ==
  /\ MoreWrites /\ Rejected
  /\ verdict' = "error" /\ section' = "end"
  /\ UNCHANGED <<inputVars, bytes, pos, left, width, blockVars>>

EndOfDiffs ==
  /\ section = "repeated" /\ ~MoreWrites
  /\ verdict' = "done" /\ section' = "end"
  /\ UNCHANGED <<inputVars, bytes, pos, left, width, blockVars>>

\* A read begins before the end of the pubdata and goes on after it; of the
\* fields that are read with no check at all it may also begin there.
ReadPanics ==
  /\ \/ Torn(FieldLen) /\ (section \in {"message", "bytecode"} => left > 0)
                       /\ (section \in {"initial", "repeated"} => MoreWrites /\ ~Rejected)
     \/ section = "bytecode" /\ left > 0 /\ After + Number > Len(bytes)
     \/ MoreWrites /\ ~Rejected /\ ~Packed(After).inRange
  /\ verdict' = "panic" /\ section' = "end"
  /\ UNCHANGED <<inputVars, bytes, pos, left, width, blockVars>>

-----------------------------------------------------------------------------
ParserInit ==
  /\ batch \in Committed
  /\ format \in {"V1", "V2", "V3calldata", "V3blob"}
  /\ bytes = <<>> /\ pos = 0 /\ section = "source" /\ left = 0 /\ width = 0
  /\ factoryDeps = <<>> /\ initialChanges = <<>> /\ repeatedChanges = <<>>
  /\ verdict = "reading"

ParserNext ==
  \/ Resolve \/ ParseV1
  \/ SkipLogs \/ CountEntries \/ SkipMessage \/ ReadBytecode \/ EndEntries
  \/ ReadVersion \/ ReadHeader
  \/ ReadInitial \/ ReadRepeated \/ RejectWrite \/ EndOfDiffs \/ ReadPanics

ParserSpec == ParserInit /\ [][ParserNext]_parserVars

-----------------------------------------------------------------------------
(***************************************************************************)
(* Properties                                                              *)
(***************************************************************************)
\* In V1 all values are whole words.
AsCommitted(writes) ==
  IF format = "V1" THEN [i \in DOMAIN writes |-> [writes[i] EXCEPT !.op = "none"]]
  ELSE writes

\* A block that is passed on holds the bytecodes and the changes that were
\* committed, all of them and in their order, whatever way the batch took to L1
\* and however many of its zeros were cut off with the padding.
BlockIsTheBatch ==
  verdict = "done" =>
    /\ initialChanges = AsCommitted(batch.initial)
    /\ repeatedChanges = AsCommitted(batch.repeated)
    /\ factoryDeps = batch.codes

\* A batch in the format the parser knows is not refused: the bytes that are read
\* as version, width and operation are those that were written as such.  Nor is
\* anything read past the end, as the zeros that are cut off never reach back into
\* a field that is read as a whole, unless the last value of a batch in blobs is a
\* zero that was not compressed.
FailuresAreJustified ==
  /\ verdict = "error" =>
       \/ batch.version # 1 \/ batch.width \notin {4, 5}
       \/ \E i \in DOMAIN batch.initial : batch.initial[i].op = "unknown"
       \/ \E i \in DOMAIN batch.repeated : batch.repeated[i].op = "unknown"
  /\ verdict = "panic" =>
       /\ format = "V3blob"
       /\ LET writes == batch.initial \o batch.repeated
          IN  writes # <<>> /\ Last(writes).op = "none" /\ Last(writes).value = 0

=============================================================================
