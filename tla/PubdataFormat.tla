---------------------------- MODULE PubdataFormat ----------------------------
(***************************************************************************)
(* How the operator of the chain writes the changes of one batch down: the *)
(* format that the parser has to agree with.  A batch is a record of       *)
(*                                                                         *)
(*   logs      how many logs there are                                     *)
(*   messages, codes     byte strings                                      *)
(*   initial, repeated   writes [key, op, value], of keys or of indices    *)
(*   version, width      of the compressed diffs: 1 and 4 or 5, or what a  *)
(*                       later format may have                             *)
(***************************************************************************)
EXTENDS Integers, SequencesExt

CONSTANTS
  WordLen,   \* bytes of a key or a value, 32
  LogSize,   \* bytes of a log, 88
  TailSize,  \* bytes after pubdata in the calldata of V3, 32
  BlobSize   \* bytes of pubdata in a blob

ASSUME FormatAssumption ==
  {WordLen, LogSize, TailSize, BlobSize} \subseteq Nat \ {0}

\* v without its e lowest bytes.
Shifted(v, e) ==
  LET shifted[i \in 0..e] == IF i = 0 THEN v ELSE shifted[i - 1] \div 256
  IN  shifted[e]

ByteAt(v, e) == Shifted(v, e) % 256
Fits(v, n)   == Shifted(v, n) = 0

ToBE(n, v) == [i \in 1..n |-> ByteAt(v, n - i)]
ToLE(n, v) == [i \in 1..n |-> ByteAt(v, i - 1)]

Filled(n, byte) == [i \in 1..n |-> byte]

\* The length of a value without leading zeros.
SignificantBytes(v) ==
  CHOOSE n \in 0..WordLen : Fits(v, n) /\ \A m \in 0..(n - 1) : ~Fits(v, m)

Prefixed(s) == ToBE(4, Len(s)) \o s

\* A compressed value: its length and operation, and its significant bytes; a
\* value that is not compressed has a zero and all its bytes.
EncodedValue(w) ==
  LET code == CASE w.op = "add" -> 1 [] w.op = "sub" -> 2 [] w.op = "transform" -> 3
                [] OTHER -> 4
      n == SignificantBytes(w.value)
  IN  IF w.op = "none" THEN <<0>> \o ToBE(WordLen, w.value)
      ELSE <<8 * n + code>> \o ToBE(n, w.value)

EncodedDiffs(c) ==
  ToBE(2, Len(c.initial))
  \o FlattenSeq([i \in DOMAIN c.initial |->
                  ToLE(WordLen, c.initial[i].key) \o EncodedValue(c.initial[i])])
  \o FlattenSeq([i \in DOMAIN c.repeated |->
                  ToBE(c.width, c.repeated[i].key) \o EncodedValue(c.repeated[i])])

Pubdata(c) ==
  ToBE(4, c.logs) \o Filled(c.logs * LogSize, 7)
  \o ToBE(4, Len(c.messages))
  \o FlattenSeq([i \in DOMAIN c.messages |-> Prefixed(c.messages[i])])
  \o ToBE(4, Len(c.codes))
  \o FlattenSeq([i \in DOMAIN c.codes |-> Prefixed(c.codes[i])])
  \o <<c.version>> \o ToBE(3, Len(EncodedDiffs(c))) \o <<c.width>> \o EncodedDiffs(c)

\* The blobs of a batch: its pubdata, filled up with zeros.
NumBlobs(s) == (Len(s) + BlobSize - 1) \div BlobSize

Blobs(s) ==
  LET filled == s \o Filled(NumBlobs(s) * BlobSize - Len(s), 0)
  IN  [i \in 1..NumBlobs(s) |-> SubSeq(filled, (i - 1) * BlobSize + 1, i * BlobSize)]

\* The two byte strings of V1: a count and entries of a fixed size.
EntriesV1(keys, writes) ==
  ToBE(4, Len(writes))
  \o FlattenSeq([i \in DOMAIN writes |-> keys[i] \o ToBE(WordLen, writes[i].value)])

InitialV1(c) ==
  EntriesV1([i \in DOMAIN c.initial |-> ToLE(WordLen, c.initial[i].key)], c.initial)
RepeatedV1(c) ==
  EntriesV1([i \in DOMAIN c.repeated |-> ToBE(8, c.repeated[i].key)], c.repeated)

=============================================================================
