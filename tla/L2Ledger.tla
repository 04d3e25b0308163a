------------------------------ MODULE L2Ledger ------------------------------
(***************************************************************************)
(* The zkSync state that is being reconstructed, as its batches publish    *)
(* it: which key each batch writes, packed in which way, the indices keys  *)
(* get in the order they are first written, and the state after a batch.   *)
(* The chain is outside the repository.                                    *)
(*                                                                         *)
(* A word of 256 bits is a number below Modulus, a state root the set of   *)
(* leaves it stands for: two trees have the same root when they are equal. *)
(***************************************************************************)
EXTENDS Integers, Sequences, FiniteSets

CONSTANTS
  NumBatches,  \* batches published: 1..NumBatches
  Genesis,     \* the genesis state: a sequence of [key, value]
  Diffs,       \* Diffs[b]: the writes of batch b, [key, op, value] each
  BadBatches,  \* batches whose published root is not that of their writes
  Modulus

Batches == 1..NumBatches
Words   == 0..(Modulus - 1)
Ops     == {"add", "sub", "transform", "none"}

KeysOf(s) == {s[i].key : i \in DOMAIN s}

\* The changes of a CommitBlock are in IndexMaps, and the rows of the genesis
\* file are batched by key.
OneWritePerKey(s) == \A i, j \in DOMAIN s : s[i].key = s[j].key => i = j

ASSUME L2Assumption ==
  /\ NumBatches \in Nat \ {0} /\ Modulus \in Nat \ {0}
  /\ Genesis \in Seq([key : KeysOf(Genesis), value : Words])
  /\ Genesis # <<>> /\ OneWritePerKey(Genesis)
  /\ DOMAIN Diffs = Batches
  /\ \A b \in Batches :
       /\ Diffs[b] \in Seq([key : KeysOf(Diffs[b]), op : Ops, value : Words])
       /\ OneWritePerKey(Diffs[b])
  /\ BadBatches \subseteq Batches

\* What a packed write makes of the old value (overflowing on purpose).
Unpack(op, old, v) ==
  CASE op = "add" -> (old + v) % Modulus
    [] op = "sub" -> (old - v) % Modulus
    [] OTHER      -> v

\* The state after a batch: each written key has an index and a value.  Indices
\* start at 1, so that the last one given is the number of keys.
NewWrites(s, known) ==
  LET new[n \in 0..Len(s)] ==
        IF n = 0 THEN <<>>
        ELSE IF s[n].key \in known THEN new[n - 1] ELSE Append(new[n - 1], s[n])
  IN  new[Len(s)]

ValueIn(state, k) == IF k \in DOMAIN state THEN state[k].value ELSE 0

ApplyDiff(state, s) ==
  LET known == DOMAIN state
      new   == NewWrites(s, known)
      write(k) == CHOOSE i \in DOMAIN s : s[i].key = k
      rank(k)  == CHOOSE i \in DOMAIN new : new[i].key = k
  IN  [k \in known \cup KeysOf(s) |->
        [index |-> IF k \in known THEN state[k].index ELSE Cardinality(known) + rank(k),
         value |-> IF k \in KeysOf(s)
                   THEN Unpack(s[write(k)].op, ValueIn(state, k), s[write(k)].value)
                   ELSE ValueIn(state, k)]]

ChainState[b \in 0..NumBatches] ==
  IF b = 0
  THEN [k \in KeysOf(Genesis) |->
         LET i == CHOOSE i \in DOMAIN Genesis : Genesis[i].key = k
         IN  [index |-> i, value |-> Genesis[i].value]]
  ELSE ApplyDiff(ChainState[b - 1], Diffs[b])

\* The CommitBlock of batch b, as the fetcher hands it to the processor.
InitialChanges(b)  == NewWrites(Diffs[b], DOMAIN ChainState[b - 1])
RepeatedChanges(b) ==
  {[index |-> ChainState[b - 1][Diffs[b][i].key].index,
    op |-> Diffs[b][i].op, value |-> Diffs[b][i].value] :
     i \in {j \in DOMAIN Diffs[b] : Diffs[b][j].key \in DOMAIN ChainState[b - 1]}}

\* index_repeated_storage_changes: the next index after the batch.
IndexRepeated(b) == Cardinality(DOMAIN ChainState[b]) + 1

RootMatches(b, leaves) == b \notin BadBatches /\ leaves = ChainState[b]

=============================================================================
