----------------------------- MODULE KeyIndexDb -----------------------------
(***************************************************************************)
(* The key index of the reconstruction database                            *)
(* (ReconstructionDatabase::add_key and get_key): storage keys are given   *)
(* the indices 0, 1, 2, ... in the order they are first written, in two    *)
(* column families that map both ways and a counter in a third.            *)
(*                                                                         *)
(* add_key makes three separate writes.  The process may be killed between *)
(* them; what was written stays.  A value in a column family is an entry   *)
(* in the domain of a function.                                            *)
(***************************************************************************)
EXTENDS Integers

CONSTANTS
  Keys,        \* storage keys
  NoKey,
  MaxKills     \* bound: how often the process is killed

ASSUME KeyIndexAssumption == NoKey \notin Keys /\ MaxKills \in Nat

VARIABLES
  idx2key,    \* INDEX_TO_KEY_MAP
  key2idx,    \* KEY_TO_INDEX_MAP
  lastIndex,  \* LAST_REPEATED_KEY_INDEX: the next index to give
  addPc,      \* where add_key is: "idle", "idx2key", "key2idx" or "last"
  addKey,     \* the key it adds
  kills       \* how often the process was killed

dbVars  == <<idx2key, key2idx, lastIndex>>
keyVars == <<idx2key, key2idx, lastIndex, addPc, addKey, kills>>

-----------------------------------------------------------------------------
\* put_cf: the entry of x is v, whatever it was.
Put(f, x, v) == [y \in DOMAIN f \cup {x} |-> IF y = x THEN v ELSE f[y]]

KnownKeys == DOMAIN key2idx

\* get_key(i) finds a key.
HasKey(i) == i \in DOMAIN idx2key

-----------------------------------------------------------------------------
KeyInit ==
  /\ idx2key = [i \in {} |-> NoKey]
  /\ key2idx = [k \in {} |-> 0]
  /\ lastIndex = 0
  /\ addPc = "idle"
  /\ addKey = NoKey

\* A mutant: the early return for a key that is known already is dropped.
BeginAddAgain(k) ==
  /\ addPc = "idle"
  /\ addPc' = "idx2key"
  /\ addKey' = k
  /\ UNCHANGED dbVars

\* add_key(k) of a key that is not known yet; of another it changes nothing.
BeginAdd(k) ==
  /\ addPc = "idle"
  /\ k \notin KnownKeys
  /\ addPc' = "idx2key"
  /\ addKey' = k
  /\ UNCHANGED dbVars

\* A mutant: the counter is taken for the last index given.
PutLastIndexToKey ==
  /\ addPc = "idx2key"
  /\ idx2key' = Put(idx2key, IF lastIndex = 0 THEN 0 ELSE lastIndex - 1, addKey)
  /\ addPc' = "key2idx"
  /\ UNCHANGED <<key2idx, lastIndex, addKey>>

PutIndexToKey ==
  /\ addPc = "idx2key"
  /\ idx2key' = Put(idx2key, lastIndex, addKey)
  /\ addPc' = "key2idx"
  /\ UNCHANGED <<key2idx, lastIndex, addKey>>

PutKeyToIndex ==
  /\ addPc = "key2idx"
  /\ key2idx' = Put(key2idx, addKey, lastIndex)
  /\ addPc' = "last"
  /\ UNCHANGED <<idx2key, lastIndex, addKey>>

\* A mutant: the counter is not moved.
PutLastIndexSame ==
  /\ addPc = "last"
  /\ lastIndex' = lastIndex
  /\ addPc' = "idle"
  /\ addKey' = NoKey
  /\ UNCHANGED <<idx2key, key2idx>>

PutLastIndex ==
  /\ addPc = "last"
  /\ lastIndex' = lastIndex + 1
  /\ addPc' = "idle"
  /\ addKey' = NoKey
  /\ UNCHANGED <<idx2key, key2idx>>

AddStep == PutIndexToKey \/ PutKeyToIndex \/ PutLastIndex

\* The process is killed and started again: add_key is forgotten.
KillAdd ==
  /\ addPc' = "idle"
  /\ addKey' = NoKey
  /\ UNCHANGED dbVars

-----------------------------------------------------------------------------
(***************************************************************************)
(* The database by itself, with a caller that adds any keys.               *)
(***************************************************************************)
DbInit == KeyInit /\ kills = 0

AddAny == (\E k \in Keys : BeginAdd(k)) /\ UNCHANGED kills

Kill ==
  /\ kills < MaxKills
  /\ kills' = kills + 1
  /\ KillAdd

DbNext == AddAny \/ (AddStep /\ UNCHANGED kills) \/ Kill

DbSpec == DbInit /\ [][DbNext]_keyVars

-----------------------------------------------------------------------------
(***************************************************************************)
(* Properties                                                              *)
(***************************************************************************)
\* The type invariant of the key index.
KeyTypeOK ==
  /\ DOMAIN idx2key \subseteq 0..lastIndex
  /\ \A i \in DOMAIN idx2key : idx2key[i] \in Keys
  /\ DOMAIN key2idx \subseteq Keys
  /\ \A k \in DOMAIN key2idx : key2idx[k] \in 0..lastIndex
  /\ lastIndex \in Nat
  /\ addPc \in {"idle", "idx2key", "key2idx", "last"}
  /\ addKey \in Keys \cup {NoKey}
  /\ kills \in Nat

\* Every index below the counter has a key, and that key has this index:
\* wherever the process is killed, the lookup that replays repeated writes
\* finds a key that add_key knows under the same index.
IndexPointsBack ==
  \A i \in 0..(lastIndex - 1) :
    /\ HasKey(i)
    /\ idx2key[i] \in KnownKeys
    /\ key2idx[idx2key[i]] = i

\* An index that was given is never given to another key, kills or not.
IndexIsForEver ==
  [][\A i \in 0..(lastIndex - 1) : HasKey(i)' /\ idx2key'[i] = idx2key[i]]_keyVars

\* As long as the process is not killed, every key that add_key knows is found
\* under its index.  A kill between the last two writes breaks this: the next
\* key gets the index again, and repeated writes of the first one go astray.
NoKeyIsLost ==
  kills = 0 /\ addPc = "idle" =>
    \A k \in KnownKeys : HasKey(key2idx[k]) /\ idx2key[key2idx[k]] = k

=============================================================================
