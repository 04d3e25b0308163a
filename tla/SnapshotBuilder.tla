--------------------------- MODULE SnapshotBuilder ---------------------------
(***************************************************************************)
(* `prepare-snapshot`: the builder writes the storage logs of each batch   *)
(* into a database of its own, with no tree and no roots to compare        *)
(* (SnapshotBuilder::new and run, SnapshotDatabase), and a later run goes  *)
(* on from the L1 block the database names.                                *)
(*                                                                         *)
(* Each write is a step, and the process may be killed between any two.    *)
(* The fetcher hands over the batches of the blocks from the start block   *)
(* on, in order; the user may interrupt it after any batch.  Each batch    *)
(* has a commit transaction of its own.  Left out are the factory          *)
(* dependencies and the number of the L2 block, which no other write       *)
(* depends on, and the batch of the first write that a log records.        *)
(***************************************************************************)
EXTENDS L2Ledger

CONSTANTS
  Keys,         \* storage keys
  NoKey,
  L1Block,      \* L1Block[b]: the L1 block that commits batch b
  MaxKills,     \* bound: how often the process is killed
  MaxSessions   \* bound: how often the command is started

ASSUME SnapshotAssumption ==
  /\ KeysOf(Genesis) \subseteq Keys
  /\ \A b \in Batches : KeysOf(Diffs[b]) \subseteq Keys
  /\ NoKey \notin Keys
  /\ L1Block \in [Batches -> Nat \ {0}]
  /\ \A a, b \in Batches : a <= b => L1Block[a] <= L1Block[b]
  /\ MaxKills \in Nat /\ MaxSessions \in Nat

VARIABLES
  logs,           \* STORAGE_LOGS: the index and value of each key
  idx2key,        \* INDEX_TO_KEY_MAP
  lastIdx,        \* LAST_REPEATED_KEY_INDEX
  latestBatch,    \* LATEST_L1_BATCH, 0 if there is none
  latestL1Block,  \* LATEST_L1_BLOCK, 0 if there is none
  pc,             \* where the builder is; "closed" when it does not run
  write,          \* where insert_storage_log is: "index", "last" or "log"
  pos,            \* the log it inserts
  pending,        \* the repeated changes that are left to do
  block,          \* the batch it works on
  offer,          \* the batch the fetcher sends next
  sessions, kills,
  torn,           \* history: killed after the first lasting write of a batch
  split           \* history: a session began inside an L1 block

dbVars   == <<logs, idx2key, lastIdx, latestBatch, latestL1Block>>
workVars == <<pc, write, pos, pending, block, offer>>
snapVars == <<dbVars, workVars, sessions, kills, torn, split>>

-----------------------------------------------------------------------------
Put(f, x, v) == [y \in DOMAIN f \cup {x} |-> IF y = x THEN v ELSE f[y]]

\* A mutant: a packed write starts from zero.
ProcessValueFresh(k, op, v) == IF op = "sub" THEN (0 - v) % Modulus ELSE v

\* process_value: the word that a packed write leaves under key k.
ProcessValue(k, op, v) ==
  LET existing == ValueIn(logs, k)
  IN  CASE op = "add" -> (existing + v) % Modulus
        [] op = "sub" -> (existing - v) % Modulus
        [] OTHER      -> v

\* The logs that are inserted one after the other.
Inserts ==
  IF pc = "genesis"
  THEN [i \in DOMAIN Genesis |->
         [key |-> Genesis[i].key, op |-> "none", value |-> Genesis[i].value]]
  ELSE InitialChanges(block)

\* A mutant: one block too many is taken for done.
StartBlockTwoOn == IF latestL1Block > 0 THEN latestL1Block + 2 ELSE 0

\* The start block: the one after the stored block, if there is one.
StartBlock == IF latestL1Block > 0 THEN latestL1Block + 1 ELSE 0

\* The first batch of the blocks from n on.
FirstFrom(n) ==
  IF \E b \in Batches : L1Block[b] >= n
  THEN CHOOSE b \in Batches : L1Block[b] >= n /\ \A c \in Batches : L1Block[c] >= n => b <= c
  ELSE NumBatches + 1

-----------------------------------------------------------------------------
SnapInit ==
  /\ logs = [k \in {} |-> 0]
  /\ idx2key = [i \in {} |-> NoKey]
  /\ lastIdx = 0 /\ latestBatch = 0 /\ latestL1Block = 0
  /\ pc = "closed" /\ write = "index" /\ pos = 1 /\ pending = {}
  /\ block = 0 /\ offer = 1
  /\ sessions = 0 /\ kills = 0 /\ torn = FALSE /\ split = FALSE

\* SnapshotBuilder::new, and main decides the block to start from.
Open ==
  /\ pc = "closed"
  /\ sessions < MaxSessions
  /\ sessions' = sessions + 1
  /\ pc' = IF lastIdx = 0 THEN "genesis" ELSE "recv"
  /\ write' = "index" /\ pos' = 1 /\ pending' = {} /\ block' = 0
  /\ offer' = FirstFrom(StartBlock)
  /\ split' = (split \/ (latestBatch \in 1..(NumBatches - 1)
                           /\ L1Block[latestBatch + 1] = latestL1Block))
  /\ UNCHANGED <<dbVars, kills, torn>>

\* A mutant: the index is not moved before it is used.
PutIndexSame ==
  /\ pc \in {"genesis", "initial"}
  /\ write = "index" /\ pos <= Len(Inserts)
  /\ idx2key' = Put(idx2key, lastIdx, Inserts[pos].key)
  /\ write' = "last"
  /\ UNCHANGED <<logs, lastIdx, latestBatch, latestL1Block, pc, pos, pending,
                 block, offer, sessions, kills, torn, split>>

\* insert_storage_log makes three writes.
PutIndex ==
  /\ pc \in {"genesis", "initial"}
  /\ write = "index" /\ pos <= Len(Inserts)
  /\ idx2key' = Put(idx2key, lastIdx + 1, Inserts[pos].key)
  /\ write' = "last"
  /\ UNCHANGED <<logs, lastIdx, latestBatch, latestL1Block, pc, pos, pending,
                 block, offer, sessions, kills, torn, split>>

PutLast ==
  /\ write = "last"
  /\ lastIdx' = lastIdx + 1
  /\ write' = "log"
  /\ UNCHANGED <<logs, idx2key, latestBatch, latestL1Block, pc, pos, pending,
                 block, offer, sessions, kills, torn, split>>

\* The value was computed before the three writes; none of them changes it.
PutLog ==
  /\ write = "log"
  /\ LET w == Inserts[pos]
     IN  logs' = Put(logs, w.key, [index |-> lastIdx,
                                   value |-> ProcessValue(w.key, w.op, w.value)])
  /\ write' = "index"
  /\ pos' = pos + 1
  /\ UNCHANGED <<idx2key, lastIdx, latestBatch, latestL1Block, pc, pending,
                 block, offer, sessions, kills, torn, split>>

Inserted == write = "index" /\ pos > Len(Inserts)

GenesisDone ==
  /\ pc = "genesis"
  /\ Inserted
  /\ pc' = "recv"
  /\ UNCHANGED <<dbVars, write, pos, pending, block, offer, sessions, kills,
                 torn, split>>

-----------------------------------------------------------------------------
ReceiveBlock ==
  /\ pc = "recv"
  /\ offer <= NumBatches
  /\ block' = offer
  /\ offer' = offer + 1
  /\ pos' = 1
  /\ pc' = "initial"
  /\ UNCHANGED <<dbVars, write, pending, sessions, kills, torn, split>>

InitialDone ==
  /\ pc = "initial"
  /\ Inserted
  /\ pending' = RepeatedChanges(block)
  /\ pc' = "repeated"
  /\ UNCHANGED <<dbVars, write, pos, block, offer, sessions, kills, torn, split>>

\* get_key_from_index and update_storage_log_value.
UpdateLog ==
  /\ pc = "repeated"
  /\ \E r \in pending :
       /\ r.index \in DOMAIN idx2key
       /\ idx2key[r.index] \in DOMAIN logs
       /\ LET k == idx2key[r.index]
          IN  logs' = [logs EXCEPT ![k].value = ProcessValue(k, r.op, r.value)]
       /\ pending' = pending \ {r}
  /\ UNCHANGED <<idx2key, lastIdx, latestBatch, latestL1Block, pc, write, pos,
                 block, offer, sessions, kills, torn, split>>

\* No key has the index, or the key has no log: the task panics.
LookupPanics ==
  /\ pc = "repeated"
  /\ \E r \in pending :
       r.index \in DOMAIN idx2key => idx2key[r.index] \notin DOMAIN logs
  /\ pc' = "panicked"
  /\ UNCHANGED <<dbVars, write, pos, pending, block, offer, sessions, kills,
                 torn, split>>

SetBatch ==
  /\ pc = "repeated"
  /\ pending = {}
  /\ latestBatch' = block
  /\ pc' = "stored"
  /\ UNCHANGED <<logs, idx2key, lastIdx, latestL1Block, write, pos, pending,
                 block, offer, sessions, kills, torn, split>>

SetBlock ==
  /\ pc = "stored"
  /\ latestL1Block' = L1Block[block]
  /\ pc' = "recv"
  /\ UNCHANGED <<logs, idx2key, lastIdx, latestBatch, write, pos, pending, block,
                 offer, sessions, kills, torn, split>>

\* The fetcher is at its end, was interrupted, or the builder panicked.
Close ==
  /\ pc \in {"recv", "panicked"}
  /\ pc' = "closed"
  /\ UNCHANGED <<dbVars, write, pos, pending, block, offer, sessions, kills,
                 torn, split>>

\* Nothing of the batch, or of the genesis state, has a lasting effect yet: an
\* entry of the index above the counter is written again.
Untouched == pc = "recv" \/ (pc \in {"genesis", "initial"} /\ pos = 1 /\ write # "log")

KillBuilder ==
  /\ pc \notin {"closed", "panicked"}
  /\ kills < MaxKills
  /\ kills' = kills + 1
  /\ pc' = "closed"
  /\ write' = "index"
  /\ torn' = (torn \/ ~Untouched)
  /\ UNCHANGED <<dbVars, pos, pending, block, offer, sessions, split>>

SnapNext ==
  \/ Open \/ PutIndex \/ PutLast \/ PutLog \/ GenesisDone \/ ReceiveBlock
  \/ InitialDone \/ UpdateLog \/ LookupPanics \/ SetBatch \/ SetBlock \/ Close
  \/ KillBuilder

SnapSpec == SnapInit /\ [][SnapNext]_snapVars

-----------------------------------------------------------------------------
(***************************************************************************)
(* Properties                                                              *)
(***************************************************************************)
\* Wherever the process is killed, every index up to the counter has a key, and
\* the log of a key carries an index under which that key is found: what the
\* exporter reads through the index are the logs, each with its own index.
LogsPointBack ==
  /\ \A i \in 1..lastIdx : i \in DOMAIN idx2key
  /\ \A k \in DOMAIN logs : idx2key[logs[k].index] = k

\* Between two batches the database holds the state of the chain after
\* LATEST_L1_BATCH, indices included, whatever was interrupted and however often
\* the process was killed, unless a kill fell inside a batch or a session began
\* inside an L1 block.
SnapshotIsTheChain ==
  pc = "recv" /\ ~torn /\ ~split => logs = ChainState[latestBatch]

\* No lookup of a repeated change fails but for the same two reasons.
LookupsFindTheirKeys == pc = "panicked" => torn \/ split

\* The message of main says that a run with an existing database continues from
\* the L1 block it names: the first batch that is received is the one that
\* follows LATEST_L1_BATCH.
ContinuesFromTheStoredBlock == pc = "initial" => block <= latestBatch + 1

=============================================================================
