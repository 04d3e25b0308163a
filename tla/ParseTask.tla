------------------------------ MODULE ParseTask ------------------------------
(***************************************************************************)
(* What the tasks around it may expect of the parsing task: it hands the   *)
(* batches of a transaction on, in order, once all of them are parsed;     *)
(* names the block of a transaction only after its last batch was handed   *)
(* on; cancels the run over a transaction that cannot be parsed, or when   *)
(* nobody takes its batches; and gives up only after a cancellation.  A    *)
(* transaction that cannot be parsed may also make it panic: then it names *)
(* no block, and cancels nobody.                                           *)
(***************************************************************************)
EXTENDS Integers

CONSTANTS
  Transactions,
  Count,    \* Count[t]: how many batches transaction t commits
  Block,    \* Block[t]: its L1 block
  Broken,   \* those that never parse
  Fallible, \* those that may fail because of what the blob server answers
  None

VARIABLES
  pc,       \* "recv", "parse", "send", "done" or "panicked"
  tx,       \* the transaction it works on
  handed,   \* how many of its batches were handed on
  last,     \* the block it names in the end
  stopping  \* the run is cancelled

taskVars == <<pc, tx, handed, last, stopping>>

Receive ==
  /\ pc = "recv" /\ ~stopping
  /\ tx' \in Transactions
  /\ pc' = "parse" /\ handed' = 0
  /\ UNCHANGED <<last, stopping>>

Parsed ==
  /\ pc = "parse" /\ tx \notin Broken
  /\ pc' = "send"
  /\ UNCHANGED <<tx, handed, last, stopping>>

Return == pc' = "done" /\ UNCHANGED <<tx, handed, last>>

Fail ==
  /\ pc = "parse" /\ tx \in Broken \cup Fallible
  /\ stopping' = TRUE
  /\ Return

Panic ==
  /\ pc = "parse" /\ tx \in Broken \cup Fallible
  /\ pc' = "panicked"
  /\ UNCHANGED <<tx, handed, last, stopping>>

GiveUp ==
  /\ pc = "parse" /\ stopping
  /\ UNCHANGED stopping
  /\ Return

HandOn ==
  /\ pc = "send" /\ handed < Count[tx]
  /\ handed' = handed + 1
  /\ UNCHANGED <<pc, tx, last, stopping>>

NobodyTakes ==
  /\ pc = "send" /\ handed < Count[tx]
  /\ stopping' = TRUE
  /\ Return

NameBlock ==
  /\ pc = "send" /\ handed = Count[tx]
  /\ last' = Block[tx]
  /\ pc' = "recv"
  /\ UNCHANGED <<tx, handed, stopping>>

\* Between two transactions it returns without further ado.
Leave == pc = "recv" /\ Return /\ UNCHANGED stopping

Stop ==
  /\ stopping' = TRUE
  /\ UNCHANGED <<pc, tx, handed, last>>

\* A run begins, here or in a process started anew.
Begin ==
  /\ pc' = "recv" /\ tx' = None /\ handed' = 0 /\ last' = None /\ stopping' = FALSE

TaskInit ==
  pc = "recv" /\ tx = None /\ handed = 0 /\ last = None /\ stopping = FALSE

TaskNext ==
  \/ Receive \/ Parsed \/ Fail \/ Panic \/ GiveUp \/ HandOn \/ NobodyTakes
  \/ NameBlock \/ Leave \/ Stop \/ Begin

TaskSpec == TaskInit /\ [][TaskNext]_taskVars

=============================================================================
