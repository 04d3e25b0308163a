---------------------------- MODULE BatchSearch ----------------------------
(***************************************************************************)
(* The search for the L1 block of the last batch of an imported snapshot   *)
(* (L1Fetcher::map_l1_batch_to_l1_block): a binary search over the blocks  *)
(* between the genesis block and the last finalized one.  A probe reads    *)
(* the BlockCommit events of the Step + 1 blocks that start at the current *)
(* one, whatever the bounds of the search are.                             *)
(*                                                                         *)
(* New L1 blocks appear while the search goes on; their events are visible *)
(* to a probe although they are not finalized.                             *)
(***************************************************************************)
EXTENDS CommitLedger

CONSTANTS
  Genesis,  \* GENESIS_BLOCK
  Step,     \* BLOCK_STEP
  MaxHead   \* bound: the last L1 block that appears

ASSUME SearchAssumption ==
  Genesis \in Nat /\ Step \in Nat \ {0} /\ MaxHead \in Nat

VARIABLES
  target,     \* target_batch_number; the chain may not have this batch yet
  head,       \* the last L1 block whose events the node returns
  searchTip,  \* the last finalized block when the search began
  lower,      \* lower_block_number
  upper,      \* upper_block_number
  current,    \* current_block_number
  searchPc,   \* "searching", or how the search ended: "found", "missing",
              \* "failed" or "cancelled"
  stop        \* the cancellation token

searchVars == <<target, head, searchTip, lower, upper, current, searchPc, stop>>

-----------------------------------------------------------------------------
\* The batches whose events a probe returns.
Seen ==
  {b \in Batches : current <= BlockOf(b) /\ BlockOf(b) <= current + Step
                     /\ BlockOf(b) <= head}

TargetIsHigher == target \notin Seen /\ \E b \in Seen : b < target
TargetIsLower  == target \notin Seen /\ \E b \in Seen : b > target

\* A mutant: the bounds are not averaged.
MiddleSum(l, u) == l + u

Middle(l, u) == (l + u) \div 2

\* The test at the end of the loop: nothing is left between the bounds.
EndTest == searchPc' = IF upper' - lower' <= 1 THEN "missing" ELSE "searching"

-----------------------------------------------------------------------------
\* The finalized chain is longer than the two blocks that leave nothing to halve.
SearchInit ==
  /\ target \in 1..(NumBatches + 1)
  /\ head \in 0..MaxHead
  /\ searchTip \in (Genesis + 2)..head
  /\ lower = Genesis
  /\ upper = searchTip
  /\ current = Middle(Genesis, searchTip)
  /\ searchPc = "searching"
  /\ stop = FALSE

\* The event is there, and so is its transaction with a block number.
Found ==
  /\ searchPc = "searching"
  /\ ~stop
  /\ target \in Seen
  /\ searchPc' = "found"
  /\ UNCHANGED <<target, head, searchTip, lower, upper, current, stop>>

\* The event is there; the transaction cannot be fetched or has no block number.
FoundFails ==
  /\ searchPc = "searching"
  /\ ~stop
  /\ target \in Seen
  /\ searchPc' = "failed"
  /\ UNCHANGED <<target, head, searchTip, lower, upper, current, stop>>

\* A mutant: the same block is probed again.
GoHigherAgain ==
  /\ searchPc = "searching"
  /\ ~stop
  /\ TargetIsHigher
  /\ lower' = current
  /\ UNCHANGED <<target, head, searchTip, upper, current, stop>>
  /\ EndTest

GoHigher ==
  /\ searchPc = "searching"
  /\ ~stop
  /\ TargetIsHigher
  /\ lower' = current
  /\ current' = Middle(current, upper)
  /\ UNCHANGED <<target, head, searchTip, upper, stop>>
  /\ EndTest

\* A mutant: the upper bound excludes the block below the one probed as well.
GoLowerBelow ==
  /\ searchPc = "searching"
  /\ ~stop
  /\ ~TargetIsHigher /\ TargetIsLower
  /\ upper' = current - 1
  /\ current' = Middle(lower, current - 1)
  /\ UNCHANGED <<target, head, searchTip, lower, stop>>
  /\ EndTest

GoLower ==
  /\ searchPc = "searching"
  /\ ~stop
  /\ ~TargetIsHigher /\ TargetIsLower
  /\ upper' = current
  /\ current' = Middle(lower, current)
  /\ UNCHANGED <<target, head, searchTip, lower, stop>>
  /\ EndTest

\* No event in the window, or no answer: the bounds stay as they are.
LearnNothing ==
  /\ searchPc = "searching"
  /\ ~stop
  /\ UNCHANGED <<target, head, searchTip, lower, upper, current, stop>>
  /\ EndTest

StopSearch ==
  /\ searchPc = "searching"
  /\ stop
  /\ searchPc' = "cancelled"
  /\ UNCHANGED <<target, head, searchTip, lower, upper, current, stop>>

Probe == Found \/ FoundFails \/ GoHigher \/ GoLower \/ StopSearch

NewBlock ==
  /\ head < MaxHead
  /\ head' = head + 1
  /\ UNCHANGED <<target, searchTip, lower, upper, current, searchPc, stop>>

CancelSearch ==
  /\ ~stop
  /\ stop' = TRUE
  /\ UNCHANGED <<target, head, searchTip, lower, upper, current, searchPc>>

SearchNext == Probe \/ LearnNothing \/ NewBlock \/ CancelSearch

\* The node answers in the end; nothing makes the chain grow or the user cancel.
SearchSpec ==
  SearchInit /\ [][SearchNext]_searchVars /\ WF_searchVars(Probe)

-----------------------------------------------------------------------------
(***************************************************************************)
(* Properties                                                              *)
(***************************************************************************)
\* The type invariant of the search: the block that is probed next lies
\* between the bounds.
SearchTypeOK ==
  /\ target \in Nat
  /\ head \in Nat
  /\ searchTip \in Nat
  /\ lower \in Nat /\ upper \in Nat /\ current \in Nat
  /\ lower <= current /\ current <= upper /\ upper <= searchTip
  /\ searchPc \in {"searching", "found", "missing", "failed", "cancelled"}
  /\ stop \in BOOLEAN

\* The batch was committed after the genesis block and is finalized.
TargetIsOnChain ==
  /\ target \in Batches
  /\ Genesis < BlockOf(target)
  /\ BlockOf(target) <= searchTip

\* The search never says that a batch does not exist yet although it lies in a
\* finalized block: halving the bounds, one of which was never probed, drops no
\* block, and decide_start_block does not fall back to the start of the chain.
MissingIsHonest == searchPc = "missing" => ~TargetIsOnChain

\* Each window of Step + 1 blocks up to the finalized one has an event.
NoQuietWindow ==
  \A n \in Genesis..(searchTip - 1) :
    \E b \in Batches : n <= BlockOf(b) /\ BlockOf(b) <= n + Step /\ BlockOf(b) <= head

\* The search ends when no window is quiet.  (A window without events changes
\* no bound, and the same window is read again for ever.)
SearchEnds == NoQuietWindow ~> searchPc # "searching"

=============================================================================
