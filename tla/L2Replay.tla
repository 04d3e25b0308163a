------------------------------ MODULE L2Replay ------------------------------
(***************************************************************************)
(* What a state reconstruction promises: the states of the chain one after *)
(* the other, from the genesis state on.                                   *)
(***************************************************************************)
EXTENDS Integers

CONSTANTS
  NumBatches,  \* batches published: 1..NumBatches
  ChainState   \* the state after the genesis block, 0, and after each batch

VARIABLES state, batch

ReplayInit == DOMAIN state = {} /\ batch = 0

StartFromGenesis ==
  /\ DOMAIN state = {}
  /\ state' = ChainState[0]
  /\ UNCHANGED batch

ReplayBatch ==
  /\ batch < NumBatches
  /\ batch' = batch + 1
  /\ state = ChainState[batch]
  /\ state' = ChainState[batch + 1]

ReplayNext == StartFromGenesis \/ ReplayBatch

ReplaySpec == ReplayInit /\ [][ReplayNext]_<<state, batch>>

=============================================================================
