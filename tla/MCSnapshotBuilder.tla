-------------------------- MODULE MCSnapshotBuilder --------------------------
(***************************************************************************)
(* A small chain for the builder: two genesis keys, four batches, the      *)
(* second and the third in one L1 block; each of the first three writes a  *)
(* new key and an old one, the last only old keys.                         *)
(***************************************************************************)
EXTENDS SnapshotBuilder

CONSTANTS k1, k2, k3, k4, k5

MCWrite(k, o, v) == [key |-> k, op |-> o, value |-> v]

MCGenesis == <<[key |-> k1, value |-> 1], [key |-> k2, value |-> 2]>>

MCDiffs ==
  << <<MCWrite(k3, "add", 1), MCWrite(k1, "add", 3)>>,
     <<MCWrite(k4, "none", 2), MCWrite(k3, "sub", 2)>>,
     <<MCWrite(k5, "sub", 1), MCWrite(k4, "sub", 3)>>,
     <<MCWrite(k5, "add", 2), MCWrite(k1, "transform", 0)>> >>

MCL1Block == <<1, 2, 2, 3>>

=============================================================================
