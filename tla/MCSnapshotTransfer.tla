------------------------- MODULE MCSnapshotTransfer -------------------------
(***************************************************************************)
(* A small chain for imports: two genesis keys; the first batch adds three *)
(* keys, so that its snapshot has five logs in three chunks, the last of   *)
(* them not full; the second adds one and takes the database past the      *)
(* snapshot; the third writes old keys only.                               *)
(***************************************************************************)
EXTENDS SnapshotTransfer

CONSTANTS k1, k2, k3, k4, k5, k6

MCWrite(k, o, v) == [key |-> k, op |-> o, value |-> v]

MCGenesis == <<[key |-> k1, value |-> 1], [key |-> k2, value |-> 2]>>

MCDiffs ==
  << <<MCWrite(k3, "add", 1), MCWrite(k4, "none", 2), MCWrite(k1, "add", 3),
       MCWrite(k5, "add", 2)>>,
     <<MCWrite(k6, "sub", 1), MCWrite(k3, "sub", 2), MCWrite(k5, "transform", 0)>>,
     <<MCWrite(k6, "add", 3), MCWrite(k4, "sub", 3)>> >>

=============================================================================
