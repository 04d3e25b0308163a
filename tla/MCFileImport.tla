---------------------------- MODULE MCFileImport ----------------------------
(***************************************************************************)
(* A file of at most four batches over two genesis keys: each of the first *)
(* three adds a key, the last one, which is wrong, only changes old ones.  *)
(***************************************************************************)
EXTENDS FileImport

CONSTANTS k1, k2, k3, k4, k5

MCWrite(k, o, v) == [key |-> k, op |-> o, value |-> v]

MCGenesis == <<[key |-> k1, value |-> 1], [key |-> k2, value |-> 2]>>

MCDiffs ==
  << <<MCWrite(k3, "add", 1), MCWrite(k1, "add", 3)>>,
     <<MCWrite(k4, "none", 2), MCWrite(k3, "sub", 2)>>,
     <<MCWrite(k5, "sub", 1), MCWrite(k1, "transform", 0)>>,
     <<MCWrite(k5, "add", 3), MCWrite(k2, "sub", 3)>> >>

=============================================================================
