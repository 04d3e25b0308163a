---------------------------- MODULE MCSnapshotFiles ----------------------------
(***************************************************************************)
(* Three states of the database: batch 1, the same with batch 2 partly     *)
(* inserted, which fills one chunk more and still goes by number 1, and    *)
(* batch 2.  Both numbers have equally many digits.  There are three       *)
(* spellings of the directory: an absolute one and two relative ones of    *)
(* different lengths, one of them as long as the absolute one.             *)
(***************************************************************************)
EXTENDS SnapshotFiles

CONSTANTS first, between, second

MCNumber == [s \in Snapshots |-> IF s = second THEN 2 ELSE 1]

MCChunks == [s \in Snapshots |-> IF s = first THEN 1 ELSE 2]

MCWidth == [sp \in Snapshots \X Paths |-> IF sp[2] = "short" THEN 1 ELSE 2]

=============================================================================
