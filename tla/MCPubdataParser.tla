---------------------------- MODULE MCPubdataParser ----------------------------
(***************************************************************************)
(* Batches of at most two writes, over keys and values whose bytes are     *)
(* zero at the one end or at the other.                                    *)
(***************************************************************************)
EXTENDS PubdataParser

\* Only "none" has values of three significant bytes, and with those of fewer it
\* is not what an operator would choose; "unknown" is one of a later format.
MCWrites ==
  LET Keys == {1, 256, 65538}
  IN  [key : Keys, op : {"add"}, value : {0, 1, 256}]
      \cup [key : Keys, op : {"sub", "transform"}, value : {257}]
      \cup [key : Keys, op : {"none"}, value : {0, 256, 65536, 65537}]
      \cup [key : Keys, op : {"unknown"}, value : {1}]

\* One or two writes of a batch have different keys.
MCSeqs ==
  {<<w>> : w \in MCWrites} \cup {ww \in MCWrites \X MCWrites : ww[1].key < ww[2].key}

MCBatch(l, m, c, i, r, v, w) ==
  [logs |-> l, messages |-> m, codes |-> c, initial |-> i, repeated |-> r,
   version |-> v, width |-> w]

MCCommitted ==
  {MCBatch(0, <<>>, <<>>, i, <<>>, 1, 4) : i \in MCSeqs}
  \cup {MCBatch(0, <<>>, <<>>, <<[w EXCEPT !.key = 0]>>, <<>>, 1, 4) : w \in MCWrites}
  \cup {MCBatch(0, <<>>, <<>>, <<>>, r, 1, 5) : r \in MCSeqs}
  \cup {MCBatch(1, <<<<0>>>>, <<<<5, 0>>, <<6>>>>, <<i>>, <<r>>, 1, 4) :
          i \in MCWrites, r \in MCWrites}
  \cup {MCBatch(l, <<<<>>, <<1, 1>>>>, <<<<>>>>, <<>>, <<>>, v, w) :
          l \in {0, 2}, v \in {1, 2}, w \in {4, 6}}
  \cup {MCBatch(0, <<>>, <<>>, <<>>, <<r>>, 1, 6) : r \in MCWrites}

=============================================================================
