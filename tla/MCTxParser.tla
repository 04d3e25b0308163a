------------------------------ MODULE MCTxParser ------------------------------
(***************************************************************************)
(* Transactions of all three formats, those at the upgrade blocks among    *)
(* them; the third has two batches, of one blob and of two.  The fifth has *)
(* a batch that gives an error after one that parses, the next one a batch *)
(* that is read past its end, and the last one calls a function of a later *)
(* protocol.                                                               *)
(***************************************************************************)
EXTENDS TxParser

MCTx(b, f, tokens) == [block |-> b, function |-> f, tokens |-> tokens]
MCToken(f, n, body) == [format |-> f, blobs |-> n, body |-> body]

MCFeed ==
  << MCTx(1, "commitBlocks", <<MCToken("V1", 0, "good")>>),
     MCTx(2, "commitBatches", <<MCToken("V2", 0, "good"), MCToken("V2", 0, "good")>>),
     MCTx(4, "commitBatchesSharedBridge", <<MCToken("V3", 1, "good"), MCToken("V3", 2, "good")>>),
     MCTx(5, "commitBatches", <<MCToken("V3", 0, "good")>>),
     MCTx(5, "commitBatches", <<MCToken("V3", 1, "good"), MCToken("V3", 1, "bad")>>),
     MCTx(5, "commitBatches", <<MCToken("V3", 0, "good"), MCToken("V3", 1, "short")>>),
     MCTx(6, "other", <<MCToken("V3", 0, "good")>>) >>

=============================================================================
