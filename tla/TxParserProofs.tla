---------------------------- MODULE TxParserProofs ----------------------------
(***************************************************************************)
(* The safety of the parsing task for every feed of transactions, any      *)
(* number of attempts and any behaviour of the blob server: its type       *)
(* invariant, the blobs of its blocks, and the refinement of ParseTask.    *)
(***************************************************************************)
EXTENDS TxParser, SequenceTheorems, TLAPS

\* A blob is named by its transaction, its token and its number, unless it is wrong.
Blob  == (Nat \X Nat \X Nat) \cup {Wrong}
Block == [token : Nat, blobs : Seq(Blob)]

InParsing == parsePc \in {"token", "request", "sleep", "send"}

\* What parsing has gathered is told from its result only in between.
Gathered == blobs \in Seq(Blob) /\ blocks \in Seq(Block)

\* boojum_mode is what the block of the transaction says.
ModeInv ==
  /\ parseTx = None => ~boojumMode
  /\ parseTx # None => (boojumMode <=> Feed[parseTx].block >= Boojum)

\* The blocks that are parsed are those of the first tokens, and the blobs that
\* are fetched the first ones of the token at hand.
BlocksInv ==
  InParsing =>
    /\ Len(blocks) <= Len(Tokens)
    /\ \A j \in 1..Len(blocks) :
         /\ Tokens[j].body = "good"
         /\ blocks[j].token = j /\ Len(blocks[j].blobs) = Tokens[j].blobs
         /\ \A n \in 1..Tokens[j].blobs : blocks[j].blobs[n] \in {Wrong, <<parseTx, j, n>>}

BlobsInv ==
  InParsing =>
    /\ \A n \in 1..Len(blobs) : blobs[n] \in {Wrong, <<parseTx, Len(blocks) + 1, n>>}
    /\ Len(blocks) < Len(Tokens) => Len(blobs) <= Token.blobs

\* Where the task is, and what it can say there of the transaction.
StageInv ==
  /\ InParsing => Feed[parseTx].function # "other"
  /\ parsePc \in {"request", "sleep"} =>
       Len(blobs) < Token.blobs /\ Len(blocks) < Len(Tokens)
  /\ parsePc = "send" => Len(blocks) = Len(Tokens)
  /\ parsePc \in {"calldata", "token", "request", "sleep", "wait"} => handed = 0

TxInv == TxTypeOK /\ Gathered /\ ModeInv /\ BlocksInv /\ BlobsInv /\ StageInv

-----------------------------------------------------------------------------
\* What the assumption says of one transaction, and of one token.
LEMMA FeedTypes ==
  /\ Len(Feed) \in Nat /\ DOMAIN Feed = 1..Len(Feed)
  /\ \A t \in DOMAIN Feed :
       /\ t \in Nat /\ t # None /\ Feed[t].block \in Nat
       /\ Feed[t].function \in Functions \cup {"other"}
       /\ Len(Feed[t].tokens) \in Nat
       /\ DOMAIN Feed[t].tokens = 1..Len(Feed[t].tokens)
       /\ \A j \in 1..Len(Feed[t].tokens) :
            /\ Feed[t].tokens[j].blobs \in Nat
            /\ Feed[t].tokens[j].body \in {"good", "bad", "short"}
            /\ Feed[t].tokens[j].format \in {"V1", "V2", "V3"}
<1> DEFINE Tok == [format : {"V1", "V2", "V3"}, blobs : Nat,
                   body : {"good", "bad", "short"}]
           Tx  == [block : Nat, function : Functions \cup {"other"}, tokens : Seq(Tok)]
<1>1. Feed \in Seq(Tx)
  BY FeedAssumption
<1> HIDE DEF Tx
<1>2. Len(Feed) \in Nat /\ DOMAIN Feed = 1..Len(Feed)
      /\ \A t \in 1..Len(Feed) : Feed[t] \in Tx
  BY <1>1, LenProperties, ElementOfSeq
<1>3. ASSUME NEW t \in DOMAIN Feed
      PROVE  /\ t \in Nat /\ t # None /\ Feed[t].block \in Nat
             /\ Feed[t].function \in Functions \cup {"other"}
             /\ Feed[t].tokens \in Seq(Tok)
  <2> HIDE DEF Tok
  <2> QED BY <1>2, <1>3, FeedAssumption DEF Tx
<1>4. ASSUME NEW t \in DOMAIN Feed
      PROVE  /\ Len(Feed[t].tokens) \in Nat
             /\ DOMAIN Feed[t].tokens = 1..Len(Feed[t].tokens)
             /\ \A j \in 1..Len(Feed[t].tokens) : Feed[t].tokens[j] \in Tok
  <2> HIDE DEF Tok
  <2> QED BY <1>3, <1>4, LenProperties, ElementOfSeq
<1> QED BY <1>2, <1>3, <1>4

\* A token is written in the format of its L1 block, and a transaction before the
\* upgrade calls the older function.
LEMMA FormatsAgree ==
  ASSUME NEW t \in DOMAIN Feed
  PROVE  /\ \A j \in 1..Len(Feed[t].tokens) :
              Feed[t].tokens[j].format = FormatOf(Feed[t].block)
         /\ Feed[t].function # "other" =>
              (Feed[t].function = "commitBlocks" <=> Feed[t].block < Boojum)
<1>1. Boojum \in Nat /\ BlobBlock \in Nat /\ Boojum <= BlobBlock
  BY FeedAssumption
<1>2. \A j \in DOMAIN Feed[t].tokens :
        /\ Feed[t].tokens[j].format = "V1" <=> Feed[t].block < Boojum
        /\ Feed[t].tokens[j].format = "V3" <=> Feed[t].block >= BlobBlock
  BY FeedAssumption
<1>3. Feed[t].function # "other" =>
        (Feed[t].function = "commitBlocks" <=> Feed[t].block < Boojum)
  BY FeedAssumption
<1> QED BY <1>1, <1>2, <1>3, FeedTypes DEF FormatOf

\* Later transactions of the feed are in later blocks, or the same.
LEMMA BlocksRise ==
  ASSUME NEW s \in DOMAIN Feed, NEW t \in DOMAIN Feed, s <= t
  PROVE  Feed[s].block <= Feed[t].block
BY FeedAssumption

-----------------------------------------------------------------------------
\* A task that starts satisfies the invariant.
LEMMA TxInitInv == TxInit => TxInv
<1> SUFFICES ASSUME TxInit PROVE TxInv
  OBVIOUS
<1>1. blobs = <<>> /\ blocks = <<>> /\ parsePc = "recv" /\ parseTx = None /\ handed = 0
  BY DEF TxInit
<1>2. Gathered
  BY <1>1, EmptySeq DEF Gathered
<1>3. TxTypeOK
  <2>1. Len(blocks) = 0
    BY <1>1, EmptySeq
  <2>2. attempt \in 1..MaxRetries /\ changes \in 0..MaxChanges /\ handed \in 0..Len(blocks)
    BY <1>1, <2>1, FeedAssumption DEF TxInit
  <2> QED BY <1>1, <2>2 DEF TxInit, TxTypeOK
<1> QED
  BY <1>1, <1>2, <1>3
     DEF TxInit, TxInv, ModeInv, BlocksInv, BlobsInv, StageInv, InParsing

\* Steps that leave the transaction, what was gathered, and all that follows from
\* them as it is.
LEMMA TxInvKept ==
  ASSUME TxInv, UNCHANGED <<parseTx, boojumMode, blobs, blocks>>, TxTypeOK',
         StageInv', InParsing' => InParsing
  PROVE  TxInv'
<1>1. Gathered' /\ ModeInv'
  BY DEF TxInv, Gathered, ModeInv
<1>2. BlocksInv' /\ BlobsInv'
  BY DEF TxInv, BlocksInv, BlobsInv, Tokens, Token
<1> QED BY <1>1, <1>2 DEF TxInv

\* The end of the task, by a return or a panic, does not ask where it was.
LEMMA TxInvEnds ==
  ASSUME TxInv, parsePc' \in {"done", "panicked"}, cancelled' \in BOOLEAN,
         parsePc' = "panicked" => parseTx # None,
         UNCHANGED <<parseTx, boojumMode, fetchVars, handed, lastParsed, envVars>>
  PROVE  TxInv'
<1>1. TxTypeOK'
  BY DEF TxInv, TxTypeOK, envVars, fetchVars
<1>2. StageInv' /\ ~InParsing'
  BY DEF StageInv, InParsing
<1> QED BY <1>1, <1>2, TxInvKept DEF fetchVars

LEMMA TxInvReturn ==
  ASSUME TxInv, Return, cancelled' \in BOOLEAN
  PROVE  TxInv'
BY TxInvEnds DEF Return

\* A token that is resolved adds its block.
LEMMA TxInvResolved ==
  ASSUME TxInv, parsePc = "token", Len(blocks) < Len(Tokens), Readable,
         Len(blobs) = Token.blobs, Resolved(blobs)
  PROVE  TxInv'
<1> DEFINE b == [token |-> Len(blocks) + 1, blobs |-> blobs]
<1>1. /\ parseTx \in DOMAIN Feed /\ parseTx \in Nat
      /\ Len(blocks) \in Nat /\ Len(blobs) \in Nat
      /\ blobs \in Seq(Blob) /\ blocks \in Seq(Block)
      /\ Len(Tokens) \in Nat
  BY FeedTypes, LenProperties DEF TxInv, TxTypeOK, Gathered, Tokens
<1>2. b \in Block
  BY <1>1 DEF Block
<1>3. blocks' = Append(blocks, b) /\ blobs' = <<>> /\ parsePc' = "token"
      /\ parseTx' = parseTx /\ boojumMode' = boojumMode /\ handed' = handed
  BY DEF Resolved
<1> HIDE DEF b
<1>4. /\ blocks' \in Seq(Block) /\ Len(blocks') = Len(blocks) + 1
      /\ \A j \in 1..Len(blocks) : blocks'[j] = blocks[j]
      /\ blocks'[Len(blocks) + 1] = b
  BY <1>1, <1>2, <1>3, AppendProperties
<1>5. blobs' \in Seq(Blob) /\ Len(blobs') = 0
  BY <1>3, EmptySeq
<1>6. /\ b.token = Len(blocks) + 1 /\ b.blobs = blobs
      /\ \A n \in 1..Token.blobs : blobs[n] \in {Wrong, <<parseTx, Len(blocks) + 1, n>>}
  BY DEF TxInv, BlobsInv, InParsing, b
<1>7. Gathered' /\ ModeInv'
  BY <1>3, <1>4, <1>5 DEF TxInv, Gathered, ModeInv
<1>8. TxTypeOK' /\ StageInv'
  <2>1. handed = 0
    BY DEF TxInv, StageInv
  <2>2. attempt' = 1 /\ UNCHANGED <<skipped, sinkOpen, server, changes, cancelled, lastParsed>>
    BY DEF Resolved, envVars
  <2>3. TxTypeOK'
    BY <1>1, <1>3, <1>4, <2>1, <2>2, FeedAssumption DEF TxInv, TxTypeOK
  <2>4. Feed[parseTx].function # "other"
    BY DEF TxInv, StageInv, InParsing
  <2> QED BY <1>3, <2>1, <2>3, <2>4 DEF StageInv, InParsing
<1>9. BlocksInv'
  <2>1. /\ Tokens' = Tokens /\ parseTx' = parseTx /\ InParsing
        /\ Token = Tokens[Len(blocks) + 1] /\ Token.body = "good"
    BY <1>3 DEF Tokens, Token, InParsing, Readable
  <2>2. ASSUME NEW j \in 1..Len(blocks')
        PROVE  /\ Tokens[j].body = "good"
               /\ blocks'[j].token = j /\ Len(blocks'[j].blobs) = Tokens[j].blobs
               /\ \A n \in 1..Tokens[j].blobs :
                    blocks'[j].blobs[n] \in {Wrong, <<parseTx, j, n>>}
    <3>1. CASE j = Len(blocks) + 1
      BY <1>4, <1>6, <2>1, <3>1
    <3>2. CASE j # Len(blocks) + 1
      <4>1. j \in 1..Len(blocks)
        BY <1>1, <1>4, <2>2, <3>2
      <4> QED BY <1>4, <2>1, <4>1 DEF TxInv, BlocksInv
    <3> QED BY <3>1, <3>2
  <2>4. Len(blocks') <= Len(Tokens)
    BY <1>1, <1>4
  <2> QED BY <2>1, <2>2, <2>4 DEF BlocksInv
<1>10. BlobsInv'
  <2>1. ASSUME Len(blocks') < Len(Tokens') PROVE Len(blobs') <= Token'.blobs
    <3>1. Len(blocks') + 1 \in 1..Len(Tokens) /\ Tokens' = Tokens
      BY <1>1, <1>3, <1>4, <2>1 DEF Tokens
    <3>2. Tokens[Len(blocks') + 1].blobs \in Nat
      BY <1>1, <3>1, FeedTypes DEF Tokens
    <3> QED BY <1>5, <3>1, <3>2 DEF Token
  <2>2. \A n \in 1..Len(blobs') : blobs'[n] \in {Wrong, <<parseTx', Len(blocks') + 1, n>>}
    BY <1>5
  <2> QED BY <2>1, <2>2 DEF BlobsInv
<1> QED BY <1>7, <1>8, <1>9, <1>10 DEF TxInv

\* What arrives is the next blob of the token, or a wrong one in its place.
LEMMA TxInvArrives ==
  ASSUME TxInv, parsePc = "request", parsePc' = "token",
         NEW b \in {Wrong, <<parseTx, Len(blocks) + 1, Len(blobs) + 1>>},
         blobs' = Append(blobs, b),
         UNCHANGED <<parseTx, boojumMode, attempt, blocks, handed, lastParsed, cancelled,
                     envVars>>
  PROVE  TxInv'
<1>1. /\ parseTx \in DOMAIN Feed /\ parseTx \in Nat
      /\ blobs \in Seq(Blob) /\ blocks \in Seq(Block)
      /\ Len(blocks) \in Nat /\ Len(blobs) \in Nat
  BY FeedTypes, LenProperties DEF TxInv, TxTypeOK, Gathered
<1>2. b \in Blob
  BY <1>1 DEF Blob
<1>3. /\ blobs' \in Seq(Blob) /\ Len(blobs') = Len(blobs) + 1
      /\ \A n \in 1..Len(blobs) : blobs'[n] = blobs[n]
      /\ blobs'[Len(blobs) + 1] = b
  BY <1>1, <1>2, AppendProperties
<1>4. TxTypeOK'
  BY DEF TxInv, TxTypeOK, envVars
<1>5. Gathered' /\ ModeInv' /\ StageInv' /\ BlocksInv'
  BY <1>1, <1>3
     DEF TxInv, Gathered, ModeInv, StageInv, BlocksInv, InParsing, Tokens, Token
<1>6. BlobsInv'
  <2>1. ASSUME NEW n \in 1..Len(blobs')
        PROVE  blobs'[n] \in {Wrong, <<parseTx, Len(blocks) + 1, n>>}
    <3>1. CASE n = Len(blobs) + 1
      BY <1>3, <3>1
    <3>2. CASE n \in 1..Len(blobs)
      BY <1>3, <3>2 DEF TxInv, BlobsInv, InParsing
    <3> QED BY <1>1, <1>3, <3>1, <3>2
  <2>2. Len(blobs') <= Token.blobs
    <3>1. Len(blobs) < Token.blobs /\ Len(blocks) < Len(Tokens)
      BY DEF TxInv, StageInv
    <3>2. Token.blobs \in Nat
      <4>1. Len(blocks) + 1 \in 1..Len(Tokens)
        BY <1>1, <3>1, FeedTypes DEF Tokens
      <4> QED BY <1>1, <4>1, FeedTypes DEF Token, Tokens
    <3> QED BY <1>1, <1>3, <3>1, <3>2
  <2> QED BY <2>1, <2>2 DEF BlobsInv, Token, Tokens
<1> QED BY <1>4, <1>5, <1>6 DEF TxInv

\* Every step keeps the invariant.
LEMMA TxInvStep == TxInv /\ [TxNext]_txVars => TxInv'
<1> SUFFICES ASSUME TxInv, [TxNext]_txVars PROVE TxInv'
  OBVIOUS
<1>0. /\ TxTypeOK /\ Gathered /\ ModeInv /\ BlocksInv /\ BlobsInv /\ StageInv
      /\ Len(blocks) \in Nat /\ Len(blobs) \in Nat
  BY LenProperties DEF TxInv, Gathered
<1>1. CASE RecvTx
  <2>1. Received + 1 \in DOMAIN Feed /\ parseTx' = Received + 1
    BY <1>0, <1>1, FeedTypes DEF RecvTx, Received, TxTypeOK
  <2>2. parsePc' = "calldata" /\ handed' = 0 /\ UNCHANGED <<blobs, blocks>>
    BY <1>1 DEF RecvTx, fetchVars
  <2>3. TxTypeOK'
    <3>1. UNCHANGED <<attempt, lastParsed, cancelled, skipped, sinkOpen, server, changes>>
      BY <1>1 DEF RecvTx, fetchVars, envVars
    <3>2. boojumMode' \in BOOLEAN
      <4>1. boojumMode' = (boojumMode \/ Feed[parseTx'].block >= Boojum)
        BY <1>1 DEF RecvTx
      <4>2. (boojumMode \/ Feed[parseTx'].block >= Boojum) \in BOOLEAN
        OBVIOUS
      <4> QED BY <4>1, <4>2
    <3>3. handed' \in 0..Len(blocks')
      BY <1>0, <2>2
    <3>4. parseTx' \in DOMAIN Feed \cup {None} /\ parseTx' # None
      BY <2>1, FeedTypes
    <3>5. /\ cancelled' \in BOOLEAN /\ sinkOpen' \in BOOLEAN /\ attempt' \in 1..MaxRetries
          /\ lastParsed' \in {Feed[i].block : i \in DOMAIN Feed} \cup {None}
          /\ server' \in {"up", "down", "odd"} /\ changes' \in 0..MaxChanges
          /\ skipped' \in 0..Len(Feed)
      BY <1>0, <3>1 DEF TxTypeOK
    <3> QED BY <2>2, <3>2, <3>3, <3>4, <3>5 DEF TxTypeOK
  <2>4. ModeInv'
    <3>1. ASSUME parseTx # None, boojumMode PROVE Feed[parseTx'].block >= Boojum
      <4>1. parseTx \in DOMAIN Feed /\ parseTx <= parseTx'
        BY <1>0, <2>1, <3>1, FeedTypes DEF TxTypeOK, Received
      <4>2. Feed[parseTx].block >= Boojum
        BY <1>0, <3>1 DEF ModeInv
      <4>3. Feed[parseTx].block <= Feed[parseTx'].block
        BY <2>1, <4>1, BlocksRise
      <4> QED BY <2>1, <4>1, <4>2, <4>3, FeedTypes, FeedAssumption
    <3>2. boojumMode' = (boojumMode \/ Feed[parseTx'].block >= Boojum)
      BY <1>1 DEF RecvTx
    <3> QED BY <1>0, <2>1, <3>1, <3>2, FeedTypes DEF ModeInv, TxTypeOK
  <2>5. Gathered' /\ StageInv' /\ ~InParsing'
    BY <1>0, <2>2 DEF Gathered, StageInv, InParsing
  <2> QED BY <2>3, <2>4, <2>5 DEF TxInv, BlocksInv, BlobsInv
<1>2. CASE StopAtTx
  BY <1>0, <1>2, TxInvReturn DEF StopAtTx, TxTypeOK
<1>3. CASE ParseCalldata
  <2>1. /\ parsePc' = "token" /\ blobs' = <<>> /\ blocks' = <<>> /\ attempt' = 1
        /\ UNCHANGED <<parseTx, boojumMode, handed>>
    BY <1>3 DEF ParseCalldata
  <2>2. Gathered' /\ Len(blobs') = 0 /\ Len(blocks') = 0
    BY <2>1, EmptySeq DEF Gathered
  <2>3. parseTx \in DOMAIN Feed /\ handed = 0
    BY <1>0, <1>3 DEF ParseCalldata, TxTypeOK, StageInv
  <2>4. TxTypeOK'
    <3>1. handed' \in 0..Len(blocks') /\ attempt' \in 1..MaxRetries
      BY <2>1, <2>2, <2>3, FeedAssumption
    <3> QED BY <1>0, <1>3, <2>1, <2>3, <3>1 DEF ParseCalldata, TxTypeOK, envVars
  <2>5. Feed[parseTx].function # "other"
    BY <1>3 DEF ParseCalldata, Candidates
  <2>6. StageInv' /\ ModeInv'
    BY <1>0, <2>1, <2>3, <2>5 DEF StageInv, InParsing, ModeInv
  <2>7. BlocksInv'
    BY <2>1, <2>2, <2>3, FeedTypes DEF BlocksInv, Tokens
  <2>8. BlobsInv'
    <3>1. ASSUME 0 < Len(Tokens) PROVE Tokens[1].blobs \in Nat
      BY <2>3, <3>1, FeedTypes DEF Tokens
    <3> QED BY <2>1, <2>2, <3>1 DEF BlobsInv, Token, Tokens
  <2> QED BY <2>2, <2>4, <2>6, <2>7, <2>8 DEF TxInv
<1>4. CASE CalldataFails
  BY <1>4, TxInvReturn DEF CalldataFails, Fail
<1>5. CASE ParseToken
  <2>1. blobs = <<>> /\ Len(blobs) = Token.blobs
    <3>1. Len(blobs) = 0
      BY <1>5 DEF ParseToken, AtToken
    <3> QED BY <1>0, <1>5, <3>1, EmptySeq DEF Gathered, ParseToken, AtToken
  <2> QED BY <1>5, <2>1, TxInvResolved DEF ParseToken, AtToken
<1>6. CASE ParseBlobs
  BY <1>6, TxInvResolved DEF ParseBlobs, AtToken
<1>7. CASE TokenFails
  BY <1>7, TxInvReturn DEF TokenFails, Fail
<1>23. CASE TokenPanics
  BY <1>0, <1>23, TxInvEnds DEF TokenPanics, TxTypeOK
<1>8. CASE RequestBlob
  <2>1. TxTypeOK'
    BY <1>0, <1>8, FeedAssumption DEF RequestBlob, TxTypeOK, envVars
  <2>2. StageInv' /\ InParsing
    BY <1>0, <1>8 DEF RequestBlob, StageInv, InParsing, Token, Tokens
  <2> QED BY <1>8, <2>1, <2>2, TxInvKept DEF RequestBlob
<1>9. CASE BlobArrives
  BY <1>9, TxInvArrives DEF BlobArrives
<1>24. CASE WrongBlobArrives
  BY <1>24, TxInvArrives DEF WrongBlobArrives
<1>10. CASE NoBlobArrives
  BY <1>10, TxInvReturn DEF NoBlobArrives, Fail
<1>11. CASE RequestFails
  <2>1. TxTypeOK' /\ StageInv' /\ InParsing
    BY <1>0, <1>11
       DEF RequestFails, TxTypeOK, StageInv, InParsing, Token, Tokens, envVars, fetchVars
  <2> QED BY <1>11, <2>1, TxInvKept DEF RequestFails, fetchVars
<1>12. CASE NextAttempt
  <2>1. attempt' \in 1..MaxRetries
    <3>1. attempt \in 1..MaxRetries
      BY <1>0 DEF TxTypeOK
    <3>2. attempt < MaxRetries /\ attempt' = attempt + 1
      BY <1>12 DEF NextAttempt
    <3>3. MaxRetries \in Nat
      BY FeedAssumption
    <3> QED BY ONLY <3>1, <3>2, <3>3
  <2>2. TxTypeOK' /\ StageInv' /\ InParsing
    BY <1>0, <1>12, <2>1
       DEF NextAttempt, TxTypeOK, StageInv, InParsing, Token, Tokens, envVars
  <2> QED BY <1>12, <2>2, TxInvKept DEF NextAttempt
<1>13. CASE BlobNotFetched
  <2>1. TxTypeOK' /\ StageInv' /\ ~InParsing'
    BY <1>0, <1>13
       DEF BlobNotFetched, TxTypeOK, StageInv, InParsing, envVars, fetchVars
  <2> QED BY <1>13, <2>1, TxInvKept DEF BlobNotFetched, fetchVars
<1>14. CASE GiveUp
  BY <1>0, <1>14, TxInvReturn DEF GiveUp, TxTypeOK
<1>15. CASE ParseAgain
  <2>1. TxTypeOK' /\ StageInv' /\ ~InParsing'
    BY <1>0, <1>15 DEF ParseAgain, TxTypeOK, StageInv, InParsing, envVars, fetchVars
  <2> QED BY <1>15, <2>1, TxInvKept DEF ParseAgain, fetchVars
<1>16. CASE AllParsed
  <2>1. TxTypeOK' /\ StageInv' /\ InParsing
    BY <1>0, <1>16
       DEF AllParsed, TxTypeOK, StageInv, InParsing, Tokens, envVars, fetchVars
  <2> QED BY <1>16, <2>1, TxInvKept DEF AllParsed, fetchVars
<1>17. CASE SendBlock
  <2>1. handed' \in 0..Len(blocks)
    BY <1>0, <1>17 DEF SendBlock, TxTypeOK
  <2>2. TxTypeOK' /\ StageInv' /\ InParsing
    BY <1>0, <1>17, <2>1
       DEF SendBlock, TxTypeOK, StageInv, InParsing, Tokens, envVars, fetchVars
  <2> QED BY <1>17, <2>2, TxInvKept DEF SendBlock, fetchVars
<1>18. CASE SendFails
  BY <1>18, TxInvReturn DEF SendFails, Fail
<1>19. CASE TxDone
  <2>1. TxTypeOK' /\ StageInv' /\ ~InParsing'
    BY <1>0, <1>19 DEF TxDone, TxTypeOK, StageInv, InParsing, envVars, fetchVars
  <2> QED BY <1>19, <2>1, TxInvKept DEF TxDone, fetchVars
<1>20. CASE Cancel \/ CloseSink
  <2>1. TxTypeOK' /\ StageInv' /\ (InParsing' => InParsing)
    BY <1>0, <1>20
       DEF Cancel, CloseSink, TxTypeOK, StageInv, InParsing, Token, Tokens, envVars, fetchVars
  <2> QED BY <1>20, <2>1, TxInvKept DEF Cancel, CloseSink, fetchVars
<1>21. CASE ServerChanges \/ ServerRecovers
  <2>1. changes' \in 0..MaxChanges /\ server' \in {"up", "down", "odd"}
    <3>1. changes \in 0..MaxChanges /\ server \in {"up", "down", "odd"} /\ MaxChanges \in Nat
      BY <1>0, FeedAssumption DEF TxTypeOK
    <3>2. CASE ServerChanges
      BY <3>1, <3>2 DEF ServerChanges, ServerBecomes
    <3>3. CASE ServerRecovers
      BY <3>1, <3>3 DEF ServerRecovers, ServerBecomes
    <3> QED BY <1>21, <3>2, <3>3
  <2>2. UNCHANGED <<parsePc, parseTx, boojumMode, attempt, blobs, blocks, handed,
                    lastParsed, cancelled, skipped, sinkOpen>>
    BY <1>21 DEF ServerChanges, ServerRecovers, ServerBecomes, fetchVars
  <2>3. TxTypeOK' /\ StageInv' /\ (InParsing' => InParsing)
    BY <1>0, <2>1, <2>2 DEF TxTypeOK, StageInv, InParsing, Token, Tokens
  <2> QED BY <2>2, <2>3, TxInvKept
<1>22. CASE UNCHANGED txVars
  <2>1. TxTypeOK' /\ StageInv' /\ (InParsing' => InParsing)
    BY <1>0, <1>22
       DEF txVars, TxTypeOK, StageInv, InParsing, Token, Tokens, envVars, fetchVars
  <2> QED BY <1>22, <2>1, TxInvKept DEF txVars, fetchVars
<1> QED
  BY <1>1, <1>2, <1>3, <1>4, <1>5, <1>6, <1>7, <1>8, <1>9, <1>10, <1>11, <1>12, <1>13,
     <1>14, <1>15, <1>16, <1>17, <1>18, <1>19, <1>20, <1>21, <1>22, <1>23, <1>24
     DEF TxNext, HandlerStep

-----------------------------------------------------------------------------
\* The inductive invariant holds of every behaviour of the parsing task.
THEOREM TxInvHolds == TxSpec => []TxInv
BY TxInitInv, TxInvStep, PTL DEF TxSpec

\* Every variable of the parsing task keeps its type, get_blob makes at most
\* MaxRetries attempts, and never more blocks are handed on than were parsed.
THEOREM TxTypesHold == TxSpec => []TxTypeOK
<1>1. TxInv => TxTypeOK
  BY DEF TxInv
<1> QED BY <1>1, TxInvHolds, PTL

\* The invariant implies BlocksHaveTheirBlobs.
LEMMA SentBlocksAreWhole == TxInv => BlocksHaveTheirBlobs
<1> SUFFICES ASSUME TxInv, parsePc = "send" PROVE BlocksHaveTheirBlobs
  BY DEF BlocksHaveTheirBlobs
<1>1. parseTx \in DOMAIN Feed /\ Len(blocks) = Len(Tokens) /\ InParsing
  BY DEF TxInv, TxTypeOK, StageInv, InParsing
<1>2. DOMAIN Tokens = 1..Len(Tokens)
  BY <1>1, FeedTypes DEF Tokens
<1> QED BY <1>1, <1>2 DEF TxInv, BlocksInv, BlocksHaveTheirBlobs

\* What is handed on was made of its own blobs, each of them once and in order,
\* whatever the server did and however often parsing began anew.
THEOREM NoBlobIsMisplaced == TxSpec => []BlocksHaveTheirBlobs
BY TxInvHolds, SentBlocksAreWhole, PTL

-----------------------------------------------------------------------------
\* The refinement mapping, by name.
AbstractPc ==
  IF parsePc \in {"calldata", "token", "request", "sleep", "wait"} THEN "parse" ELSE parsePc
BrokenTxs   == {t \in DOMAIN Feed : NeverParses(t)}
FallibleTxs ==
  {t \in DOMAIN Feed : \E i \in DOMAIN Feed[t].tokens : Feed[t].tokens[i].blobs > 0}

\* The task begins as ParseTask does.
LEMMA TaskInitMapped == TxInit => Abstract!TaskInit
BY DEF TxInit, Abstract!TaskInit

\* A request is only made for a transaction with blobs.
LEMMA WhatIsRequestedIsFallible ==
  ASSUME TxInv, parsePc \in {"token", "request"}, Len(blocks) < Len(Tokens),
         Len(blobs) > 0 \/ parsePc = "request"
  PROVE  parseTx \in FallibleTxs
<1>1. parseTx \in DOMAIN Feed /\ Len(blobs) \in Nat /\ Len(blocks) \in Nat
  BY LenProperties DEF TxInv, TxTypeOK, Gathered
<1>2. Len(blobs) <= Token.blobs /\ (parsePc = "request" => Len(blobs) < Token.blobs)
  BY DEF TxInv, StageInv, BlobsInv, InParsing
<1>3. Len(blocks) + 1 \in DOMAIN Tokens
  BY <1>1, FeedTypes DEF Tokens
<1>4. Token.blobs > 0
  BY <1>1, <1>2, <1>3, FeedTypes DEF Token, Tokens
<1> QED BY <1>1, <1>3, <1>4 DEF FallibleTxs, Token, Tokens

\* A transaction that is refused at its function never parses.
LEMMA WrongFunctionIsBroken ==
  ASSUME TxInv, CalldataFails
  PROVE  parseTx \in BrokenTxs
<1>1. parseTx \in DOMAIN Feed /\ Feed[parseTx].function \notin Candidates
  BY DEF TxInv, TxTypeOK, CalldataFails
<1>2. Feed[parseTx].block \in Nat /\ Boojum \in Nat
  BY <1>1, FeedTypes, FeedAssumption
<1>3. boojumMode <=> ~(Feed[parseTx].block < Boojum)
  BY <1>1, <1>2, FeedTypes DEF TxInv, ModeInv
<1>4. Feed[parseTx].function \in Functions \cup {"other"}
  BY <1>1, FeedTypes
<1>5. Feed[parseTx].function = "other"
  BY <1>1, <1>3, <1>4, FormatsAgree DEF Candidates, Functions
<1> QED BY <1>1, <1>5 DEF BrokenTxs, NeverParses

\* One that is refused at a token never parses either, or a wrong blob was taken.
LEMMA BadTokenIsBroken ==
  ASSUME TxInv, TokenFails \/ TokenPanics
  PROVE  parseTx \in BrokenTxs \cup FallibleTxs
<1>1. parseTx \in DOMAIN Feed /\ parsePc = "token" /\ Len(blocks) < Len(Tokens)
  BY DEF TxInv, TxTypeOK, TokenFails, TokenPanics, AtToken
<1>2. CASE Garbled
  <2>1. blobs \in Seq(Blob)
    BY DEF TxInv, Gathered
  <2>2. Len(blobs) > 0
    BY <1>2, <2>1, LenProperties DEF Garbled
  <2> QED BY <1>1, <2>2, WhatIsRequestedIsFallible
<1>3. CASE ~Garbled
  <2>1. Len(blocks) + 1 \in 1..Len(Tokens)
    BY <1>1, FeedTypes, LenProperties DEF TxInv, Gathered, Tokens
  <2>2. Token.body # "good"
    BY <1>1, <1>3, <2>1, FormatsAgree DEF TokenFails, TokenPanics, Readable, Token, Tokens
  <2> QED BY <1>1, <2>1, <2>2, FeedTypes DEF BrokenTxs, NeverParses, Token, Tokens
<1> QED BY <1>2, <1>3

\* A transaction is sent whole, and does parse.
LEMMA WhatIsParsedIsWhole ==
  ASSUME TxInv
  PROVE  /\ AllParsed => ~NeverParses(parseTx) /\ handed = 0
         /\ parsePc = "send" => /\ parseTx \in DOMAIN Feed
                               /\ Len(blocks) = Len(Feed[parseTx].tokens)
<1>1. ASSUME AllParsed PROVE ~NeverParses(parseTx) /\ handed = 0
  <2>1. parseTx \in DOMAIN Feed /\ InParsing /\ Len(blocks) = Len(Tokens) /\ handed = 0
    BY <1>1 DEF AllParsed, TxInv, TxTypeOK, InParsing, StageInv
  <2>2. \A j \in DOMAIN Tokens : Tokens[j].body = "good"
    BY <2>1, FeedTypes DEF TxInv, BlocksInv, Tokens
  <2>3. Feed[parseTx].function # "other"
    BY <2>1 DEF TxInv, StageInv
  <2> QED BY <2>1, <2>2, <2>3 DEF NeverParses, Tokens
<1>2. parsePc = "send" => /\ parseTx \in DOMAIN Feed
                         /\ Len(blocks) = Len(Feed[parseTx].tokens)
  BY DEF TxInv, TxTypeOK, StageInv, Tokens
<1> QED BY <1>1, <1>2

\* Every step of the task is one of ParseTask, or changes nothing that shows there.
LEMMA TaskStepMapped ==
  TxInv /\ [TxNext]_txVars => [Abstract!TaskNext]_(Abstract!taskVars)
<1> SUFFICES ASSUME TxInv, [TxNext]_txVars
             PROVE  [Abstract!TaskNext]_(Abstract!taskVars)
  OBVIOUS
<1>1. CASE RecvTx
  <2>1. parseTx' \in DOMAIN Feed
    BY <1>1, FeedTypes DEF RecvTx, Received, TxInv, TxTypeOK
  <2>2. Abstract!Receive
    BY <1>1, <2>1 DEF RecvTx, Abstract!Receive
  <2> QED BY <2>2 DEF Abstract!TaskNext
<1>2. CASE StopAtTx
  <2>1. Abstract!Leave
    BY <1>2 DEF StopAtTx, Return, Abstract!Leave, Abstract!Return
  <2> QED BY <2>1 DEF Abstract!TaskNext
<1>3. CASE CalldataFails \/ TokenFails \/ NoBlobArrives
  <2>1. parseTx \in BrokenTxs \cup FallibleTxs
    <3>1. CASE NoBlobArrives
      <4>1. parsePc = "request" /\ Len(blocks) < Len(Tokens)
        BY <3>1 DEF NoBlobArrives, TxInv, StageInv
      <4> QED BY <4>1, WhatIsRequestedIsFallible
    <3> QED BY <1>3, <3>1, WrongFunctionIsBroken, BadTokenIsBroken
  <2>2. Abstract!Fail
    BY <1>3, <2>1
       DEF CalldataFails, TokenFails, AtToken, NoBlobArrives, Fail, Return, Abstract!Fail,
           Abstract!Return, BrokenTxs, FallibleTxs
  <2> QED BY <2>2 DEF Abstract!TaskNext
<1>12. CASE TokenPanics
  <2>1. parseTx \in BrokenTxs \cup FallibleTxs
    BY <1>12, BadTokenIsBroken
  <2>2. Abstract!Panic
    BY <1>12, <2>1 DEF TokenPanics, Abstract!Panic, BrokenTxs, FallibleTxs
  <2> QED BY <2>2 DEF Abstract!TaskNext
<1>4. CASE GiveUp
  <2>1. Abstract!GiveUp
    BY <1>4 DEF GiveUp, Return, Abstract!GiveUp, Abstract!Return
  <2> QED BY <2>1 DEF Abstract!TaskNext
<1>5. CASE AllParsed
  <2>1. Abstract!Parsed
    BY <1>5, WhatIsParsedIsWhole DEF AllParsed, Abstract!Parsed
  <2> QED BY <2>1 DEF Abstract!TaskNext
<1>6. CASE SendBlock
  <2>1. Abstract!HandOn
    BY <1>6, WhatIsParsedIsWhole DEF SendBlock, Abstract!HandOn
  <2> QED BY <2>1 DEF Abstract!TaskNext
<1>7. CASE SendFails
  <2>1. Abstract!NobodyTakes
    BY <1>7, WhatIsParsedIsWhole
       DEF SendFails, Fail, Return, Abstract!NobodyTakes, Abstract!Return
  <2> QED BY <2>1 DEF Abstract!TaskNext
<1>8. CASE TxDone
  <2>1. Abstract!NameBlock
    BY <1>8, WhatIsParsedIsWhole DEF TxDone, Abstract!NameBlock
  <2> QED BY <2>1 DEF Abstract!TaskNext
<1>9. CASE Cancel
  <2>1. Abstract!Stop
    BY <1>9 DEF Cancel, Abstract!Stop
  <2> QED BY <2>1 DEF Abstract!TaskNext
<1>10. CASE \/ ParseCalldata \/ ParseToken \/ ParseBlobs \/ RequestBlob \/ BlobArrives
           \/ WrongBlobArrives \/ RequestFails \/ NextAttempt \/ BlobNotFetched \/ ParseAgain
  <2>1. UNCHANGED Abstract!taskVars
    BY <1>10
       DEF ParseCalldata, ParseToken, ParseBlobs, AtToken, Resolved, RequestBlob,
           BlobArrives, WrongBlobArrives, RequestFails, NextAttempt, BlobNotFetched, ParseAgain, Abstract!taskVars
  <2> QED BY <2>1
<1>11. CASE CloseSink \/ ServerChanges \/ ServerRecovers \/ UNCHANGED txVars
  <2>1. UNCHANGED Abstract!taskVars
    BY <1>11
       DEF CloseSink, ServerChanges, ServerRecovers, ServerBecomes, txVars,
           Abstract!taskVars
  <2> QED BY <2>1
<1> QED
  BY <1>1, <1>2, <1>3, <1>4, <1>5, <1>6, <1>7, <1>8, <1>9, <1>10, <1>11, <1>12
     DEF TxNext, HandlerStep

\* The task implements what the pipeline takes it for: its batches are handed on
\* all together or not at all, only a transaction that is broken or has blobs is
\* refused, and whoever refuses one cancels the run or panics.
THEOREM ParserImplementsTask == TxSpec => ParseTaskImplemented
BY TxInvHolds, TaskInitMapped, TaskStepMapped, PTL
   DEF TxSpec, ParseTaskImplemented, Abstract!TaskSpec

=============================================================================
