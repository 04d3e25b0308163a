------------------------------- MODULE TxParser -------------------------------
(***************************************************************************)
(* The parsing task from the inside (spawn_parsing_handler,                *)
(* parse_calldata, BlobHttpClient::get_blob): a commit transaction is      *)
(* taken apart into its batches, each in the format of its L1 block, and   *)
(* the pubdata of some batches is fetched blob by blob from a server that  *)
(* may be down for a while, or answer with something else than the blob.   *)
(*                                                                         *)
(* A request that fails is repeated after a sleep, MaxRetries requests in  *)
(* all; then the whole transaction is parsed again from its first batch on *)
(* after a longer wait, unless the run is cancelled.  No sleep inside      *)
(* get_blob looks at the cancellation.  What is in the pubdata is the      *)
(* business of PubdataParser; here it is good, or gives an error, or is    *)
(* read past its end.  An error cancels the run; a read past the end       *)
(* panics, and then nothing is left of the task that could cancel it.      *)
(***************************************************************************)
EXTENDS Sequences, Integers

CONSTANTS
  Feed,       \* the transactions in their order, see FeedAssumption
  Boojum,     \* BOOJUM_BLOCK
  BlobBlock,  \* BLOB_BLOCK
  MaxRetries, \* MAX_RETRIES
  Wrong,      \* a blob of the blob server that is not the one that was asked for
  MaxChanges, \* bound: how often the blob server changes
  None

Functions == {"commitBlocks", "commitBatches", "commitBatchesSharedBridge"}

\* A token is a batch in the array of a transaction: the format it is written in,
\* where its pubdata is (blobs = 0: in the calldata), and if that parses: "good",
\* "bad" for an error, "short" if a read past its end panics.  The chain changes its
\* formats and its functions in the blocks of its upgrades.
ASSUME FeedAssumption ==
  /\ Boojum \in Nat /\ BlobBlock \in Nat /\ Boojum <= BlobBlock
  /\ MaxRetries \in Nat \ {0} /\ MaxChanges \in Nat /\ None \notin Nat
  /\ Feed \in Seq([block : Nat, function : Functions \cup {"other"},
                   tokens : Seq([format : {"V1", "V2", "V3"}, blobs : Nat,
                                body : {"good", "bad", "short"}])])
  /\ \A i, j \in DOMAIN Feed : i <= j => Feed[i].block <= Feed[j].block
  /\ \A i \in DOMAIN Feed :
       /\ Feed[i].function # "other" =>
            (Feed[i].function = "commitBlocks" <=> Feed[i].block < Boojum)
       /\ \A j \in DOMAIN Feed[i].tokens :
            /\ Feed[i].tokens[j].format = "V1" <=> Feed[i].block < Boojum
            /\ Feed[i].tokens[j].format = "V3" <=> Feed[i].block >= BlobBlock

VARIABLES
  skipped,     \* the transactions before the block that the run starts from
  parsePc,     \* "recv", "calldata", "token", "request", "sleep", "wait", "send", "done",
               \* "panicked"
  parseTx,     \* the transaction it works on
  boojumMode,  \* boojum_mode, which stands for the candidate functions
  attempt,     \* of get_blob
  blobs,       \* the blobs fetched for the token: Wrong or <<transaction, token, number>>
  blocks,      \* the result of parse_calldata so far: token and blobs of each
  handed,      \* how many of the blocks were sent to the sink
  lastParsed,  \* last_block_number_processed
  cancelled,   \* the cancellation token
  sinkOpen,    \* the processor takes batches
  server,      \* the blob server: "up", "down" or "odd"
  changes      \* how often it changed

fetchVars  == <<attempt, blobs, blocks>>
envVars    == <<skipped, sinkOpen, server, changes>>
txVars     == <<parsePc, parseTx, boojumMode, fetchVars, handed, lastParsed, cancelled,
                envVars>>

-----------------------------------------------------------------------------
Received == IF parseTx = None THEN skipped ELSE parseTx
Tokens   == Feed[parseTx].tokens
Token    == Tokens[Len(blocks) + 1]

\* A mutant: the block of the upgrade itself has the older format.
FormatOfAfter(block) ==
  IF block > BlobBlock THEN "V3" ELSE IF block > Boojum THEN "V2" ELSE "V1"

\* parse_commit_block_info.
FormatOf(block) ==
  IF block >= BlobBlock THEN "V3" ELSE IF block >= Boojum THEN "V2" ELSE "V1"

Candidates ==
  IF boojumMode THEN {"commitBatches", "commitBatchesSharedBridge"} ELSE {"commitBlocks"}

Return ==
  /\ parsePc' = "done"
  /\ UNCHANGED <<parseTx, boojumMode, fetchVars, handed, lastParsed, envVars>>

\* Any error but that of the blob storage cancels the run.
Fail == cancelled' = TRUE /\ Return

RecvTx ==
  /\ parsePc = "recv" /\ Received < Len(Feed)
  /\ ~cancelled
  /\ parseTx' = Received + 1
  /\ boojumMode' = (boojumMode \/ Feed[parseTx'].block >= Boojum)
  /\ parsePc' = "calldata" /\ handed' = 0
  /\ UNCHANGED <<fetchVars, lastParsed, cancelled, envVars>>

\* A transaction arrives after the cancellation, or none any more.
StopAtTx ==
  /\ parsePc = "recv"
  /\ cancelled \/ Received = Len(Feed)
  /\ UNCHANGED cancelled
  /\ Return

-----------------------------------------------------------------------------
\* parse_calldata begins, the first time or once more.
ParseCalldata ==
  /\ parsePc = "calldata"
  /\ Feed[parseTx].function \in Candidates
  /\ parsePc' = "token"
  /\ attempt' = 1 /\ blobs' = <<>> /\ blocks' = <<>>
  /\ UNCHANGED <<parseTx, boojumMode, handed, lastParsed, cancelled, envVars>>

CalldataFails ==
  /\ parsePc = "calldata"
  /\ Feed[parseTx].function \notin Candidates
  /\ Fail

\* The pubdata of the token is at hand, its blobs in the order of their
\* commitments.
Resolved(got) ==
  /\ blocks' = Append(blocks, [token |-> Len(blocks) + 1, blobs |-> got])
  /\ parsePc' = "token"
  /\ attempt' = 1 /\ blobs' = <<>>
  /\ UNCHANGED <<parseTx, boojumMode, handed, lastParsed, cancelled, envVars>>

Readable == Token.body = "good" /\ Token.format = FormatOf(Feed[parseTx].block)

\* Blobs are not compared with their commitments: with a wrong one among them the
\* token parses to something else, gives an error or panics.
Garbled == \E n \in DOMAIN blobs : blobs[n] = Wrong

\* All blobs of the token are there, if it has any.
AtToken ==
  /\ parsePc = "token" /\ Len(blocks) < Len(Tokens)
  /\ Len(blobs) = Token.blobs

\* try_from_token, or a token of V3 with its pubdata in the calldata.
ParseToken ==
  /\ AtToken
  /\ Token.blobs = 0 /\ Readable
  /\ Resolved(<<>>)

\* Pubdata from blobs is parsed when all of them are there.
ParseBlobs ==
  /\ AtToken
  /\ Token.blobs > 0 /\ Readable
  /\ Resolved(blobs)

\* A mutant: a batch that does not parse is left out.
TokenSkipped == AtToken /\ ~Readable /\ Resolved(<<>>)

\* One of the errors that ExtractedToken, the formats and the pubdata can give.
TokenFails ==
  /\ AtToken
  /\ Garbled \/ (~Readable /\ Token.body # "short")
  /\ Fail

\* A read past the end, the assertion on the length of repeated changes, or a blob of
\* the wrong size: the task is unwound, and drops its receiver and the sink without a
\* word.
TokenPanics ==
  /\ parsePc = "token" /\ Len(blocks) < Len(Tokens)
  /\ Garbled \/ (Len(blobs) = Token.blobs /\ Token.body = "short")
  /\ parsePc' = "panicked"
  /\ UNCHANGED <<parseTx, boojumMode, fetchVars, handed, lastParsed, cancelled, envVars>>

RequestBlob ==
  /\ parsePc = "token" /\ Len(blocks) < Len(Tokens)
  /\ Len(blobs) < Token.blobs
  /\ parsePc' = "request" /\ attempt' = 1
  /\ UNCHANGED <<parseTx, boojumMode, blobs, blocks, handed, lastParsed, cancelled,
                 envVars>>

BlobArrives ==
  /\ parsePc = "request" /\ server = "up"
  /\ blobs' = Append(blobs, <<parseTx, Len(blocks) + 1, Len(blobs) + 1>>)
  /\ parsePc' = "token"
  /\ UNCHANGED <<parseTx, boojumMode, attempt, blocks, handed, lastParsed, cancelled,
                 envVars>>

WrongBlobArrives ==
  /\ parsePc = "request" /\ server = "odd"
  /\ blobs' = Append(blobs, Wrong)
  /\ parsePc' = "token"
  /\ UNCHANGED <<parseTx, boojumMode, attempt, blocks, handed, lastParsed, cancelled,
                 envVars>>

\* Something arrives, with whatever status, that is no blob at all.
NoBlobArrives ==
  /\ parsePc = "request" /\ server = "odd"
  /\ Fail

RequestFails ==
  /\ parsePc = "request" /\ server = "down"
  /\ parsePc' = "sleep"
  /\ UNCHANGED <<parseTx, boojumMode, fetchVars, handed, lastParsed, cancelled, envVars>>

\* A mutant: one attempt more.
NextAttemptMore ==
  /\ parsePc = "sleep" /\ attempt <= MaxRetries
  /\ attempt' = attempt + 1
  /\ parsePc' = "request"
  /\ UNCHANGED <<parseTx, boojumMode, blobs, blocks, handed, lastParsed, cancelled,
                 envVars>>

NextAttempt ==
  /\ parsePc = "sleep" /\ attempt < MaxRetries
  /\ attempt' = attempt + 1
  /\ parsePc' = "request"
  /\ UNCHANGED <<parseTx, boojumMode, blobs, blocks, handed, lastParsed, cancelled,
                 envVars>>

\* A mutant: the cancellation is not looked at.
BlobNotFetchedAnyway ==
  /\ parsePc = "sleep" /\ attempt = MaxRetries
  /\ parsePc' = "wait"
  /\ UNCHANGED <<parseTx, boojumMode, fetchVars, handed, lastParsed, cancelled, envVars>>

\* BlobStorageError.
BlobNotFetched ==
  /\ parsePc = "sleep" /\ attempt = MaxRetries
  /\ ~cancelled
  /\ parsePc' = "wait"
  /\ UNCHANGED <<parseTx, boojumMode, fetchVars, handed, lastParsed, cancelled, envVars>>

GiveUp ==
  /\ parsePc = "sleep" /\ attempt = MaxRetries
  /\ cancelled
  /\ UNCHANGED cancelled
  /\ Return

\* A mutant: what was parsed before the failure is kept.
ParseAgainKeeping ==
  /\ parsePc = "wait"
  /\ parsePc' = "token"
  /\ blocks' = <<>>
  /\ UNCHANGED <<parseTx, boojumMode, attempt, blobs, handed, lastParsed, cancelled,
                 envVars>>

\* A mutant: the attempts are not counted anew.
ParseAgainAtLast ==
  /\ parsePc = "wait"
  /\ parsePc' = "sleep"
  /\ UNCHANGED <<parseTx, boojumMode, fetchVars, handed, lastParsed, cancelled, envVars>>

\* cancelled_else_long_timeout ends; the loop does not look which way.
ParseAgain ==
  /\ parsePc = "wait"
  /\ parsePc' = "calldata"
  /\ UNCHANGED <<parseTx, boojumMode, fetchVars, handed, lastParsed, cancelled, envVars>>

-----------------------------------------------------------------------------
AllParsed ==
  /\ parsePc = "token" /\ Len(blocks) = Len(Tokens)
  /\ parsePc' = "send"
  /\ UNCHANGED <<parseTx, boojumMode, fetchVars, handed, lastParsed, cancelled, envVars>>

SendBlock ==
  /\ parsePc = "send" /\ handed < Len(blocks)
  /\ sinkOpen
  /\ handed' = handed + 1
  /\ UNCHANGED <<parsePc, parseTx, boojumMode, fetchVars, lastParsed, cancelled, envVars>>

SendFails ==
  /\ parsePc = "send" /\ handed < Len(blocks)
  /\ ~sinkOpen
  /\ Fail

TxDone ==
  /\ parsePc = "send" /\ handed = Len(blocks)
  /\ lastParsed' = Feed[parseTx].block
  /\ parsePc' = "recv"
  /\ UNCHANGED <<parseTx, boojumMode, fetchVars, handed, cancelled, envVars>>

-----------------------------------------------------------------------------
\* The user, the processor, and the blob server.
Cancel ==
  /\ cancelled' = TRUE
  /\ UNCHANGED <<parsePc, parseTx, boojumMode, fetchVars, handed, lastParsed, envVars>>

CloseSink ==
  /\ sinkOpen' = FALSE
  /\ UNCHANGED <<parsePc, parseTx, boojumMode, fetchVars, handed, lastParsed, cancelled,
                 skipped, server, changes>>

ServerBecomes(s) ==
  /\ server' = s
  /\ UNCHANGED <<parsePc, parseTx, boojumMode, fetchVars, handed, lastParsed, cancelled,
                 skipped, sinkOpen>>

ServerChanges ==
  /\ changes < MaxChanges
  /\ changes' = changes + 1
  /\ \E s \in {"up", "down", "odd"} \ {server} : ServerBecomes(s)

ServerRecovers ==
  /\ server = "down"
  /\ UNCHANGED changes
  /\ ServerBecomes("up")

HandlerStep ==
  \/ RecvTx \/ StopAtTx \/ ParseCalldata \/ CalldataFails
  \/ ParseToken \/ ParseBlobs \/ TokenFails \/ TokenPanics
  \/ RequestBlob \/ BlobArrives \/ WrongBlobArrives \/ NoBlobArrives \/ RequestFails
  \/ NextAttempt \/ BlobNotFetched \/ GiveUp \/ ParseAgain
  \/ AllParsed \/ SendBlock \/ SendFails \/ TxDone

TxInit ==
  /\ skipped \in 0..Len(Feed)
  /\ parsePc = "recv" /\ parseTx = None /\ boojumMode = FALSE
  /\ attempt = 1 /\ blobs = <<>> /\ blocks = <<>> /\ handed = 0
  /\ lastParsed = None /\ cancelled = FALSE
  /\ sinkOpen = TRUE /\ server \in {"up", "down", "odd"} /\ changes = 0

TxNext ==
  HandlerStep \/ Cancel \/ CloseSink \/ ServerChanges \/ ServerRecovers

\* Every request is answered or fails; nothing is said of the server.
TxSpec == TxInit /\ [][TxNext]_txVars /\ WF_txVars(HandlerStep)

\* The server is not down for ever.
ServerFairness == WF_txVars(ServerRecovers)

-----------------------------------------------------------------------------
(***************************************************************************)
(* Properties                                                              *)
(***************************************************************************)
\* The type invariant of the parsing task.
TxTypeOK ==
  /\ parsePc \in {"recv", "calldata", "token", "request", "sleep", "wait", "send",
                "done", "panicked"}
  /\ skipped \in 0..Len(Feed)
  /\ parseTx \in DOMAIN Feed \cup {None} /\ (parseTx = None => parsePc \in {"recv", "done"})
  /\ boojumMode \in BOOLEAN /\ cancelled \in BOOLEAN /\ sinkOpen \in BOOLEAN
  /\ attempt \in 1..MaxRetries
  /\ handed \in 0..Len(blocks)
  /\ lastParsed \in {Feed[i].block : i \in DOMAIN Feed} \cup {None}
  /\ server \in {"up", "down", "odd"} /\ changes \in 0..MaxChanges

\* What is handed on was made of its own blobs, each of them once and in the order
\* of the commitments, however often a request failed and parsing began anew, but for
\* wrong blobs in the place of those that were asked for.
BlocksHaveTheirBlobs ==
  parsePc = "send" =>
    /\ Len(blocks) = Len(Tokens)
    /\ \A j \in DOMAIN Tokens :
         /\ blocks[j].token = j /\ Len(blocks[j].blobs) = Tokens[j].blobs
         /\ \A n \in 1..Tokens[j].blobs : blocks[j].blobs[n] \in {Wrong, <<parseTx, j, n>>}

-----------------------------------------------------------------------------
\* The task as the rest of the program sees it.
NeverParses(t) ==
  \/ Feed[t].function = "other"
  \/ \E i \in DOMAIN Feed[t].tokens : Feed[t].tokens[i].body # "good"

Abstract == INSTANCE ParseTask WITH
  Transactions <- DOMAIN Feed,
  Count    <- [t \in DOMAIN Feed |-> Len(Feed[t].tokens)],
  Block    <- [t \in DOMAIN Feed |-> Feed[t].block],
  Broken   <- {t \in DOMAIN Feed : NeverParses(t)},
  Fallible <- {t \in DOMAIN Feed : \E i \in DOMAIN Feed[t].tokens : Feed[t].tokens[i].blobs > 0},
  pc       <- IF parsePc \in {"calldata", "token", "request", "sleep", "wait"} THEN "parse"
              ELSE parsePc,
  tx       <- parseTx,
  last     <- lastParsed,
  stopping <- cancelled

\* The task is what the pipeline takes it for: a transaction that is not broken is
\* only refused over what the blob server answers, and its batches are handed on
\* all together.
ParseTaskImplemented == Abstract!TaskSpec

\* After a cancellation the task comes to its end, even if the blob server stays down.
StopsWhenCancelled == cancelled ~> parsePc \in {"done", "panicked"}

\* An outage of the blob server, however long, costs nothing: if the server comes
\* back, every transaction before one that is broken is parsed and handed on, unless
\* the run is cancelled, the processor is gone or the server answers with something
\* else than the blob.
OutagesAreOvercome ==
  ServerFairness =>
    \A t \in DOMAIN Feed :
      (\A u \in (skipped + 1)..t : ~NeverParses(u)) ~>
        \/ Received > t
        \/ Received = t /\ parsePc \in {"recv", "done"}
        \/ cancelled \/ ~sinkOpen \/ server = "odd" \/ Garbled

=============================================================================
