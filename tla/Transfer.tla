------------------------------ MODULE Transfer ------------------------------
(***************************************************************************)
(* The bytes of one version: the body of an upload encrypted chunk by      *)
(* chunk into a temporary object (crypto.EncryptStream), the object moved  *)
(* to its final place and entered in the tables, and downloads that        *)
(* decrypt it chunk by chunk while they answer (crypto.DecryptStream).     *)
(*                                                                         *)
(* A body is cut in pieces of ChunkSize bytes and a shorter rest.  The     *)
(* cipher is ideal: a chunk opens only as it was sealed, with the key and  *)
(* the AAD of its version, its nonce counter and its "last:" mark.         *)
(*                                                                         *)
(* The client may go away during the body, the process may crash, and the  *)
(* storage may damage the object, which is what the chunks are             *)
(* authenticated for: it loses chunks off the end, or a chunk is altered,  *)
(* replaced by another of the object or by one of another version.         *)
(***************************************************************************)
EXTENDS Integers, Sequences

CONSTANTS
    ChunkSize, \* AEADChunkSize
    MaxPieces, \* BOUND: whole pieces of the longest body
    Limit,     \* MaxUploadBytes, in whole pieces (2048 of them by default)
    Downloads,
    MaxFaults  \* BOUND: damages, write errors and crashes in a behaviour

ASSUME SizeAssumption ==
    /\ ChunkSize \in Nat \ {0} /\ MaxPieces \in Nat
    /\ Limit \in Nat /\ MaxFaults \in Nat

VARIABLES
    phase,    \* where executeUpload is
    body,     \* the body the client means to send
    alive,    \* the upload's request context is not cancelled
    size,     \* countingWriter.n: what has been read of the body
    object,   \* the chunks written so far
    place,    \* where they are: nowhere, in tmp/ or in versions/
    row,      \* {size_bytes} with the row of file_versions, {} without it
    pc,       \* [Downloads -> where the download is]
    counter,  \* [Downloads -> chunks decrypted]
    output,   \* [Downloads -> the pieces sent to its client]
    response, \* [Downloads -> how the client saw the answer end]
    damages,  \* history: damages done to the object in versions/
    faults

uploadVars == <<phase, body, alive, size, object, place, row>>
downloadVars == <<pc, counter, output, response>>
vars == <<uploadVars, downloadVars, damages, faults>>

Bodies == [full : 0 .. MaxPieces, rest : 0 .. ChunkSize - 1]

Chunks == [own : BOOLEAN, counter : Nat, piece : Nat, len : 0 .. ChunkSize,
           last : BOOLEAN, intact : BOOLEAN]
Pieces == [own : BOOLEAN, piece : Nat, len : 0 .. ChunkSize]

PrefixedChunk(k, len, last) == \* mutant: the length counts the prefix too
    [own |-> TRUE, counter |-> k, piece |-> k, len |-> len + 4, last |-> last,
     intact |-> TRUE]
\* A chunk of this version: piece k of the body, sealed with the nonce counter k.
Chunk(k, len, last) ==
    [own |-> TRUE, counter |-> k, piece |-> k, len |-> len, last |-> last,
     intact |-> TRUE]

\* How many chunks the whole body makes, and the length of piece k.
ChunksOf(b) == IF b.rest = 0 THEN b.full ELSE b.full + 1
LengthOf(b, k) == IF k < b.full THEN ChunkSize ELSE b.rest

\* The object of the whole body: a body without a rest has no last chunk.
Encrypted(b) ==
    [i \in 1 .. ChunksOf(b) |-> Chunk(i - 1, LengthOf(b, i - 1), i > b.full)]

TooLarge(b) == b.full > Limit \/ (b.full = Limit /\ b.rest > 0)

Init ==
    /\ phase = "start" /\ body \in Bodies /\ alive = TRUE
    /\ size = [full |-> 0, rest |-> 0]
    /\ object = <<>> /\ place = "nowhere" /\ row = {}
    /\ pc = [d \in Downloads |-> "idle"]
    /\ counter = [d \in Downloads |-> 0]
    /\ output = [d \in Downloads |-> <<>>]
    /\ response = [d \in Downloads |-> "none"]
    /\ damages = 0 /\ faults = 0
-----------------------------------------------------------------------------
\* The upload

Fault == faults < MaxFaults /\ faults' = faults + 1

\* Storage.CreateTemp.
CreateTemp ==
    /\ phase = "start" /\ phase' = "body" /\ place' = "tmp"
    /\ UNCHANGED <<body, alive, size, object, row, downloadVars, damages, faults>>

\* EncryptStream, one turn: ReadFull fills the buffer, and the chunk is written.
SealFull ==
    /\ phase = "body" /\ size.full < body.full /\ size.full < Limit
    /\ object' = Append(object, Chunk(size.full, ChunkSize, FALSE))
    /\ size' = [size EXCEPT !.full = @ + 1]
    /\ UNCHANGED <<phase, body, alive, place, row, downloadVars, damages, faults>>

SealLast(n) ==
    /\ object' = Append(object, Chunk(size.full, n, TRUE))
    /\ size' = [size EXCEPT !.rest = n]
    /\ phase' = "close"

\* EncryptStream: ReadFull meets the end of the body, after a rest (ErrUnexpectedEOF,
\* the chunk is the last) or where a piece would begin (EOF).
BodyEnds ==
    /\ phase = "body" /\ size.full = body.full /\ ~TooLarge(body)
    /\ IF body.rest > 0
       THEN SealLast(body.rest)
       ELSE phase' = "close" /\ UNCHANGED <<object, size>>
    /\ UNCHANGED <<body, alive, place, row, downloadVars, damages, faults>>

\* EncryptStream: the client closes the connection before the end of the body.  net/http
\* cancels the request's context and then reports ErrUnexpectedEOF too, so what was
\* read of the piece, even nothing, makes a last chunk.
ClientLeaves ==
    /\ phase = "body" /\ alive' = FALSE
    /\ \E n \in 0 .. ChunkSize - 1 :
          /\ size.full < body.full \/ (size.full = body.full /\ n < body.rest)
          /\ size.full < Limit \/ n = 0
          /\ SealLast(n)
    /\ UNCHANGED <<body, place, row, downloadVars, damages, faults>>

\* writeEncryptedVersion: the cleanup removes the temporary object and drops the error.
CleanUp ==
    /\ phase' = "refused" /\ place' \in {"nowhere", "tmp"}
    /\ UNCHANGED <<body, alive, size, object, row, downloadVars, damages>>

\* MaxBytesReader reports a body over the limit.
BodyTooLarge ==
    /\ phase = "body" /\ TooLarge(body) /\ size.full = Limit
    /\ CleanUp /\ UNCHANGED faults

\* Another error of the body, of a write or of fsync.
WriteFails == phase \in {"body", "close"} /\ Fault /\ CleanUp

\* tempWriter.Close, Storage.FinalizeVersion: neither looks at the context.
FinalizeVersion ==
    /\ phase = "close" /\ phase' = "commit" /\ place' = "versions"
    /\ UNCHANGED <<body, alive, size, object, row, downloadVars, damages, faults>>

\* FinalizeVersion fails: the temporary object stays.
RenameFails ==
    /\ phase = "close" /\ Fault /\ phase' = "refused"
    /\ UNCHANGED <<body, alive, size, object, place, row, downloadVars, damages>>

\* Once the body is read, the client's going away only cancels the context.
ContextCancelled ==
    /\ phase \in {"close", "commit"} /\ alive /\ alive' = FALSE
    /\ UNCHANGED <<phase, body, size, object, place, row, downloadVars, damages, faults>>

\* ensureFileRow and commitVersion: every statement is given the request's context.
AnyContext == TRUE \* mutant: the statements run whatever becomes of the request
ContextAllows == alive

CommitVersion ==
    /\ phase = "commit" /\ ContextAllows
    /\ phase' = "accepted" /\ row' = {size}
    /\ UNCHANGED <<body, alive, size, object, place, downloadVars, damages, faults>>

\* They fail: the object stays in versions/ without a row.
CommitFails ==
    /\ phase = "commit" /\ phase' = "refused"
    /\ \/ ~alive /\ UNCHANGED faults
       \/ Fault
    /\ UNCHANGED <<body, alive, size, object, place, row, downloadVars, damages>>

UploadStep ==
    \/ CreateTemp \/ SealFull \/ BodyEnds \/ ClientLeaves \/ BodyTooLarge \/ WriteFails
    \/ FinalizeVersion \/ RenameFails \/ ContextCancelled \/ CommitVersion \/ CommitFails
-----------------------------------------------------------------------------
\* The downloads

\* downloadFileHandler and streamShareDownload, up to OpenVersion.
OpenVersion(d) ==
    /\ pc[d] = "idle" /\ row # {}
    /\ pc' = [pc EXCEPT ![d] = "stream"]
    /\ UNCHANGED <<counter, output, response, uploadVars, damages, faults>>

\* readChunk: a chunk shorter than the longest is taken for the last one.
ShortOrFull(c) == c.len <= ChunkSize \* mutant: < instead of <= off by one
IsLast(c) == c.len < ChunkSize

\* decryptChunk: the nonce holds the number of chunks decrypted so far.  A full chunk
\* opens with the plain AAD, a short one with either.
AnyCounter(c, k) == c.own /\ c.intact \* mutant: each chunk carries its nonce
Opens(c, k) ==
    /\ c.own /\ c.intact /\ c.counter = k
    /\ IsLast(c) \/ ~c.last

\* readChunk: the object ends where a chunk would begin.
EndOrTorn(k) == ~(Len(object) > k /\ object[k + 1].intact) \* mutant: an unexpected EOF too
AtEnd(k) == Len(object) <= k

\* DecryptStream, one turn: the piece goes to the client as soon as its chunk opens.
DecryptChunk(d) ==
    /\ pc[d] = "stream" /\ ~AtEnd(counter[d])
    /\ LET c == object[counter[d] + 1] IN
          /\ Opens(c, counter[d])
          /\ output' = [output EXCEPT ![d] = Append(@,
                            [own |-> c.own, piece |-> c.piece, len |-> c.len])]
          /\ pc' = [pc EXCEPT ![d] = IF IsLast(c) THEN "done" ELSE "stream"]
    /\ counter' = [counter EXCEPT ![d] = @ + 1]
    /\ UNCHANGED <<response, uploadVars, damages, faults>>

StreamEnds(d) ==
    /\ pc[d] = "stream" /\ AtEnd(counter[d])
    /\ pc' = [pc EXCEPT ![d] = "done"]
    /\ UNCHANGED <<counter, output, response, uploadVars, damages, faults>>

\* DecryptStream returns an error: the chunk does not open.
DecryptFails(d) ==
    /\ pc[d] = "stream" /\ ~AtEnd(counter[d])
    /\ ~Opens(object[counter[d] + 1], counter[d])
    /\ pc' = [pc EXCEPT ![d] = "failed"]
    /\ UNCHANGED <<counter, output, response, uploadVars, damages, faults>>

\* downloadFileHandler, streamShareDownload: an error is only logged.  The handler
\* returns, and net/http ends the answer as it ends any other.
HandlerReturns(d) ==
    /\ pc[d] \in {"done", "failed"} /\ response[d] = "none"
    /\ response' = [response EXCEPT ![d] = "complete"]
    /\ UNCHANGED <<pc, counter, output, uploadVars, damages, faults>>

\* The client goes away: the next write of DecryptStream fails.
ClientGone(d) ==
    /\ pc[d] = "stream"
    /\ pc' = [pc EXCEPT ![d] = "gone"]
    /\ response' = [response EXCEPT ![d] = "cut"]
    /\ UNCHANGED <<counter, output, uploadVars, damages, faults>>

DownloadStep(d) ==
    \/ OpenVersion(d) \/ DecryptChunk(d) \/ StreamEnds(d) \/ DecryptFails(d)
    \/ HandlerReturns(d) \/ ClientGone(d)
-----------------------------------------------------------------------------
\* Faults

\* The process dies: temporary and final objects stay as they are.
Crash ==
    /\ Fault
    /\ phase' = IF phase \in {"accepted", "refused"} THEN phase ELSE "refused"
    /\ pc' = [d \in Downloads |-> IF pc[d] = "idle" THEN "idle" ELSE "gone"]
    /\ response' = [d \in Downloads |->
                       IF pc[d] = "idle" \/ response[d] # "none" THEN response[d] ELSE "cut"]
    /\ UNCHANGED <<body, alive, size, object, place, row, counter, output, damages>>

\* The storage damages an object the tables know.
Damage ==
    /\ row # {} /\ Fault /\ damages' = damages + 1
    /\ \/ \E n \in 0 .. Len(object) - 1 : object' = SubSeq(object, 1, n)
       \/ \E i \in DOMAIN object : object' = [object EXCEPT ![i].intact = FALSE]
       \/ \E i \in DOMAIN object : object' = [object EXCEPT ![i].own = FALSE]
       \/ \E i, j \in DOMAIN object : i # j /\ object' = [object EXCEPT ![i] = object[j]]
    /\ UNCHANGED <<phase, body, alive, size, place, row, downloadVars>>

Finished ==
    /\ phase \in {"accepted", "refused"}
    /\ row = {} \/ \A d \in Downloads : response[d] # "none"
    /\ UNCHANGED vars

Next ==
    \/ UploadStep \/ (\E d \in Downloads : DownloadStep(d)) \/ Crash \/ Damage \/ Finished

Spec == Init /\ [][Next]_vars
-----------------------------------------------------------------------------
TypeOK ==
    /\ phase \in {"start", "body", "close", "commit", "accepted", "refused"}
    /\ body \in Bodies /\ alive \in BOOLEAN /\ size \in Bodies
    /\ object \in Seq(Chunks)
    /\ place \in {"nowhere", "tmp", "versions"}
    /\ row \in SUBSET Bodies
    /\ pc \in [Downloads -> {"idle", "stream", "done", "failed", "gone"}]
    /\ counter \in [Downloads -> Nat]
    /\ output \in [Downloads -> Seq(Pieces)]
    /\ response \in [Downloads -> {"none", "complete", "cut"}]
    /\ damages \in Nat /\ faults \in 0 .. MaxFaults

\* A version the tables know holds the whole body within the limit, and its size: a
\* body cut short by its client looks like a complete one to EncryptStream, and only
\* the cancelled context keeps it out (commitVersion).
CommittedWhole ==
    row # {} =>
       /\ row = {body} /\ ~TooLarge(body) /\ place = "versions"
       /\ damages = 0 => object = Encrypted(body)

\* Whatever happens to the object, what a client has got is how the body begins, the
\* pieces in order (nonce counter and AAD of decryptChunk).
OutputIsPrefix ==
    \A d \in Downloads : \A i \in DOMAIN output[d] :
       output[d][i] = [own |-> TRUE, piece |-> i - 1, len |-> LengthOf(body, i - 1)]

\* A version that is not damaged decrypts without an error, and a download that comes
\* to its end has sent every piece, whatever the length of the body (DecryptStream).
RoundTrip ==
    damages = 0 =>
       \A d \in Downloads :
          /\ pc[d] # "failed"
          /\ pc[d] = "done" => Len(output[d]) = ChunksOf(body)

\* DecryptStream misses damage only when whole chunks are gone from the end of the
\* object: if it succeeds short of the body, the object has nothing more.
OnlyLostTailUnnoticed ==
    \A d \in Downloads :
       pc[d] = "done" => \/ Len(output[d]) = ChunksOf(body)
                         \/ Len(object) <= Len(output[d])

\* "The response has already started, so cut the connection" (handler_files.go:402):
\* after an error of DecryptStream the client does not see a complete answer.
FailureCutsConnection ==
    \A d \in Downloads : pc[d] = "failed" => response[d] # "complete"
=============================================================================
