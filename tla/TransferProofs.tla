--------------------------- MODULE TransferProofs ---------------------------
(***************************************************************************)
(* The inductive invariant of Transfer, and its theorems, for any size of  *)
(* a chunk, any limit, any body, any number of downloads and any damage.   *)
(***************************************************************************)
EXTENDS Transfer, SequenceTheorems, TLAPS

\* The object begins with the pieces of the body, as far as it was read.
SealedSoFar ==
    /\ size.rest = 0 /\ size.full <= body.full /\ size.full <= Limit
    /\ Len(object) = size.full
    /\ \A i \in 1 .. size.full : object[i] = Chunk(i - 1, ChunkSize, FALSE)

\* The object is the whole body, chunk by chunk.
Whole ==
    /\ Len(object) = ChunksOf(body)
    /\ \A i \in 1 .. ChunksOf(body) :
          object[i] = Chunk(i - 1, LengthOf(body, i - 1), i > body.full)

\* How far the upload is, and what it has made of the body if it still has its client.
UploadSoFar ==
    /\ phase = "start" => size = [full |-> 0, rest |-> 0] /\ object = <<>>
    /\ phase = "body" => SealedSoFar
    /\ phase \in {"close", "commit"} /\ alive => size = body /\ ~TooLarge(body) /\ Whole
    /\ phase = "commit" => place = "versions"
    /\ row # {} <=> phase = "accepted"

\* What is in versions/ and in the tables, before any damage and after it.
Stored ==
    /\ row # {} => row = {body} /\ ~TooLarge(body) /\ place = "versions"
    /\ row # {} /\ damages = 0 => Whole
    /\ row = {} => damages = 0 /\ \A d \in Downloads : pc[d] = "idle"

\* A chunk of this version is one of the body, wherever the damage put it.
ChunksTrue ==
    row # {} => \A i \in DOMAIN object : object[i].own =>
        LET k == object[i].counter IN
           /\ k < ChunksOf(body)
           /\ object[i].piece = k
           /\ object[i].len = LengthOf(body, k)
           /\ object[i].last = (k >= body.full)

\* The nonce counter of a download is the number of pieces it has sent.
Counted ==
    \A d \in Downloads : /\ Len(output[d]) = counter[d]
                         /\ counter[d] <= ChunksOf(body)

IInv ==
    /\ TypeOK
    /\ UploadSoFar /\ Stored /\ ChunksTrue
    /\ Counted /\ OutputIsPrefix /\ RoundTrip /\ OnlyLostTailUnnoticed
-----------------------------------------------------------------------------
\* Of the body's chunks only that of a rest is short, and only it is marked.
LEMMA Lengths ==
    ASSUME NEW b \in Bodies, NEW k \in Nat, k < ChunksOf(b)
    PROVE  /\ LengthOf(b, k) \in 0 .. ChunkSize
           /\ LengthOf(b, k) < ChunkSize <=> k >= b.full
           /\ k >= b.full => k + 1 = ChunksOf(b)
  BY SizeAssumption DEF Bodies, ChunksOf, LengthOf

LEMMA CountsAreNat ==
    ASSUME NEW b \in Bodies
    PROVE  /\ ChunksOf(b) \in Nat /\ b.full \in Nat /\ b.rest \in Nat /\ b.rest < ChunkSize
           /\ ChunksOf(b) = IF b.rest = 0 THEN b.full ELSE b.full + 1
  BY SizeAssumption DEF Bodies, ChunksOf

LEMMA InitIInv == Init => IInv
  <1> SUFFICES ASSUME Init PROVE IInv
    OBVIOUS
  <1>1. TypeOK
    BY SizeAssumption DEF Init, TypeOK, Bodies, Pieces, Chunks
  <1>2. UploadSoFar /\ Stored /\ ChunksTrue
    BY DEF Init, UploadSoFar, Stored, ChunksTrue
  <1>3. Counted /\ OutputIsPrefix /\ RoundTrip /\ OnlyLostTailUnnoticed
    BY CountsAreNat DEF Init, Counted, OutputIsPrefix, RoundTrip, OnlyLostTailUnnoticed
  <1> QED BY <1>1, <1>2, <1>3 DEF IInv
-----------------------------------------------------------------------------
\* The steps of the upload.  None of them disturbs a download, since there is none
\* before the row.

LEMMA DownloadsRest ==
    ASSUME IInv, UNCHANGED <<body, downloadVars, damages>>,
           row = {} \/ UNCHANGED <<row, object>>
    PROVE  Counted' /\ OutputIsPrefix' /\ RoundTrip' /\ OnlyLostTailUnnoticed'
  <1>1. CASE row = {}
    BY <1>1 DEF IInv, Stored, Counted, OutputIsPrefix, RoundTrip, OnlyLostTailUnnoticed,
       downloadVars
  <1>2. CASE UNCHANGED <<row, object>>
    BY <1>2 DEF IInv, Counted, OutputIsPrefix, RoundTrip, OnlyLostTailUnnoticed, downloadVars
  <1> QED BY <1>1, <1>2

LEMMA CreateTempKeeps == ASSUME IInv, CreateTemp PROVE IInv'
  <1> USE DEF IInv, CreateTemp, downloadVars
  <1>1. TypeOK'
    BY DEF TypeOK
  <1>2. SealedSoFar'
    <2>1. size = [full |-> 0, rest |-> 0] /\ object = <<>>
      BY DEF UploadSoFar
    <2>2. body.full \in Nat
      BY CountsAreNat DEF TypeOK
    <2> QED BY <2>1, <2>2, SizeAssumption DEF SealedSoFar
  <1>3. UploadSoFar' /\ Stored' /\ ChunksTrue'
    BY <1>2 DEF UploadSoFar, Stored, ChunksTrue
  <1>4. Counted' /\ OutputIsPrefix' /\ RoundTrip' /\ OnlyLostTailUnnoticed'
    <2>1. row = {}
      BY DEF UploadSoFar
    <2> QED BY <2>1, DownloadsRest
  <1> QED BY <1>1, <1>3, <1>4

LEMMA SealFullKeeps == ASSUME IInv, SealFull PROVE IInv'
  <1> DEFINE c == Chunk(size.full, ChunkSize, FALSE)
  <1>1. /\ object \in Seq(Chunks) /\ size \in Bodies /\ body \in Bodies
        /\ SealedSoFar /\ row = {}
    BY DEF IInv, TypeOK, UploadSoFar, SealFull
  <1>2. size.full \in Nat /\ body.full \in 0 .. MaxPieces
    BY <1>1 DEF Bodies
  <1>3. c \in Chunks
    BY <1>2, SizeAssumption DEF Chunk, Chunks
  <1>4. size' \in Bodies /\ size'.full = size.full + 1 /\ size'.rest = 0
    BY <1>1, <1>2, SizeAssumption DEF SealFull, SealedSoFar, Bodies
  <1>5. object' = Append(object, c) /\ UNCHANGED body
    BY DEF SealFull
  <1> HIDE DEF c
  <1>6. /\ object' \in Seq(Chunks)
        /\ Len(object') = Len(object) + 1
        /\ \A i \in 1 .. Len(object) : object'[i] = object[i]
        /\ object'[Len(object) + 1] = c
    BY <1>1, <1>3, <1>5, AppendProperties
  <1>7. TypeOK'
    BY <1>4, <1>6 DEF IInv, TypeOK, SealFull, downloadVars
  <1>8. SealedSoFar'
    <2>1. size.full < body.full /\ size.full < Limit /\ Len(object) = size.full
      BY <1>1 DEF SealFull, SealedSoFar
    <2>2. ASSUME NEW i \in 1 .. size'.full
          PROVE  object'[i] = Chunk(i - 1, ChunkSize, FALSE)
      <3>1. CASE i = size.full + 1
        <4>1. i - 1 = size.full /\ i = Len(object) + 1
          BY <3>1, <1>2, <2>1
        <4> QED BY <4>1, <1>6, Zenon DEF c
      <3>2. CASE i \in 1 .. size.full
        BY <3>2, <1>1, <1>6, <2>1 DEF SealedSoFar, Chunk
      <3>3. i = size.full + 1 \/ i \in 1 .. size.full
        BY <1>2, <1>4
      <3> QED BY <3>1, <3>2, <3>3
    <2>3. /\ size'.rest = 0 /\ size'.full <= body'.full /\ size'.full <= Limit
          /\ Len(object') = size'.full
      BY <1>2, <1>4, <1>5, <1>6, <2>1, SizeAssumption
    <2> QED BY <2>2, <2>3 DEF SealedSoFar, Chunk
  <1>9. UploadSoFar' /\ Stored' /\ ChunksTrue'
    BY <1>1, <1>8 DEF IInv, UploadSoFar, Stored, ChunksTrue, SealFull, downloadVars
  <1>10. Counted' /\ OutputIsPrefix' /\ RoundTrip' /\ OnlyLostTailUnnoticed'
    BY <1>1, DownloadsRest DEF SealFull
  <1> QED BY <1>7, <1>9, <1>10 DEF IInv

\* The object after a last chunk of n bytes.
LEMMA SealLastFacts ==
    ASSUME TypeOK, NEW n \in 0 .. ChunkSize - 1, SealLast(n)
    PROVE  /\ object' \in Seq(Chunks) /\ size' \in Bodies
           /\ size'.full = size.full /\ size'.rest = n
           /\ Len(object') = Len(object) + 1
           /\ \A i \in 1 .. Len(object) : object'[i] = object[i]
           /\ object'[Len(object) + 1] = Chunk(size.full, n, TRUE)
  <1> DEFINE c == Chunk(size.full, n, TRUE)
  <1>1. object \in Seq(Chunks) /\ size \in Bodies
    BY DEF TypeOK
  <1>2. c \in Chunks
    BY <1>1, SizeAssumption DEF Chunk, Chunks, Bodies
  <1>3. object' = Append(object, c)
    BY DEF SealLast
  <1>4. size' \in Bodies /\ size'.full = size.full /\ size'.rest = n
    BY <1>1 DEF SealLast, Bodies
  <1> HIDE DEF c
  <1>5. /\ object' \in Seq(Chunks)
        /\ Len(object') = Len(object) + 1
        /\ \A i \in 1 .. Len(object) : object'[i] = object[i]
        /\ object'[Len(object) + 1] = c
    BY <1>1, <1>2, <1>3, AppendProperties
  <1> QED BY <1>4, <1>5 DEF c

LEMMA FullPiece ==
    ASSUME NEW b \in Bodies, NEW i \in 1 .. b.full
    PROVE  Chunk(i - 1, LengthOf(b, i - 1), i > b.full) = Chunk(i - 1, ChunkSize, FALSE)
  <1>1. LengthOf(b, i - 1) = ChunkSize /\ (i > b.full) = FALSE
    BY DEF LengthOf, Bodies
  <1> QED BY <1>1, Zenon

LEMMA BodyEndsKeeps == ASSUME IInv, BodyEnds PROVE IInv'
  <1>1. /\ TypeOK /\ SealedSoFar /\ row = {} /\ body \in Bodies /\ size \in Bodies
        /\ size.full = body.full /\ ~TooLarge(body) /\ UNCHANGED body
    BY DEF IInv, TypeOK, UploadSoFar, BodyEnds
  <1>2. /\ ChunksOf(body) = IF body.rest = 0 THEN body.full ELSE body.full + 1
        /\ body.full \in Nat /\ body.rest \in Nat /\ body.rest < ChunkSize
    BY <1>1, CountsAreNat
  <1>4. TypeOK' /\ Whole' /\ size' = body
    <2>1. CASE body.rest > 0
      <3>1. SealLast(body.rest) /\ body.rest \in 0 .. ChunkSize - 1
        BY <2>1, <1>2, SizeAssumption DEF BodyEnds
      <3>2. /\ object' \in Seq(Chunks) /\ size' \in Bodies
            /\ size'.full = size.full /\ size'.rest = body.rest
            /\ Len(object') = Len(object) + 1
            /\ \A i \in 1 .. Len(object) : object'[i] = object[i]
            /\ object'[Len(object) + 1] = Chunk(size.full, body.rest, TRUE)
        BY <3>1, <1>1, SealLastFacts
      <3>3. TypeOK'
        BY <3>1, <3>2, <1>1 DEF TypeOK, BodyEnds, SealLast, downloadVars
      <3>4. size' = body
        BY <3>2, <1>1 DEF Bodies
      <3>5. Len(object) = body.full /\ ChunksOf(body) = body.full + 1
        BY <2>1, <1>1, <1>2 DEF SealedSoFar
      <3>6. ASSUME NEW i \in 1 .. ChunksOf(body)
            PROVE  object'[i] = Chunk(i - 1, LengthOf(body, i - 1), i > body.full)
        <4>1. CASE i = body.full + 1
          <5>1. i - 1 = size.full /\ i = Len(object) + 1 /\ i > body.full
            BY <4>1, <3>5, <1>1, <1>2
          <5>2. LengthOf(body, i - 1) = body.rest
            BY <5>1, <1>1, <1>2 DEF LengthOf
          <5>3. object'[i] = Chunk(i - 1, LengthOf(body, i - 1), TRUE)
            BY <5>1, <5>2, <3>2, Zenon
          <5> QED BY <5>1, <5>3 DEF Chunk
        <4>2. CASE i \in 1 .. body.full
          <5>1. object'[i] = object[i] /\ object[i] = Chunk(i - 1, ChunkSize, FALSE)
            BY <4>2, <3>2, <3>5, <1>1 DEF SealedSoFar, Chunk
          <5> QED BY <4>2, <5>1, <1>1, FullPiece, Zenon
        <4> QED BY <4>1, <4>2, <3>5, <1>2
      <3>7. Len(object') = ChunksOf(body')
        BY <3>2, <3>5, <1>1
      <3> QED BY <3>3, <3>4, <3>6, <3>7, <1>1 DEF Whole, Chunk
    <2>2. CASE body.rest = 0
      <3>1. UNCHANGED <<object, size>> /\ phase' = "close"
        BY <2>2 DEF BodyEnds
      <3>2. TypeOK'
        BY <3>1, <1>1 DEF TypeOK, BodyEnds, downloadVars
      <3>3. size' = body
        BY <3>1, <2>2, <1>1 DEF Bodies, SealedSoFar
      <3>4. Whole'
        <4>1. ChunksOf(body) = body.full /\ Len(object) = body.full
          BY <2>2, <1>1, <1>2 DEF SealedSoFar
        <4>2. ASSUME NEW i \in 1 .. body.full
              PROVE  object[i] = Chunk(i - 1, LengthOf(body, i - 1), i > body.full)
          <5>1. object[i] = Chunk(i - 1, ChunkSize, FALSE)
            BY <1>1 DEF SealedSoFar, Chunk
          <5> QED BY <5>1, <1>1, FullPiece, Zenon
        <4>3. Whole
          BY <4>1, <4>2, Zenon DEF Whole
        <4> QED BY <4>3, <3>1, <1>1 DEF Whole, LengthOf, ChunksOf
      <3> QED BY <3>2, <3>3, <3>4
    <2> QED BY <2>1, <2>2, <1>2
  <1>5. phase' = "close"
    BY DEF BodyEnds, SealLast
  <1>6. UploadSoFar' /\ Stored' /\ ChunksTrue'
    BY <1>1, <1>4, <1>5
    DEF IInv, UploadSoFar, Stored, ChunksTrue, BodyEnds, downloadVars, TooLarge
  <1>7. Counted' /\ OutputIsPrefix' /\ RoundTrip' /\ OnlyLostTailUnnoticed'
    BY <1>1, DownloadsRest DEF BodyEnds
  <1> QED BY <1>4, <1>6, <1>7 DEF IInv

LEMMA ClientLeavesKeeps == ASSUME IInv, ClientLeaves PROVE IInv'
  <1>1. TypeOK /\ row = {} /\ phase = "body" /\ ~alive'
    BY DEF IInv, UploadSoFar, ClientLeaves
  <1>2. PICK n \in 0 .. ChunkSize - 1 : SealLast(n)
    BY DEF ClientLeaves
  <1>3. object' \in Seq(Chunks) /\ size' \in Bodies /\ phase' = "close"
    BY <1>1, <1>2, SealLastFacts DEF SealLast
  <1>4. TypeOK'
    BY <1>1, <1>3 DEF TypeOK, ClientLeaves, downloadVars
  <1>5. UploadSoFar' /\ Stored' /\ ChunksTrue'
    BY <1>1, <1>3 DEF IInv, UploadSoFar, Stored, ChunksTrue, ClientLeaves, downloadVars
  <1>6. Counted' /\ OutputIsPrefix' /\ RoundTrip' /\ OnlyLostTailUnnoticed'
    BY <1>1, DownloadsRest DEF ClientLeaves
  <1> QED BY <1>4, <1>5, <1>6 DEF IInv

\* The steps that leave the object as it is.
LEMMA UploadRestKeeps ==
    ASSUME IInv,
           BodyTooLarge \/ WriteFails \/ FinalizeVersion \/ RenameFails
           \/ ContextCancelled \/ CommitFails
    PROVE  IInv'
  <1>1. row = {} /\ UNCHANGED <<body, row, object, size, downloadVars, damages>>
    <2>1. phase \in {"body", "close", "commit"}
      BY DEF BodyTooLarge, WriteFails, FinalizeVersion, RenameFails, ContextCancelled,
         CommitFails
    <2>2. UNCHANGED <<body, row, object, size, downloadVars, damages>>
      BY DEF BodyTooLarge, WriteFails, CleanUp, FinalizeVersion, RenameFails,
         ContextCancelled, CommitFails
    <2> QED BY <2>1, <2>2 DEF IInv, UploadSoFar
  <1>2. TypeOK'
    <2>1. /\ phase' \in {"commit", "refused", phase}
          /\ place' \in {"nowhere", "tmp", "versions", place}
          /\ alive' \in {alive, FALSE}
      BY DEF BodyTooLarge, WriteFails, CleanUp, FinalizeVersion, RenameFails,
         ContextCancelled, CommitFails
    <2>2. faults' = faults \/ Fault
      BY DEF BodyTooLarge, WriteFails, CleanUp, FinalizeVersion, RenameFails,
         ContextCancelled, CommitFails
    <2>3. faults' \in 0 .. MaxFaults
      BY <2>2, SizeAssumption DEF IInv, TypeOK, Fault
    <2> QED BY <1>1, <2>1, <2>3 DEF IInv, TypeOK, downloadVars
  <1>3. /\ phase' \in {"close", "commit", "refused"}
        /\ phase' \in {"close", "commit"} /\ alive' => phase \in {"close", "commit"} /\ alive
        /\ phase' = "commit" => place' = "versions"
    BY DEF IInv, UploadSoFar, BodyTooLarge, WriteFails, CleanUp, FinalizeVersion,
       RenameFails, ContextCancelled, CommitFails
  <1>4. UploadSoFar'
    BY <1>1, <1>3 DEF IInv, UploadSoFar, Whole, TooLarge, LengthOf, ChunksOf
  <1>5. Stored' /\ ChunksTrue'
    BY <1>1 DEF IInv, Stored, ChunksTrue, downloadVars
  <1>6. Counted' /\ OutputIsPrefix' /\ RoundTrip' /\ OnlyLostTailUnnoticed'
    BY <1>1, DownloadsRest
  <1> QED BY <1>2, <1>4, <1>5, <1>6 DEF IInv

\* The chunks of a whole object are chunks of the body.
LEMMA WholeIsTrue ==
    ASSUME body \in Bodies, object \in Seq(Chunks), Whole, NEW i \in DOMAIN object
    PROVE  /\ object[i].own /\ object[i].intact /\ object[i].counter = i - 1
           /\ object[i].counter < ChunksOf(body)
           /\ object[i].piece = i - 1
           /\ object[i].len = LengthOf(body, i - 1)
           /\ object[i].last = (i - 1 >= body.full)
  <1>1. i \in 1 .. ChunksOf(body) /\ ChunksOf(body) \in Nat /\ body.full \in Nat
    BY CountsAreNat, LenProperties DEF Whole
  <1>2. object[i] = Chunk(i - 1, LengthOf(body, i - 1), i > body.full)
    BY <1>1 DEF Whole, Chunk
  <1>3. (i > body.full) = (i - 1 >= body.full)
    BY <1>1
  <1> QED BY <1>1, <1>2, <1>3 DEF Chunk

LEMMA CommitVersionKeeps == ASSUME IInv, CommitVersion PROVE IInv'
  <1>1. /\ TypeOK /\ body \in Bodies /\ object \in Seq(Chunks)
        /\ size = body /\ ~TooLarge(body) /\ Whole /\ place = "versions"
        /\ row = {} /\ row' = {body} /\ phase' = "accepted"
        /\ UNCHANGED <<body, alive, size, object, place, downloadVars, damages, faults>>
    BY DEF IInv, TypeOK, UploadSoFar, CommitVersion, ContextAllows
  <1>2. TypeOK'
    BY <1>1 DEF TypeOK, downloadVars
  <1>3. UploadSoFar'
    BY <1>1 DEF UploadSoFar
  <1>4. Stored'
    BY <1>1 DEF Stored, Whole, TooLarge, LengthOf, ChunksOf
  <1>5. ChunksTrue'
    BY <1>1, WholeIsTrue DEF ChunksTrue
  <1>6. Counted' /\ OutputIsPrefix' /\ RoundTrip' /\ OnlyLostTailUnnoticed'
    BY <1>1, DownloadsRest
  <1> QED BY <1>2, <1>3, <1>4, <1>5, <1>6 DEF IInv
-----------------------------------------------------------------------------
\* The steps of a download.  None of them disturbs the upload.

LEMMA UploadRests ==
    ASSUME IInv, UNCHANGED <<uploadVars, damages>>,
           row = {} => UNCHANGED pc
    PROVE  UploadSoFar' /\ Stored' /\ ChunksTrue'
  BY DEF IInv, uploadVars, UploadSoFar, SealedSoFar, Whole, Stored, ChunksTrue, TooLarge,
     LengthOf, ChunksOf

LEMMA OpenVersionKeeps == ASSUME IInv, NEW d \in Downloads, OpenVersion(d) PROVE IInv'
  <1> USE DEF IInv, OpenVersion
  <1>1. TypeOK'
    BY DEF TypeOK, uploadVars
  <1>2. UploadSoFar' /\ Stored' /\ ChunksTrue'
    BY UploadRests
  <1>3. Counted' /\ OutputIsPrefix' /\ RoundTrip' /\ OnlyLostTailUnnoticed'
    BY DEF TypeOK, Counted, OutputIsPrefix, RoundTrip, OnlyLostTailUnnoticed, uploadVars
  <1> QED BY <1>1, <1>2, <1>3

\* What a download learns of a chunk that opens.
LEMMA OpenedPiece ==
    ASSUME IInv, NEW k \in Nat, row # {}, ~AtEnd(k), Opens(object[k + 1], k)
    PROVE  LET c == object[k + 1] IN
              /\ c.own /\ c.piece = k /\ c.len = LengthOf(body, k)
              /\ k + 1 <= ChunksOf(body)
              /\ IsLast(c) => k + 1 = ChunksOf(body)
              /\ [own |-> TRUE, piece |-> k, len |-> c.len] \in Pieces
  <1>1. body \in Bodies /\ object \in Seq(Chunks) /\ ChunksTrue
    BY DEF IInv, TypeOK
  <1>2. k + 1 \in DOMAIN object
    BY <1>1, LenProperties DEF AtEnd
  <1>3. /\ object[k + 1].own /\ object[k + 1].counter = k
    BY DEF Opens
  <1>4. /\ k < ChunksOf(body) /\ object[k + 1].piece = k
        /\ object[k + 1].len = LengthOf(body, k)
    BY <1>1, <1>2, <1>3 DEF ChunksTrue
  <1>5. /\ LengthOf(body, k) \in 0 .. ChunkSize
        /\ LengthOf(body, k) < ChunkSize => k + 1 = ChunksOf(body)
    BY <1>1, <1>4, Lengths
  <1>6. ChunksOf(body) \in Nat
    BY <1>1, CountsAreNat
  <1> QED BY <1>3, <1>4, <1>5, <1>6 DEF IsLast, Pieces

LEMMA DecryptChunkKeeps == ASSUME IInv, NEW d \in Downloads, DecryptChunk(d) PROVE IInv'
  <1> DEFINE k == counter[d]
             c == object[k + 1]
             p == [own |-> TRUE, piece |-> k, len |-> c.len]
  <1>1. /\ TypeOK /\ row # {} /\ k \in Nat /\ ~AtEnd(k) /\ Opens(c, k)
        /\ Len(output[d]) = k /\ output[d] \in Seq(Pieces)
    BY DEF IInv, TypeOK, Stored, Counted, DecryptChunk
  <1>2. /\ c.own /\ c.piece = k /\ c.len = LengthOf(body, k)
        /\ k + 1 <= ChunksOf(body)
        /\ IsLast(c) => k + 1 = ChunksOf(body)
        /\ p \in Pieces
    BY <1>1, OpenedPiece
  <1>3. /\ output' = [output EXCEPT ![d] = Append(output[d], p)]
        /\ counter' = [counter EXCEPT ![d] = k + 1]
        /\ pc' = [pc EXCEPT ![d] = IF IsLast(c) THEN "done" ELSE "stream"]
        /\ UNCHANGED <<response, uploadVars, damages, faults>>
    <2>1. c.own \in BOOLEAN
      <3>1. object \in Seq(Chunks) /\ k + 1 \in 1 .. Len(object)
        BY <1>1, LenProperties DEF TypeOK, AtEnd
      <3>2. c \in Chunks
        BY <3>1, ElementOfSeq
      <3> QED BY <3>2 DEF Chunks
    <2>2. c.own = TRUE
      BY <1>2, <2>1
    <2> QED BY <1>2, <2>2 DEF DecryptChunk
  <1> HIDE DEF c, p
  <1>4. /\ Append(output[d], p) \in Seq(Pieces)
        /\ Len(Append(output[d], p)) = k + 1
        /\ \A i \in 1 .. k : Append(output[d], p)[i] = output[d][i]
        /\ Append(output[d], p)[k + 1] = p
    BY <1>1, <1>2, AppendProperties
  <1>5. TypeOK'
    <2>1. output' \in [Downloads -> Seq(Pieces)]
      BY <1>1, <1>3, <1>4 DEF TypeOK
    <2>2. counter' \in [Downloads -> Nat]
      BY <1>1, <1>3 DEF TypeOK
    <2>3. pc' \in [Downloads -> {"idle", "stream", "done", "failed", "gone"}]
      BY <1>1, <1>3 DEF TypeOK
    <2> QED BY <1>1, <1>3, <2>1, <2>2, <2>3 DEF TypeOK, uploadVars
  <1>6. UploadSoFar' /\ Stored' /\ ChunksTrue'
    BY <1>1, <1>3, UploadRests
  <1>7. /\ output'[d] = Append(output[d], p) /\ counter'[d] = k + 1
        /\ \A e \in Downloads \ {d} : /\ output'[e] = output[e] /\ counter'[e] = counter[e]
                                     /\ pc'[e] = pc[e]
        /\ pc'[d] = IF IsLast(c) THEN "done" ELSE "stream"
        /\ UNCHANGED <<body, row, object, damages>>
    BY <1>1, <1>3 DEF TypeOK, uploadVars
  <1>8. Counted'
    BY <1>2, <1>4, <1>7 DEF IInv, Counted, ChunksOf
  <1>9. OutputIsPrefix'
    <2>1. ASSUME NEW i \in DOMAIN output'[d]
          PROVE  output'[d][i]
                   = [own |-> TRUE, piece |-> i - 1, len |-> LengthOf(body, i - 1)]
      <3>1. i \in 1 .. k + 1
        BY <1>4, <1>7, LenProperties
      <3>2. CASE i = k + 1
        <4>1. i - 1 = k /\ output'[d][i] = p
          BY <3>2, <1>1, <1>4, <1>7
        <4> QED BY <4>1, <1>2, Zenon DEF p
      <3>3. CASE i \in 1 .. k
        <4>1. output'[d][i] = output[d][i] /\ i \in DOMAIN output[d]
          BY <3>3, <1>1, <1>4, <1>7, LenProperties
        <4> QED BY <4>1 DEF IInv, OutputIsPrefix
      <3> QED BY <3>1, <3>2, <3>3, <1>1
    <2>2. \A e \in Downloads \ {d} : \A i \in DOMAIN output'[e] :
            output'[e][i] = [own |-> TRUE, piece |-> i - 1, len |-> LengthOf(body, i - 1)]
      BY <1>7 DEF IInv, OutputIsPrefix
    <2> QED BY <2>1, <2>2, <1>7, Zenon DEF OutputIsPrefix, LengthOf
  <1>10. RoundTrip'
    BY <1>2, <1>4, <1>7 DEF IInv, RoundTrip, ChunksOf
  <1>11. OnlyLostTailUnnoticed'
    BY <1>2, <1>4, <1>7 DEF IInv, OnlyLostTailUnnoticed, ChunksOf
  <1> QED BY <1>5, <1>6, <1>8, <1>9, <1>10, <1>11 DEF IInv

LEMMA StreamEndsKeeps == ASSUME IInv, NEW d \in Downloads, StreamEnds(d) PROVE IInv'
  <1> USE DEF IInv, StreamEnds
  <1>1. TypeOK'
    BY DEF TypeOK, uploadVars
  <1>2. UploadSoFar' /\ Stored' /\ ChunksTrue'
    BY UploadRests DEF Stored
  <1>3. Counted' /\ OutputIsPrefix'
    BY DEF Counted, OutputIsPrefix, uploadVars
  <1>4. Len(object) <= Len(output[d]) /\ Len(output[d]) = counter[d]
    BY DEF AtEnd, Counted
  <1>5. damages = 0 => Len(output[d]) = ChunksOf(body)
    <2>1. damages = 0 => Len(object) = ChunksOf(body)
      BY DEF Stored, Whole
    <2> QED BY <2>1, <1>4, CountsAreNat DEF Counted, TypeOK
  <1>6. RoundTrip' /\ OnlyLostTailUnnoticed'
    BY <1>4, <1>5 DEF TypeOK, RoundTrip, OnlyLostTailUnnoticed, uploadVars, ChunksOf
  <1> QED BY <1>1, <1>2, <1>3, <1>6

\* An undamaged chunk always opens.
LEMMA DecryptFailsKeeps == ASSUME IInv, NEW d \in Downloads, DecryptFails(d) PROVE IInv'
  <1> USE DEF IInv, DecryptFails
  <1>1. TypeOK'
    BY DEF TypeOK, uploadVars
  <1>2. UploadSoFar' /\ Stored' /\ ChunksTrue'
    BY UploadRests DEF Stored
  <1>3. Counted' /\ OutputIsPrefix'
    BY DEF Counted, OutputIsPrefix, uploadVars
  <1>4. ASSUME damages = 0
        PROVE  FALSE
    <2> DEFINE k == counter[d]
               c == object[k + 1]
    <2>1. /\ body \in Bodies /\ object \in Seq(Chunks) /\ Whole /\ row # {}
          /\ k \in Nat /\ ~AtEnd(k)
      BY <1>4 DEF TypeOK, Stored
    <2>2. k + 1 \in DOMAIN object
      BY <2>1, LenProperties DEF AtEnd
    <2>3. /\ c.own /\ c.intact /\ c.counter = k /\ k < ChunksOf(body)
          /\ c.len = LengthOf(body, k) /\ c.last = (k >= body.full)
      BY <2>1, <2>2, WholeIsTrue
    <2>4. LengthOf(body, k) < ChunkSize <=> k >= body.full
      BY <2>1, <2>3, Lengths
    <2> QED BY <2>3, <2>4 DEF Opens, IsLast
  <1>5. RoundTrip' /\ OnlyLostTailUnnoticed'
    BY <1>4 DEF TypeOK, RoundTrip, OnlyLostTailUnnoticed, uploadVars
  <1> QED BY <1>1, <1>2, <1>3, <1>5

LEMMA AnswerKeeps ==
    ASSUME IInv, NEW d \in Downloads, HandlerReturns(d) \/ ClientGone(d)
    PROVE  IInv'
  <1> USE DEF IInv, HandlerReturns, ClientGone
  <1>1. TypeOK'
    BY DEF TypeOK, uploadVars
  <1>2. UploadSoFar' /\ Stored' /\ ChunksTrue'
    BY UploadRests DEF Stored
  <1>3. Counted' /\ OutputIsPrefix'
    BY DEF Counted, OutputIsPrefix, uploadVars
  <1>4. RoundTrip' /\ OnlyLostTailUnnoticed'
    BY DEF TypeOK, RoundTrip, OnlyLostTailUnnoticed, uploadVars
  <1> QED BY <1>1, <1>2, <1>3, <1>4
-----------------------------------------------------------------------------
\* The faults.

LEMMA CrashKeeps == ASSUME IInv, Crash PROVE IInv'
  <1> USE DEF IInv, Crash
  <1>1. TypeOK'
    <2>1. faults' \in 0 .. MaxFaults
      BY SizeAssumption DEF TypeOK, Fault
    <2>2. pc' \in [Downloads -> {"idle", "stream", "done", "failed", "gone"}]
      BY DEF TypeOK
    <2>3. response' \in [Downloads -> {"none", "complete", "cut"}]
      BY DEF TypeOK
    <2> QED BY <2>1, <2>2, <2>3 DEF TypeOK
  <1>2. UploadSoFar'
    BY DEF UploadSoFar
  <1>3. Stored' /\ ChunksTrue'
    BY DEF Stored, ChunksTrue, Whole, TooLarge, LengthOf, ChunksOf
  <1>4. Counted' /\ OutputIsPrefix'
    BY DEF Counted, OutputIsPrefix, LengthOf, ChunksOf
  <1>5. RoundTrip' /\ OnlyLostTailUnnoticed'
    BY DEF RoundTrip, OnlyLostTailUnnoticed
  <1> QED BY <1>1, <1>2, <1>3, <1>4, <1>5

\* Damage makes no chunk of this version that was not there.
LEMMA DamagedObject ==
    ASSUME TypeOK, Damage
    PROVE  /\ object' \in Seq(Chunks) /\ Len(object') <= Len(object)
           /\ \A i \in DOMAIN object' : object'[i].own =>
                 \E j \in DOMAIN object :
                    /\ object[j].own
                    /\ object'[i].counter = object[j].counter
                    /\ object'[i].piece = object[j].piece
                    /\ object'[i].len = object[j].len
                    /\ object'[i].last = object[j].last
  <1>1. object \in Seq(Chunks) /\ Len(object) \in Nat /\ DOMAIN object = 1 .. Len(object)
    BY LenProperties DEF TypeOK
  <1>2. \A i \in 1 .. Len(object) : object[i] \in Chunks
    BY <1>1, ElementOfSeq
  <1>3. CASE \E n \in 0 .. Len(object) - 1 : object' = SubSeq(object, 1, n)
    <2>1. PICK n \in 0 .. Len(object) - 1 : object' = SubSeq(object, 1, n)
      BY <1>3
    <2>2. \A i \in 1 .. n : object[i] \in Chunks
      BY <1>1, <1>2
    <2>3. /\ SubSeq(object, 1, n) \in Seq(Chunks)
          /\ Len(SubSeq(object, 1, n)) = IF 1 <= n THEN n - 1 + 1 ELSE 0
          /\ \A i \in 1 .. n - 1 + 1 : SubSeq(object, 1, n)[i] = object[1 + i - 1]
      BY <2>2, <1>1, SubSeqProperties
    <2>4. Len(object') = n /\ DOMAIN object' = 1 .. n /\ \A i \in 1 .. n : object'[i] = object[i]
      BY <2>1, <2>3, LenProperties
    <2> QED BY <1>1, <2>1, <2>3, <2>4
  <1>4. CASE \E i \in DOMAIN object : object' = [object EXCEPT ![i].intact = FALSE]
    <2>1. PICK i \in DOMAIN object : object' = [object EXCEPT ![i].intact = FALSE]
      BY <1>4
    <2> DEFINE c == [object[i] EXCEPT !.intact = FALSE]
    <2>2. /\ c \in Chunks /\ c.own = object[i].own /\ c.counter = object[i].counter
          /\ c.piece = object[i].piece /\ c.len = object[i].len /\ c.last = object[i].last
      BY <1>1, <1>2 DEF Chunks
    <2> HIDE DEF c
    <2>3. object' = [object EXCEPT ![i] = c]
      BY <2>1 DEF c
    <2>4. object' \in Seq(Chunks) /\ Len(object') = Len(object)
      BY <1>1, <2>2, <2>3, ExceptSeq
    <2>5. \A j \in DOMAIN object : object'[j] = IF j = i THEN c ELSE object[j]
      BY <2>3, <1>1
    <2>6. DOMAIN object' = DOMAIN object
      BY <2>3, <1>1
    <2> QED BY <1>1, <2>1, <2>2, <2>4, <2>5, <2>6
  <1>5. CASE \E i \in DOMAIN object : object' = [object EXCEPT ![i].own = FALSE]
    <2>1. PICK i \in DOMAIN object : object' = [object EXCEPT ![i].own = FALSE]
      BY <1>5
    <2> DEFINE c == [object[i] EXCEPT !.own = FALSE]
    <2>2. c \in Chunks /\ ~c.own
      BY <1>1, <1>2 DEF Chunks
    <2> HIDE DEF c
    <2>3. object' = [object EXCEPT ![i] = c]
      BY <2>1 DEF c
    <2>4. object' \in Seq(Chunks) /\ Len(object') = Len(object)
      BY <1>1, <2>2, <2>3, ExceptSeq
    <2>5. \A j \in DOMAIN object : object'[j] = IF j = i THEN c ELSE object[j]
      BY <2>3, <1>1
    <2>6. DOMAIN object' = DOMAIN object
      BY <2>3, <1>1
    <2> QED BY <1>1, <2>1, <2>2, <2>4, <2>5, <2>6
  <1>6. CASE \E i, j \in DOMAIN object :
                i # j /\ object' = [object EXCEPT ![i] = object[j]]
    <2>1. PICK i, j \in DOMAIN object : object' = [object EXCEPT ![i] = object[j]]
      BY <1>6
    <2>2. object' \in Seq(Chunks) /\ Len(object') = Len(object)
      BY <1>1, <1>2, <2>1, ExceptSeq
    <2>3. \A k \in DOMAIN object : object'[k] = IF k = i THEN object[j] ELSE object[k]
      BY <2>1, <1>1
    <2>4. DOMAIN object' = DOMAIN object
      BY <2>1, <1>1
    <2> QED BY <1>1, <2>1, <2>2, <2>3, <2>4
  <1> QED BY <1>3, <1>4, <1>5, <1>6 DEF Damage

LEMMA DamageKeeps == ASSUME IInv, Damage PROVE IInv'
  <1>1. /\ TypeOK /\ row # {} /\ damages' = damages + 1
        /\ UNCHANGED <<phase, body, alive, size, place, row, downloadVars>>
    BY DEF IInv, Damage
  <1>2. /\ object' \in Seq(Chunks) /\ Len(object') <= Len(object)
        /\ \A i \in DOMAIN object' : object'[i].own =>
              \E j \in DOMAIN object :
                 /\ object[j].own
                 /\ object'[i].counter = object[j].counter
                 /\ object'[i].piece = object[j].piece
                 /\ object'[i].len = object[j].len
                 /\ object'[i].last = object[j].last
    BY <1>1, DamagedObject
  <1>3. damages' \in Nat /\ damages' # 0 /\ Len(object) \in Nat /\ Len(object') \in Nat
    BY <1>1, <1>2, LenProperties DEF TypeOK
  <1>4. TypeOK'
    <2>1. faults' \in 0 .. MaxFaults
      BY <1>1, SizeAssumption DEF TypeOK, Damage, Fault
    <2> QED BY <1>1, <1>2, <1>3, <2>1 DEF TypeOK, downloadVars
  <1>5. UploadSoFar'
    BY <1>1 DEF IInv, UploadSoFar
  <1>6. Stored'
    BY <1>1, <1>3 DEF IInv, Stored, downloadVars, TooLarge
  <1>7. ChunksTrue'
    BY <1>1, <1>2 DEF IInv, ChunksTrue, LengthOf, ChunksOf
  <1>8. Counted' /\ OutputIsPrefix' /\ RoundTrip'
    BY <1>1, <1>3
    DEF IInv, Counted, OutputIsPrefix, RoundTrip, downloadVars, LengthOf, ChunksOf
  <1>9. OnlyLostTailUnnoticed'
    <2>1. \A d \in Downloads : Len(output[d]) \in Nat
      BY <1>1, LenProperties DEF TypeOK
    <2> QED BY <1>1, <1>2, <1>3, <2>1 DEF IInv, OnlyLostTailUnnoticed, downloadVars, ChunksOf
  <1> QED BY <1>4, <1>5, <1>6, <1>7, <1>8, <1>9 DEF IInv

LEMMA StutterKeeps == ASSUME IInv, UNCHANGED vars PROVE IInv'
  <1> USE DEF IInv, vars, uploadVars, downloadVars
  <1>1. TypeOK'
    BY DEF TypeOK
  <1>2. UploadSoFar' /\ Stored' /\ ChunksTrue'
    BY UploadRests
  <1>3. Counted' /\ OutputIsPrefix' /\ RoundTrip' /\ OnlyLostTailUnnoticed'
    BY DownloadsRest
  <1> QED BY <1>1, <1>2, <1>3
-----------------------------------------------------------------------------
LEMMA Invariance == Spec => []IInv
  <1>1. IInv /\ [Next]_vars => IInv'
    <2> SUFFICES ASSUME IInv, [Next]_vars PROVE IInv'
      OBVIOUS
    <2>1. CASE UploadStep
      BY <2>1, CreateTempKeeps, SealFullKeeps, BodyEndsKeeps, ClientLeavesKeeps,
         UploadRestKeeps, CommitVersionKeeps DEF UploadStep
    <2>2. CASE \E d \in Downloads : DownloadStep(d)
      <3>1. PICK d \in Downloads : DownloadStep(d)
        BY <2>2
      <3> QED
        BY <3>1, OpenVersionKeeps, DecryptChunkKeeps, StreamEndsKeeps, DecryptFailsKeeps,
           AnswerKeeps DEF DownloadStep
    <2>3. CASE Crash \/ Damage
      BY <2>3, CrashKeeps, DamageKeeps
    <2>4. CASE Finished \/ UNCHANGED vars
      BY <2>4, StutterKeeps DEF Finished
    <2> QED BY <2>1, <2>2, <2>3, <2>4 DEF Next
  <1> QED BY <1>1, InitIInv, PTL DEF Spec

\* Every variable keeps its type.
THEOREM TypeCorrect == Spec => []TypeOK
  <1>1. IInv => TypeOK
    BY DEF IInv
  <1> QED BY <1>1, Invariance, PTL

\* No version in the tables is cut short or over the limit.
THEOREM VersionsAreWhole == Spec => []CommittedWhole
  <1>1. IInv => CommittedWhole
    <2> SUFFICES ASSUME IInv, row # {} PROVE /\ row = {body} /\ ~TooLarge(body)
                                             /\ place = "versions"
                                             /\ damages = 0 => object = Encrypted(body)
      BY DEF CommittedWhole
    <2>1. row = {body} /\ ~TooLarge(body) /\ place = "versions"
      BY DEF IInv, Stored
    <2>2. ASSUME damages = 0
          PROVE  object = Encrypted(body)
      <3>1. Whole /\ object \in Seq(Chunks)
        BY <2>2 DEF IInv, Stored, TypeOK
      <3>2. DOMAIN object = 1 .. ChunksOf(body) /\ object \in [DOMAIN object -> Chunks]
        BY <3>1, LenProperties DEF Whole
      <3>3. \A i \in 1 .. ChunksOf(body) : object[i] = Encrypted(body)[i]
        BY <3>1 DEF Whole, Encrypted, Chunk
      <3> QED BY <3>2, <3>3 DEF Encrypted
    <2> QED BY <2>1, <2>2
  <1> QED BY <1>1, Invariance, PTL

\* No damage makes a client get bytes that the owner did not put there.
THEOREM NothingForeignSent == Spec => []OutputIsPrefix
  <1>1. IInv => OutputIsPrefix
    BY DEF IInv
  <1> QED BY <1>1, Invariance, PTL

\* DecryptStream undoes EncryptStream for every length of the body.
THEOREM DecryptUndoesEncrypt == Spec => []RoundTrip
  <1>1. IInv => RoundTrip
    BY DEF IInv
  <1> QED BY <1>1, Invariance, PTL

\* What DecryptStream does not notice is the loss of whole chunks at the end.
THEOREM LossesNoticed == Spec => []OnlyLostTailUnnoticed
  <1>1. IInv => OnlyLostTailUnnoticed
    BY DEF IInv
  <1> QED BY <1>1, Invariance, PTL
=============================================================================
