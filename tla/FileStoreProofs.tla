-------------------------- MODULE FileStoreProofs --------------------------
(***************************************************************************)
(* Proofs about FileStore, for any number of uploads, paths and faults.    *)
(***************************************************************************)
EXTENDS FileStore, TLAPS

-----------------------------------------------------------------------------
(***************************************************************************)
(* The inductive invariant.                                                *)
(***************************************************************************)

Uncreated == {"idle", "accepted", "written", "stored", "waiting"}

\* A row of files belongs to an upload that got past ensureFileRow, and the
\* versions batches speak of are those of uploads that committed.
Provenance ==
    /\ \A f \in Uploads : state[f] # "absent" => pc[f] \notin Uncreated /\ path[f] \in Paths
    /\ \A u \in Uploads : pc[u] \in InFlight => path[u] \in Paths
    /\ \A v \in Uploads : v \in versions \cup old \cup gcTodo \cup pruneList => pc[v] = "done"
    /\ pruned # None => pc[pruned] = "done"

\* A lock is held by one open transaction, on an active row that its
\* preconditions accept; every transaction that overwrites holds one.
LockDiscipline ==
    /\ \A u \in Uploads :
          lock[u] # None =>
              /\ pc[u] \in {"ready", "numbered"}
              /\ state[lock[u]] = "active"
              /\ Accepts(lock[u], pre[u])
              /\ \A w \in Uploads \ {u} : lock[w] # lock[u]
    /\ \A u \in Uploads : pc[u] \in {"ready", "numbered"} /\ target[u] # u => lock[u] # None

\* If-Match: v is sent for the file v belongs to, never by the upload that
\* creates that file.
MatchedFile ==
    \A u \in Uploads :
        pre[u].ifMatch \in Uploads =>
            /\ pre[u].ifNoneMatch = None
            /\ pc[pre[u].ifMatch] = "done"
            /\ target[pre[u].ifMatch] = target[u]
            /\ target[u] # u

\* The version number the pointer of a file stands at; 0 when it is NULL.
TopNumber(f) == IF current[f] = None THEN 0 ELSE number[current[f]]

\* A number that was computed is still the next one, or is taken by a version
\* too young to be pruned (and then the INSERT fails).
NumberFresh ==
    \A u \in Uploads :
        pc[u] = "numbered" =>
            \/ number[u] = TopNumber(target[u]) + 1
            \/ \E v \in VersionsOf(target[u]) : number[v] = number[u] /\ v \notin old

\* No committed version, pruned or not, has a higher number than the pointer.
PointerIsTop ==
    \A u \in Uploads :
        pc[u] = "done" =>
            /\ current[target[u]] # None
            /\ number[u] <= number[current[target[u]]]

\* An upload that succeeded with If-Match: v has a higher number than v.
WinnerIsNewer ==
    \A u \in Uploads :
        pc[u] = "done" /\ pre[u].ifMatch \in Uploads => number[u] > number[pre[u].ifMatch]

\* The versions prune has on its list, or half erased, are old and superseded.
PruneSafe ==
    /\ \A v \in pruneList : v \in old /\ current[target[v]] # v /\ v # pruned
    /\ pruned # None => pruned \in old /\ current[target[pruned]] # pruned /\ pruned \notin store

\* The versions gc is erasing are listed ones of the file it works on.
GcSafe ==
    /\ gcTodo \subseteq claimed
    /\ gcFile = None => gcTodo = {}
    /\ \A v \in gcTodo : target[v] = gcFile

\* The body is in place before any table speaks of it.
BytesFirst ==
    \A u \in Uploads : pc[u] \in {"stored", "waiting", "ready", "numbered"} => u \in store

IInv ==
    /\ TypeOK
    /\ Provenance
    /\ LockDiscipline
    /\ MatchedFile
    /\ NumberFresh
    /\ PointerIsTop
    /\ WinnerIsNewer
    /\ PruneSafe
    /\ GcSafe
    /\ BytesFirst
    /\ CurrentIsNewest
    /\ CurrentReadable
    /\ OneActivePerName
    /\ NoBytesWithoutRow
    /\ OneWinnerPerVersion
-----------------------------------------------------------------------------
(***************************************************************************)
(* What the operators return.                                              *)
(***************************************************************************)

\* An If-Match: v upload goes on only over an active file whose current
\* version is v.
LEMMA AcceptedMatch ==
    ASSUME NEW f, NEW q \in Preconditions,
           q.ifMatch \in Uploads, q.ifNoneMatch = None, Accepts(f, q)
    PROVE  f # None /\ current[f] = q.ifMatch /\ state[f] = "active"
<1>1. q.ifMatch # None /\ q.ifMatch # Star
  BY MarkerAssumption
<1>2. RefOf(f) # None
  BY <1>1, MarkerAssumption DEF Accepts, ResolveOCC, GoesOn
<1>3. f # None /\ current[f] # None /\ RefOf(f) = [state |-> state[f], version |-> current[f]]
  BY <1>2 DEF RefOf
<1>4. state[f] = "active" /\ q.ifMatch = current[f]
  BY <1>1, <1>2, <1>3, MarkerAssumption DEF Accepts, ResolveOCC, GoesOn
<1> QED
  BY <1>3, <1>4

\* A lookup answers an active row or no row.
LEMMA LookupAnswers ==
    ASSUME NEW p, NEW f \in Lookup(p), f # None
    PROVE  f \in Uploads /\ state[f] = "active"
BY DEF Lookup, ActiveAt

\* A list of versions has rows of that very file only.
LEMMA ListsOwnVersions ==
    ASSUME NEW f, NEW seen \in ListByFile(f)
    PROVE  seen \subseteq VersionsOf(f)
BY DEF ListByFile, Replicated, Newest

\* COALESCE(MAX(version_number), 0) + 1 is one more than the highest number of
\* the rows, where one of them has it.
LEMMA NextAfterHighest ==
    ASSUME TypeOK, NEW f \in Uploads, NEW top \in VersionsOf(f),
           \A v \in VersionsOf(f) : v # top => number[v] < number[top]
    PROVE  NextVersionNumber(f) = number[top] + 1 /\ number[top] \in Nat
<1> DEFINE numbers == {number[v] : v \in VersionsOf(f)}
           IsMax(n) == \A w \in VersionsOf(f) : number[w] <= n
<1>1. \A v \in VersionsOf(f) : number[v] \in Nat
  BY DEF TypeOK, VersionsOf
<1>2. number[top] \in numbers /\ IsMax(number[top])
  BY <1>1
<1>3. \A n \in numbers : IsMax(n) => n = number[top]
  BY <1>1
<1>4. (CHOOSE n \in numbers : IsMax(n)) = number[top]
  BY <1>2, <1>3
<1>5. NextVersionNumber(f) = 1 + (CHOOSE n \in numbers : IsMax(n))
  BY Zenon DEF NextVersionNumber
<1> QED
  BY <1>1, <1>4, <1>5

\* It is one more than the number the pointer stands at.
LEMMA NextIsAfterTop ==
    ASSUME TypeOK, CurrentIsNewest, NEW f \in Uploads
    PROVE  NextVersionNumber(f) = TopNumber(f) + 1 /\ TopNumber(f) \in Nat
<1>1. CASE current[f] = None
  BY <1>1 DEF CurrentIsNewest, NextVersionNumber, TopNumber
<1>2. CASE current[f] # None
  BY <1>2, NextAfterHighest DEF CurrentIsNewest, TopNumber
<1> QED
  BY <1>1, <1>2
-----------------------------------------------------------------------------
(***************************************************************************)
(* The steps, by what they disturb.  Most steps leave the uploads and the  *)
(* tables alone, and with them most of the invariant.                      *)
(***************************************************************************)

\* The part of the invariant that speaks of uploads and tables only.
TablesInv ==
    /\ LockDiscipline
    /\ MatchedFile
    /\ NumberFresh
    /\ PointerIsTop
    /\ WinnerIsNewer
    /\ CurrentIsNewest
    /\ OneActivePerName
    /\ OneWinnerPerVersion

\* A step of the batches or the calendar keeps that part.
LEMMA TablesFrame ==
    ASSUME IInv, UNCHANGED <<uploadVars, tableVars>>,
           (\A u \in Uploads : pc[u] # "numbered") \/ old' = old
    PROVE  TablesInv'
<1> USE DEF IInv, uploadVars, tableVars
<1>1. LockDiscipline'
  BY DEF LockDiscipline, Accepts, RefOf
<1>2. MatchedFile' /\ PointerIsTop' /\ WinnerIsNewer'
  BY DEF MatchedFile, PointerIsTop, WinnerIsNewer
<1>3. NumberFresh'
  BY DEF NumberFresh, TopNumber, VersionsOf
<1>4. CurrentIsNewest'
  BY DEF CurrentIsNewest, VersionsOf
<1>5. OneActivePerName' /\ OneWinnerPerVersion'
  BY DEF OneActivePerName, OneWinnerPerVersion
<1> QED
  BY <1>1, <1>2, <1>3, <1>4, <1>5 DEF TablesInv

LEMMA InitEstablishesIInv == Init => IInv
<1> SUFFICES ASSUME Init PROVE IInv
  OBVIOUS
<1> USE DEF Init
<1>1. TypeOK
  BY FaultAssumption DEF TypeOK, Steps, FileStates, Preconditions
<1>2. Provenance /\ BytesFirst /\ PruneSafe /\ GcSafe
  BY MarkerAssumption DEF Provenance, BytesFirst, PruneSafe, GcSafe, Uncreated, InFlight
<1>3. LockDiscipline /\ MatchedFile /\ NumberFresh /\ PointerIsTop /\ WinnerIsNewer
  BY MarkerAssumption
     DEF LockDiscipline, MatchedFile, NumberFresh, PointerIsTop, WinnerIsNewer
<1>4. CurrentIsNewest /\ CurrentReadable
  BY DEF CurrentIsNewest, CurrentReadable, VersionsOf
<1>5. OneActivePerName /\ NoBytesWithoutRow /\ OneWinnerPerVersion
  BY DEF OneActivePerName, NoBytesWithoutRow, OneWinnerPerVersion
<1> QED
  BY <1>1, <1>2, <1>3, <1>4, <1>5 DEF IInv
-----------------------------------------------------------------------------
(***************************************************************************)
(* Batches and calendar.                                                   *)
(***************************************************************************)

\* A gc step that touches no table: it takes bytes of listed versions only.
LEMMA GcFrame ==
    ASSUME IInv,
           UNCHANGED <<uploadVars, tableVars, tmp, dateVars, pruneVars>>,
           TypeOK', GcSafe',
           claimed \subseteq claimed',
           store' \subseteq store,
           gcTodo' \subseteq gcTodo \cup versions,
           \A v \in store \ store' : pc[v] = "done" /\ v \in claimed
    PROVE  IInv'
<1> USE DEF IInv, uploadVars, tableVars, dateVars, pruneVars
<1>1. TablesInv'
  BY TablesFrame
<1>2. Provenance' /\ BytesFirst'
  BY DEF Provenance, BytesFirst, TypeOK
<1>3. PruneSafe' /\ NoBytesWithoutRow'
  BY DEF PruneSafe, NoBytesWithoutRow
<1>4. CurrentReadable'
  BY DEF CurrentReadable, CurrentIsNewest, VersionsOf
<1> QED
  BY <1>1, <1>2, <1>3, <1>4 DEF TablesInv

LEMMA GcScanStep == IInv /\ GcScan => IInv'
<1> SUFFICES ASSUME IInv, GcScan PROVE IInv'
  OBVIOUS
<1> USE DEF IInv, GcScan, uploadVars, tableVars, diskVars, dateVars, pruneVars
<1>1. TypeOK'
  BY DEF TypeOK
<1>2. GcSafe'
  BY DEF GcSafe
<1> QED
  BY <1>1, <1>2, GcFrame

LEMMA GcListStep == ASSUME NEW f \in Uploads PROVE IInv /\ GcList(f) => IInv'
<1> SUFFICES ASSUME IInv, GcList(f) PROVE IInv'
  OBVIOUS
<1> USE DEF IInv, GcList, uploadVars, tableVars, diskVars, dateVars, pruneVars, VersionsOf
<1>1. gcTodo' \subseteq VersionsOf(f)
  BY ListsOwnVersions
<1>2. TypeOK'
  BY <1>1 DEF TypeOK
<1>3. GcSafe'
  BY <1>1, MarkerAssumption DEF GcSafe
<1> QED
  BY <1>1, <1>2, <1>3, GcFrame

LEMMA GcRemoveStep == ASSUME NEW v \in Uploads PROVE IInv /\ GcRemove(v) => IInv'
<1> SUFFICES ASSUME IInv, GcRemove(v) PROVE IInv'
  OBVIOUS
<1> USE DEF IInv, GcRemove, Removed, uploadVars, tableVars, dateVars, pruneVars
<1>1. TypeOK'
  BY DEF TypeOK
<1>2. GcSafe'
  BY DEF GcSafe
<1>3. pc[v] = "done" /\ v \in claimed
  BY DEF Provenance, GcSafe
<1> QED
  BY <1>1, <1>2, <1>3, GcFrame

LEMMA GcFailStep == IInv /\ GcFail => IInv'
<1> SUFFICES ASSUME IInv, GcFail PROVE IInv'
  OBVIOUS
<1> USE DEF IInv, GcFail, uploadVars, tableVars, diskVars, dateVars, pruneVars
<1>1. TypeOK'
  BY FaultAssumption DEF TypeOK
<1>2. GcSafe'
  BY MarkerAssumption DEF GcSafe
<1> QED
  BY <1>1, <1>2, GcFrame

\* The file that is purged was in the trash, so no transaction holds it.
LEMMA GcPurgeStep == IInv /\ GcPurge => IInv'
<1> SUFFICES ASSUME IInv, GcPurge PROVE IInv'
  OBVIOUS
<1> USE DEF IInv, GcPurge, uploadVars, diskVars, pruneVars
<1>1. TypeOK'
  BY DEF TypeOK, FileStates
<1>2. \A f \in Uploads : /\ state'[f] = "active" <=> state[f] = "active"
                         /\ state'[f] = "absent" <=> state[f] = "absent"
  BY DEF TypeOK
<1>3. Provenance' /\ BytesFirst'
  BY <1>2 DEF Provenance, BytesFirst
<1>4. LockDiscipline'
  <2>1. \A f \in Uploads : Locked(f) => state'[f] = state[f]
    BY DEF TypeOK, Locked, LockDiscipline
  <2> QED
    BY <2>1 DEF LockDiscipline, Locked, Accepts, RefOf, TypeOK
<1>5. MatchedFile' /\ PointerIsTop' /\ WinnerIsNewer' /\ OneWinnerPerVersion'
  BY DEF MatchedFile, PointerIsTop, WinnerIsNewer, OneWinnerPerVersion
<1>6. NumberFresh' /\ CurrentIsNewest'
  BY DEF NumberFresh, CurrentIsNewest, TopNumber, VersionsOf
<1>7. CurrentReadable' /\ NoBytesWithoutRow' /\ PruneSafe'
  BY DEF CurrentReadable, NoBytesWithoutRow, PruneSafe
<1>8. GcSafe' /\ OneActivePerName'
  BY <1>2 DEF GcSafe, OneActivePerName
<1> QED
  BY <1>1, <1>3, <1>4, <1>5, <1>6, <1>7, <1>8

\* A prune step that touches no table: it takes bytes of old, superseded
\* versions only.
LEMMA PruneFrame ==
    ASSUME IInv,
           UNCHANGED <<uploadVars, tableVars, tmp, dateVars, gcVars>>,
           TypeOK', PruneSafe',
           store' \subseteq store,
           pruneList' \subseteq pruneList \cup Prunable,
           pruned' # None => pc[pruned'] = "done",
           \A v \in store \ store' : v \in pruneList
    PROVE  IInv'
<1> USE DEF IInv, uploadVars, tableVars, dateVars, gcVars
<1>1. TablesInv'
  BY TablesFrame
<1>2. Provenance'
  BY DEF Provenance, Prunable, TypeOK
<1>3. BytesFirst' /\ NoBytesWithoutRow'
  BY DEF Provenance, BytesFirst, NoBytesWithoutRow
<1>4. GcSafe'
  BY DEF GcSafe
<1>5. CurrentReadable'
  BY DEF CurrentReadable, CurrentIsNewest, VersionsOf, PruneSafe
<1> QED
  BY <1>1, <1>2, <1>3, <1>4, <1>5 DEF TablesInv

LEMMA PruneScanStep == IInv /\ PruneScan => IInv'
<1> SUFFICES ASSUME IInv, PruneScan PROVE IInv'
  OBVIOUS
<1> USE DEF IInv, PruneScan, uploadVars, tableVars, diskVars, dateVars, gcVars
<1>1. TypeOK'
  BY DEF TypeOK, Prunable
<1>2. PruneSafe'
  BY MarkerAssumption DEF PruneSafe, Prunable, TypeOK
<1> QED
  BY <1>1, <1>2, PruneFrame

LEMMA PruneRemoveStep == ASSUME NEW v \in Uploads PROVE IInv /\ PruneRemove(v) => IInv'
<1> SUFFICES ASSUME IInv, PruneRemove(v) PROVE IInv'
  OBVIOUS
<1> USE DEF IInv, PruneRemove, Removed, uploadVars, tableVars, diskVars, dateVars, gcVars
<1>1. TypeOK'
  BY DEF TypeOK
<1>2. PruneSafe'
  BY DEF PruneSafe
<1>3. pc[v] = "done"
  BY DEF Provenance
<1> QED
  BY <1>1, <1>2, <1>3, PruneFrame

LEMMA PruneFailStep == IInv /\ PruneFail => IInv'
<1> SUFFICES ASSUME IInv, PruneFail PROVE IInv'
  OBVIOUS
<1> USE DEF IInv, PruneFail, uploadVars, tableVars, diskVars, dateVars, gcVars
<1>1. pruneList' \subseteq pruneList
  OBVIOUS
<1>2. TypeOK'
  BY <1>1, FaultAssumption DEF TypeOK
<1>3. PruneSafe'
  BY <1>1, MarkerAssumption DEF PruneSafe, TypeOK
<1> QED
  BY <1>1, <1>2, <1>3, PruneFrame

\* The row that goes is not the current version of its file, and its bytes are
\* gone already.
LEMMA PruneDeleteStep == IInv /\ PruneDelete => IInv'
<1> SUFFICES ASSUME IInv, PruneDelete PROVE IInv'
  OBVIOUS
<1> USE DEF IInv, PruneDelete, uploadVars, diskVars, gcVars
<1>1. TypeOK'
  BY DEF TypeOK
<1>2. Provenance' /\ BytesFirst' /\ GcSafe'
  BY MarkerAssumption DEF Provenance, BytesFirst, GcSafe
<1>3. LockDiscipline' /\ OneActivePerName'
  BY DEF LockDiscipline, Accepts, RefOf, OneActivePerName
<1>4. MatchedFile' /\ PointerIsTop' /\ WinnerIsNewer' /\ OneWinnerPerVersion'
  BY DEF MatchedFile, PointerIsTop, WinnerIsNewer, OneWinnerPerVersion
<1>5. pruned \in old /\ current[target[pruned]] # pruned /\ pruned \notin store
  BY DEF PruneSafe
<1>6. NumberFresh'
  BY <1>5 DEF NumberFresh, TopNumber, VersionsOf
<1>7. CurrentIsNewest'
  <2>1. \A f \in Uploads : VersionsOf(f)' = VersionsOf(f) \ {pruned}
    BY DEF VersionsOf
  <2>2. \A f \in Uploads : current[f] # None => current[f] # pruned
    BY <1>5 DEF CurrentIsNewest, VersionsOf
  <2> QED
    BY <2>1, <2>2 DEF CurrentIsNewest
<1>8. CurrentReadable' /\ NoBytesWithoutRow'
  BY <1>5 DEF CurrentReadable, NoBytesWithoutRow
<1>9. PruneSafe'
  BY MarkerAssumption DEF PruneSafe, TypeOK
<1> QED
  BY <1>1, <1>2, <1>3, <1>4, <1>6, <1>7, <1>8, <1>9

\* The calendar.  A number that is computed and not yet used keeps its young
\* rival, because no threshold passes inside a transaction.
LEMMA AgeStep == ASSUME NEW f \in Uploads PROVE IInv /\ (AgeTrash(f) \/ AgeVersion(f)) => IInv'
<1> SUFFICES ASSUME IInv, AgeTrash(f) \/ AgeVersion(f) PROVE IInv'
  OBVIOUS
<1> USE DEF IInv, AgeTrash, AgeVersion, uploadVars, tableVars, diskVars, gcVars, pruneVars
<1>1. TypeOK'
  BY DEF TypeOK
<1>2. TablesInv'
  <2>1. (\A u \in Uploads : pc[u] # "numbered") \/ old' = old
    BY DEF InTransaction
  <2> QED
    BY <2>1, TablesFrame
<1>3. old \subseteq old' /\ \A v \in old' : v \in old \/ v \in versions
  OBVIOUS
<1>4. Provenance' /\ BytesFirst'
  BY <1>3 DEF Provenance, BytesFirst, TypeOK
<1>5. PruneSafe'
  BY <1>3 DEF PruneSafe
<1>6. GcSafe' /\ CurrentReadable' /\ NoBytesWithoutRow'
  BY DEF GcSafe, CurrentReadable, NoBytesWithoutRow
<1> QED
  BY <1>1, <1>2, <1>4, <1>5, <1>6 DEF TablesInv
-----------------------------------------------------------------------------
(***************************************************************************)
(* Trash.                                                                  *)
(***************************************************************************)

LEMMA DeleteStep == ASSUME NEW f \in Uploads PROVE IInv /\ Delete(f) => IInv'
<1> SUFFICES ASSUME IInv, Delete(f) PROVE IInv'
  OBVIOUS
<1> USE DEF IInv, Delete, uploadVars, diskVars, dateVars, gcVars, pruneVars
<1>1. TypeOK'
  BY DEF TypeOK, FileStates
<1>2. Provenance' /\ BytesFirst'
  BY DEF Provenance, BytesFirst, TypeOK
<1>3. LockDiscipline'
  BY DEF LockDiscipline, Locked, Accepts, RefOf, TypeOK
<1>4. MatchedFile' /\ PointerIsTop' /\ WinnerIsNewer' /\ OneWinnerPerVersion'
  BY DEF MatchedFile, PointerIsTop, WinnerIsNewer, OneWinnerPerVersion
<1>5. NumberFresh' /\ CurrentIsNewest'
  BY DEF NumberFresh, CurrentIsNewest, TopNumber, VersionsOf
<1>6. CurrentReadable' /\ NoBytesWithoutRow' /\ PruneSafe' /\ GcSafe'
  BY DEF CurrentReadable, NoBytesWithoutRow, PruneSafe, GcSafe
<1>7. OneActivePerName'
  BY DEF OneActivePerName, TypeOK
<1> QED
  BY <1>1, <1>2, <1>3, <1>4, <1>5, <1>6, <1>7

LEMMA RestoreStep == ASSUME NEW f \in Uploads PROVE IInv /\ Restore(f) => IInv'
<1> SUFFICES ASSUME IInv, Restore(f) PROVE IInv'
  OBVIOUS
<1> USE DEF IInv, Restore, uploadVars, diskVars, dateVars, gcVars, pruneVars
<1>1. TypeOK'
  BY DEF TypeOK, FileStates
<1>2. Provenance' /\ BytesFirst'
  BY DEF Provenance, BytesFirst, TypeOK
<1>3. LockDiscipline'
  BY DEF LockDiscipline, Locked, Accepts, RefOf, TypeOK
<1>4. MatchedFile' /\ PointerIsTop' /\ WinnerIsNewer' /\ OneWinnerPerVersion'
  BY DEF MatchedFile, PointerIsTop, WinnerIsNewer, OneWinnerPerVersion
<1>5. NumberFresh' /\ CurrentIsNewest'
  BY DEF NumberFresh, CurrentIsNewest, TopNumber, VersionsOf
<1>6. CurrentReadable' /\ NoBytesWithoutRow' /\ PruneSafe' /\ GcSafe'
  BY DEF CurrentReadable, NoBytesWithoutRow, PruneSafe, GcSafe
<1>7. OneActivePerName'
  BY DEF OneActivePerName, NameTaken, TypeOK
<1> QED
  BY <1>1, <1>2, <1>3, <1>4, <1>5, <1>6, <1>7
-----------------------------------------------------------------------------
(***************************************************************************)
(* Uploads.                                                                *)
(***************************************************************************)

\* A file name enters the invariant of an upload here: f # None when If-Match
\* was accepted, and f is not u because u has created nothing yet.
LEMMA PreflightStep ==
    ASSUME NEW u \in Uploads, NEW p \in Paths, NEW q \in Preconditions,
           q.ifMatch \in Uploads => q.ifNoneMatch = None /\ pc[q.ifMatch] = "done"
    PROVE  IInv /\ Preflight(u, p, q) => IInv'
<1> SUFFICES ASSUME IInv, Preflight(u, p, q) PROVE IInv'
  OBVIOUS
<1> USE DEF IInv, Preflight, tableVars, diskVars, dateVars, gcVars, pruneVars
<1>1. PICK f \in Lookup(p) :
        IF Accepts(f, q)
        THEN /\ pc' = [pc EXCEPT ![u] = "accepted"]
             /\ path' = [path EXCEPT ![u] = p]
             /\ pre' = [pre EXCEPT ![u] = q]
             /\ target' = [target EXCEPT ![u] = IF f = None THEN u ELSE f]
        ELSE /\ pc' = [pc EXCEPT ![u] = "refused"]
             /\ UNCHANGED <<path, pre, target>>
  OBVIOUS
<1>2. f # None => f \in Uploads /\ state[f] = "active"
  BY LookupAnswers
<1>3. TypeOK'
  BY <1>1, <1>2 DEF TypeOK, Steps
<1>4. /\ pc[u] = "idle" /\ lock[u] = None /\ state[u] = "absent"
      /\ u \notin versions /\ u \notin old /\ u \notin gcTodo /\ u \notin pruneList
      /\ u # pruned
  BY MarkerAssumption DEF Provenance, LockDiscipline, Uncreated
<1>5. /\ \A w \in Uploads : w # u => /\ pc'[w] = pc[w] /\ path'[w] = path[w]
                                     /\ pre'[w] = pre[w] /\ target'[w] = target[w]
      /\ pc'[u] \in {"accepted", "refused"}
  BY <1>1 DEF TypeOK
<1>6. \A g \in Uploads : VersionsOf(g)' = VersionsOf(g)
  BY <1>4, <1>5 DEF VersionsOf, TypeOK
<1>7. Provenance'
  BY <1>1, <1>4, <1>5, MarkerAssumption DEF Provenance, Uncreated, InFlight, TypeOK
<1>8. LockDiscipline'
  BY <1>4, <1>5 DEF LockDiscipline, Accepts, RefOf, TypeOK
<1>9. MatchedFile'
  <2>1. CASE Accepts(f, q)
    <3>1. q.ifMatch \in Uploads => f # None /\ current[f] = q.ifMatch
      BY <2>1, AcceptedMatch
    <3>2. q.ifMatch \in Uploads => target[q.ifMatch] = f /\ q.ifMatch # u /\ f # u
      BY <1>2, <1>4, <3>1, MarkerAssumption DEF CurrentIsNewest, VersionsOf
    <3> QED
      BY <1>1, <1>2, <1>4, <1>5, <2>1, <3>1, <3>2 DEF MatchedFile, TypeOK
  <2>2. CASE ~Accepts(f, q)
    BY <1>1, <1>4, <1>5, <2>2 DEF MatchedFile, TypeOK
  <2> QED
    BY <2>1, <2>2
<1>10. NumberFresh'
  BY <1>4, <1>5, <1>6 DEF NumberFresh, TopNumber, TypeOK
<1>11. PointerIsTop'
  BY <1>4, <1>5 DEF PointerIsTop
<1>12. WinnerIsNewer' /\ OneWinnerPerVersion'
  BY <1>4, <1>5 DEF WinnerIsNewer, OneWinnerPerVersion
<1>13. CurrentIsNewest' /\ CurrentReadable'
  BY <1>6 DEF CurrentIsNewest, CurrentReadable
<1>14. OneActivePerName'
  BY <1>4, <1>5 DEF OneActivePerName
<1>15. NoBytesWithoutRow' /\ BytesFirst'
  BY <1>4, <1>5 DEF NoBytesWithoutRow, BytesFirst, TypeOK
<1>16. PruneSafe' /\ GcSafe'
  BY <1>4, <1>5, MarkerAssumption DEF PruneSafe, GcSafe, TypeOK
<1> QED
  BY <1>3, <1>7, <1>8, <1>9, <1>10, <1>11, <1>12, <1>13, <1>14, <1>15, <1>16

\* A step of u that neither numbers nor commits, leaves the tables alone and
\* ends with no lock.
LEMMA StageFrame ==
    ASSUME IInv, NEW u \in Uploads,
           UNCHANGED <<path, pre, target, number, tableVars, dateVars, gcVars, pruneVars>>,
           \A w \in Uploads : w # u => pc'[w] = pc[w] /\ lock'[w] = lock[w],
           pc[u] \in InFlight,
           pc'[u] \in {"written", "stored", "waiting", "refused", "failed"},
           pc'[u] \in Uncreated => pc[u] \in Uncreated,
           pc'[u] \in {"stored", "waiting"} => u \in store',
           lock'[u] = None,
           store \subseteq store', store' \subseteq store \cup {u},
           TypeOK'
    PROVE  IInv'
<1> USE DEF IInv, tableVars, dateVars, gcVars, pruneVars
<1>1. \A w \in Uploads : pc'[w] = "done" <=> pc[w] = "done"
  BY DEF InFlight
<1>2. Provenance'
  BY <1>1, MarkerAssumption DEF Provenance, Uncreated, InFlight, TypeOK
<1>3. LockDiscipline'
  BY DEF LockDiscipline, Accepts, RefOf, TypeOK
<1>4. MatchedFile' /\ PointerIsTop' /\ WinnerIsNewer' /\ OneWinnerPerVersion'
  BY <1>1 DEF MatchedFile, PointerIsTop, WinnerIsNewer, OneWinnerPerVersion
<1>5. NumberFresh'
  BY DEF NumberFresh, TopNumber, VersionsOf
<1>6. CurrentIsNewest' /\ CurrentReadable'
  BY DEF CurrentIsNewest, CurrentReadable, VersionsOf
<1>7. NoBytesWithoutRow'
  BY <1>1 DEF NoBytesWithoutRow, TypeOK, InFlight
<1>8. BytesFirst'
  BY DEF BytesFirst
<1>9. PruneSafe'
  BY MarkerAssumption DEF PruneSafe, Provenance, InFlight
<1>10. GcSafe' /\ OneActivePerName'
  BY DEF GcSafe, OneActivePerName
<1> QED
  BY <1>2, <1>3, <1>4, <1>5, <1>6, <1>7, <1>8, <1>9, <1>10

LEMMA WriteTempStep == ASSUME NEW u \in Uploads PROVE IInv /\ WriteTemp(u) => IInv'
<1> SUFFICES ASSUME IInv, WriteTemp(u) PROVE IInv'
  OBVIOUS
<1> USE DEF IInv, WriteTemp, tableVars, dateVars, gcVars, pruneVars
<1>1. TypeOK'
  BY DEF TypeOK, Steps
<1>2. lock'[u] = None
  BY DEF LockDiscipline
<1>3. pc[u] \in InFlight /\ pc[u] \in Uncreated /\ pc'[u] = "written"
  BY DEF InFlight, Uncreated, TypeOK
<1>4. \A w \in Uploads : w # u => pc'[w] = pc[w] /\ lock'[w] = lock[w]
  BY DEF TypeOK
<1> QED
  BY <1>1, <1>2, <1>3, <1>4, StageFrame

LEMMA FinalizeStep == ASSUME NEW u \in Uploads PROVE IInv /\ Finalize(u) => IInv'
<1> SUFFICES ASSUME IInv, Finalize(u) PROVE IInv'
  OBVIOUS
<1> USE DEF IInv, Finalize, Stored, tableVars, dateVars, gcVars, pruneVars
<1>1. TypeOK'
  BY DEF TypeOK, Steps
<1>2. lock'[u] = None
  BY DEF LockDiscipline
<1>3. pc[u] \in InFlight /\ pc[u] \in Uncreated /\ pc'[u] = "stored"
  BY DEF InFlight, Uncreated, TypeOK
<1>4. \A w \in Uploads : w # u => pc'[w] = pc[w] /\ lock'[w] = lock[w]
  BY DEF TypeOK
<1> QED
  BY <1>1, <1>2, <1>3, <1>4, StageFrame

LEMMA FailStep == ASSUME NEW u \in Uploads PROVE IInv /\ Fail(u) => IInv'
<1> SUFFICES ASSUME IInv, Fail(u) PROVE IInv'
  OBVIOUS
<1> USE DEF IInv, Fail, Unlock, tableVars, diskVars, dateVars, gcVars, pruneVars
<1>1. TypeOK'
  BY FaultAssumption DEF TypeOK, Steps
<1>2. lock'[u] = None /\ pc'[u] = "failed"
  BY DEF TypeOK
<1>3. \A w \in Uploads : w # u => pc'[w] = pc[w] /\ lock'[w] = lock[w]
  BY DEF TypeOK
<1> QED
  BY <1>1, <1>2, <1>3, StageFrame DEF Uncreated

LEMMA WaitStep == ASSUME NEW u \in Uploads PROVE IInv /\ Wait(u) => IInv'
<1> SUFFICES ASSUME IInv, Wait(u) PROVE IInv'
  OBVIOUS
<1> USE DEF IInv, Wait, tableVars, diskVars, dateVars, gcVars, pruneVars
<1>1. TypeOK'
  BY DEF TypeOK, Steps
<1>2. lock'[u] = None /\ u \in store'
  BY DEF LockDiscipline, BytesFirst
<1>3. pc[u] \in InFlight /\ pc[u] \in Uncreated /\ pc'[u] = "waiting"
  BY DEF InFlight, Uncreated, TypeOK
<1>4. \A w \in Uploads : w # u => pc'[w] = pc[w] /\ lock'[w] = lock[w]
  BY DEF TypeOK
<1> QED
  BY <1>1, <1>2, <1>3, <1>4, StageFrame

\* The row that appears has no version yet, and its name was free.
LEMMA EnsureFileRowStep == ASSUME NEW u \in Uploads PROVE IInv /\ EnsureFileRow(u) => IInv'
<1> SUFFICES ASSUME IInv, EnsureFileRow(u) PROVE IInv'
  OBVIOUS
<1> USE DEF IInv, EnsureFileRow, diskVars, dateVars, gcVars, pruneVars
<1>1. TypeOK'
  BY DEF TypeOK, Steps, FileStates
<1>2. lock[u] = None /\ state[u] = "absent" /\ pc[u] = "stored" /\ path[u] \in Paths
  BY DEF LockDiscipline, Provenance, Uncreated, InFlight
<1>3. \A w \in Uploads : w # u => pc'[w] = pc[w] /\ state'[w] = state[w]
  BY DEF TypeOK
<1>4. CASE NameTaken(path[u])
  <2>1. pc'[u] = "failed" /\ UNCHANGED state
    BY <1>4 DEF TypeOK
  <2> QED
    BY <1>1, <1>2, <1>3, <2>1, StageFrame DEF InFlight, Uncreated, tableVars
<1>5. CASE ~NameTaken(path[u])
  <2>1. pc'[u] = "ready" /\ state'[u] = "active"
    BY <1>5 DEF TypeOK
  <2>2. \A w \in Uploads : pc'[w] = "done" <=> pc[w] = "done"
    BY <1>2, <1>3, <2>1
  <2>3. Provenance'
    BY <1>2, <1>3, <2>1, <2>2, MarkerAssumption
       DEF Provenance, Uncreated, InFlight, TypeOK
  <2>4. LockDiscipline'
    <3>1. \A w \in Uploads : lock[w] # None => lock[w] \in Uploads /\ lock[w] # u
      BY <1>2 DEF LockDiscipline, TypeOK
    <3>2. \A w \in Uploads : lock[w] # None => RefOf(lock[w])' = RefOf(lock[w])
      BY <1>3, <3>1 DEF RefOf
    <3>3. target[u] = u
      OBVIOUS
    <3> QED
      BY <1>2, <1>3, <2>1, <3>1, <3>2, <3>3 DEF LockDiscipline, Accepts
  <2>5. MatchedFile' /\ PointerIsTop' /\ WinnerIsNewer' /\ OneWinnerPerVersion'
    BY <2>2 DEF MatchedFile, PointerIsTop, WinnerIsNewer, OneWinnerPerVersion
  <2>6. NumberFresh' /\ CurrentIsNewest' /\ CurrentReadable'
    BY <1>3, <2>1 DEF NumberFresh, CurrentIsNewest, CurrentReadable, TopNumber, VersionsOf
  <2>7. OneActivePerName'
    BY <1>3, <1>5 DEF OneActivePerName, NameTaken
  <2>8. NoBytesWithoutRow' /\ BytesFirst'
    BY <1>2, <1>3, <2>2 DEF NoBytesWithoutRow, BytesFirst, TypeOK
  <2>9. PruneSafe' /\ GcSafe'
    BY DEF PruneSafe, GcSafe
  <2> QED
    BY <1>1, <2>3, <2>4, <2>5, <2>6, <2>7, <2>8, <2>9
<1> QED
  BY <1>4, <1>5

\* The lock that is taken was free, on an active row that the preconditions
\* accept at this moment.
LEMMA RecheckStep == ASSUME NEW u \in Uploads PROVE IInv /\ Recheck(u) => IInv'
<1> SUFFICES ASSUME IInv, Recheck(u) PROVE IInv'
  OBVIOUS
<1> USE DEF IInv, Recheck, tableVars, diskVars, dateVars, gcVars, pruneVars
<1>1. TypeOK'
  BY LookupAnswers DEF TypeOK, Steps, LockRow
<1>2. lock[u] = None /\ pc[u] \in {"stored", "waiting"}
  BY DEF LockDiscipline
<1>3. \A w \in Uploads : w # u => pc'[w] = pc[w] /\ lock'[w] = lock[w]
  BY DEF TypeOK, LockRow
<1>4. CASE pc'[u] \in {"refused", "failed"}
  <2>1. lock'[u] = None
    BY <1>2, <1>4 DEF TypeOK
  <2> QED
    BY <1>1, <1>2, <1>3, <1>4, <2>1, StageFrame DEF InFlight, Uncreated
<1>5. CASE pc'[u] \notin {"refused", "failed"}
  <2>1. PICK f \in Lookup(path[u]) :
          /\ f # None /\ ~LockedByOther(u, f) /\ AcceptsAgain(u, f)
          /\ pc' = [pc EXCEPT ![u] = "ready"]
          /\ lock' = LockRow(u, f)
    BY <1>5 DEF TypeOK
  <2>2. f \in Uploads /\ state[f] = "active"
    BY <2>1, LookupAnswers
  <2>3. pc'[u] = "ready" /\ lock'[u] = f
    BY <2>1 DEF TypeOK, LockRow
  <2>4. \A w \in Uploads : pc'[w] = "done" <=> pc[w] = "done"
    BY <1>2, <1>3, <2>3
  <2>5. Provenance'
    BY <1>2, <1>3, <2>3, <2>4, MarkerAssumption
       DEF Provenance, Uncreated, InFlight, TypeOK
  <2>6. LockDiscipline'
    <3>1. \A w \in Uploads \ {u} : lock[w] # f
      BY <2>1 DEF LockedByOther
    <3>2. Accepts(f, pre[u])
      BY <2>1 DEF AcceptsAgain
    <3> QED
      BY <1>3, <2>1, <2>2, <2>3, <3>1, <3>2 DEF LockDiscipline, Accepts, RefOf
  <2>7. MatchedFile' /\ PointerIsTop' /\ WinnerIsNewer' /\ OneWinnerPerVersion'
    BY <2>4 DEF MatchedFile, PointerIsTop, WinnerIsNewer, OneWinnerPerVersion
  <2>8. NumberFresh' /\ CurrentIsNewest' /\ CurrentReadable'
    BY <1>3, <2>3 DEF NumberFresh, CurrentIsNewest, CurrentReadable, TopNumber, VersionsOf
  <2>9. NoBytesWithoutRow' /\ BytesFirst' /\ OneActivePerName'
    BY <1>2, <1>3, <2>4 DEF NoBytesWithoutRow, BytesFirst, OneActivePerName, TypeOK
  <2>10. PruneSafe' /\ GcSafe'
    BY DEF PruneSafe, GcSafe
  <2> QED
    BY <1>1, <2>5, <2>6, <2>7, <2>8, <2>9, <2>10
<1> QED
  BY <1>4, <1>5

\* The number is the next one at this moment; nobody's version has it yet.
LEMMA NumberVersionStep == ASSUME NEW u \in Uploads PROVE IInv /\ NumberVersion(u) => IInv'
<1> SUFFICES ASSUME IInv, NumberVersion(u) PROVE IInv'
  OBVIOUS
<1> USE DEF IInv, NumberVersion, tableVars, diskVars, dateVars, gcVars, pruneVars
<1>1. NextVersionNumber(target[u]) = TopNumber(target[u]) + 1 /\ TopNumber(target[u]) \in Nat
  BY NextIsAfterTop DEF TypeOK
<1>2. TypeOK'
  BY <1>1 DEF TypeOK, Steps
<1>3. /\ pc[u] = "ready" /\ pc'[u] = "numbered"
      /\ number'[u] = TopNumber(target[u]) + 1
      /\ \A w \in Uploads : w # u => pc'[w] = pc[w] /\ number'[w] = number[w]
  BY <1>1 DEF TypeOK
<1>4. \A w \in Uploads : /\ pc'[w] = "done" <=> pc[w] = "done"
                         /\ pc[w] = "done" => number'[w] = number[w]
  BY <1>3
<1>5. \A f \in Uploads : /\ VersionsOf(f)' = VersionsOf(f)
                         /\ VersionsOf(f) \subseteq Uploads
                         /\ \A v \in VersionsOf(f) : number'[v] = number[v]
  BY <1>4 DEF VersionsOf, Provenance, TypeOK
<1>6. \A f \in Uploads : TopNumber(f)' = TopNumber(f)
  BY <1>5 DEF TopNumber, CurrentIsNewest
<1>7. Provenance'
  BY <1>3, <1>4, MarkerAssumption DEF Provenance, Uncreated, InFlight, TypeOK
<1>8. LockDiscipline'
  BY <1>3 DEF LockDiscipline, Accepts, RefOf, TypeOK
<1>9. MatchedFile' /\ OneWinnerPerVersion'
  BY <1>4 DEF MatchedFile, OneWinnerPerVersion
<1>10. WinnerIsNewer'
  BY <1>4 DEF WinnerIsNewer, MatchedFile
<1>11. PointerIsTop'
  <2>1. \A f \in Uploads : current[f] # None => number'[current[f]] = number[current[f]]
    BY <1>5 DEF CurrentIsNewest
  <2> QED
    BY <1>4, <2>1 DEF PointerIsTop, TypeOK
<1>12. NumberFresh'
  BY <1>3, <1>5, <1>6 DEF NumberFresh, TypeOK
<1>13. CurrentIsNewest' /\ CurrentReadable'
  BY <1>5 DEF CurrentIsNewest, CurrentReadable
<1>14. NoBytesWithoutRow' /\ BytesFirst' /\ OneActivePerName'
  BY <1>3, <1>4 DEF NoBytesWithoutRow, BytesFirst, OneActivePerName, TypeOK
<1>15. PruneSafe' /\ GcSafe'
  BY DEF PruneSafe, GcSafe
<1> QED
  BY <1>2, <1>7, <1>8, <1>9, <1>10, <1>11, <1>12, <1>13, <1>14, <1>15

\* What is known of an upload that makes its version current.
LEMMA AtCommit ==
    ASSUME IInv, NEW u \in Uploads, pc[u] = "numbered", ~InsertRefused(target[u], number[u])
    PROVE  /\ number[u] = TopNumber(target[u]) + 1
           /\ pre[u].ifMatch \in Uploads =>
                 /\ lock[u] = target[u]
                 /\ state[target[u]] = "active"
                 /\ current[target[u]] = pre[u].ifMatch
<1> USE DEF IInv
<1>1. number[u] = TopNumber(target[u]) + 1
  BY DEF NumberFresh, NumberTaken, InsertRefused
<1>2. ASSUME pre[u].ifMatch \in Uploads
      PROVE  /\ lock[u] = target[u]
             /\ state[target[u]] = "active"
             /\ current[target[u]] = pre[u].ifMatch
  <2>1. /\ target[u] # u /\ target[pre[u].ifMatch] = target[u]
        /\ pre[u].ifNoneMatch = None
    BY <1>2 DEF MatchedFile
  <2>2. lock[u] \in Uploads /\ Accepts(lock[u], pre[u]) /\ state[lock[u]] = "active"
    BY <2>1 DEF LockDiscipline, TypeOK
  <2>3. current[lock[u]] = pre[u].ifMatch
    BY <1>2, <2>1, <2>2, AcceptedMatch DEF TypeOK
  <2>4. target[pre[u].ifMatch] = lock[u]
    BY <1>2, <2>2, <2>3, MarkerAssumption DEF CurrentIsNewest, VersionsOf
  <2> QED
    BY <2>1, <2>2, <2>3, <2>4
<1> QED
  BY <1>1, <1>2

LEMMA CommitVersionStep == ASSUME NEW u \in Uploads PROVE IInv /\ CommitVersion(u) => IInv'
<1> SUFFICES ASSUME IInv, CommitVersion(u) PROVE IInv'
  OBVIOUS
<1> DEFINE f == target[u]
<1> USE DEF IInv, CommitVersion, diskVars, gcVars, pruneVars
<1>1. TypeOK'
  BY DEF TypeOK, Steps, Unlock
<1>2. f \in Uploads /\ pc[u] = "numbered" /\ lock'[u] = None
  BY DEF TypeOK, Unlock
<1>3. \A w \in Uploads : w # u => pc'[w] = pc[w] /\ lock'[w] = lock[w]
  BY DEF TypeOK, Unlock
<1>4. CASE InsertRefused(f, number[u])
  <2>1. pc'[u] = "failed" /\ UNCHANGED <<current, versions, recent>>
    BY <1>4 DEF TypeOK
  <2> QED
    BY <1>1, <1>2, <1>3, <2>1, StageFrame DEF InFlight, Uncreated, tableVars, dateVars
<1>5. CASE ~InsertRefused(f, number[u])
  <2>1. /\ pc'[u] = "done" /\ current'[f] = u /\ versions' = versions \cup {u}
        /\ \A g \in Uploads : g # f => current'[g] = current[g]
    BY <1>5 DEF TypeOK
  <2>2. /\ u \notin versions /\ u \notin old /\ u \notin gcTodo
        /\ u \notin pruneList /\ u # pruned
    BY <1>2, MarkerAssumption DEF Provenance
  <2>3. number[u] = TopNumber(f) + 1 /\ TopNumber(f) \in Nat
    BY <1>2, <1>5, AtCommit, NextIsAfterTop
  <2>4. \A w \in Uploads : pc[w] = "done" /\ target[w] = f => number[w] < number[u]
    BY <2>3 DEF PointerIsTop, TopNumber, TypeOK
  <2>5. /\ VersionsOf(f)' = VersionsOf(f) \cup {u}
        /\ \A g \in Uploads : g # f => VersionsOf(g)' = VersionsOf(g)
    BY <2>1 DEF VersionsOf
  <2>6. Provenance'
    BY <1>2, <1>3, <2>1, MarkerAssumption DEF Provenance, Uncreated, InFlight, TypeOK
  <2>7. LockDiscipline'
    <3>1. \A w \in Uploads \ {u} : lock[w] # f
      BY DEF LockedByOther
    <3>2. \A w \in Uploads : lock'[w] # None =>
            w # u /\ lock[w] \in Uploads \ {f} /\ RefOf(lock[w])' = RefOf(lock[w])
      BY <1>2, <1>3, <2>1, <3>1 DEF RefOf, TypeOK
    <3> QED
      BY <1>2, <1>3, <2>1, <3>2 DEF LockDiscipline, Accepts
  <2>8. MatchedFile'
    BY <1>3, <2>1 DEF MatchedFile
  <2>9. NumberFresh'
    <3> SUFFICES ASSUME NEW w \in Uploads, pc'[w] = "numbered"
                 PROVE  \/ number[w] = TopNumber(target[w])' + 1
                        \/ \E v \in VersionsOf(target[w])' : number[v] = number[w] /\ v \notin old
      BY DEF NumberFresh
    <3>1. w # u /\ pc[w] = "numbered" /\ target[w] \in Uploads
      BY <1>3, <2>1 DEF TypeOK
    <3>2. CASE target[w] # f
      BY <2>1, <2>5, <3>1, <3>2 DEF NumberFresh, TopNumber
    <3>3. CASE target[w] = f
      BY <2>2, <2>3, <2>5, <3>1, <3>3 DEF NumberFresh
    <3> QED
      BY <3>2, <3>3
  <2>10. PointerIsTop'
    BY <1>2, <1>3, <2>1, <2>4, MarkerAssumption DEF PointerIsTop, TypeOK
  <2>11. WinnerIsNewer'
    <3>1. pre[u].ifMatch \in Uploads => number[u] > number[pre[u].ifMatch]
      BY <2>4 DEF MatchedFile, TypeOK
    <3> QED
      BY <1>3, <3>1 DEF WinnerIsNewer
  <2>12. OneWinnerPerVersion'
    <3> SUFFICES ASSUME NEW w \in Uploads, w # u, pc[w] = "done",
                        pre[u].ifMatch \in Uploads, pre[w].ifMatch = pre[u].ifMatch
                 PROVE  FALSE
      BY <1>3 DEF OneWinnerPerVersion
    <3>1. current[f] = pre[w].ifMatch
      BY <1>2, <1>5, AtCommit
    <3>2. target[w] = f
      BY DEF MatchedFile
    <3>3. number[w] > number[current[f]] /\ number[w] <= number[current[f]]
      BY <3>1, <3>2 DEF WinnerIsNewer, PointerIsTop
    <3> QED
      BY <1>2, <3>1, <3>3 DEF TypeOK
  <2>13. CurrentIsNewest'
    <3>1. \A v \in VersionsOf(f) : number[v] < number[u]
      BY <2>4 DEF VersionsOf, Provenance, TypeOK
    <3> QED
      BY <1>2, <2>1, <2>5, <3>1, MarkerAssumption DEF CurrentIsNewest
  <2>14. CurrentReadable'
    BY <1>2, <2>1 DEF CurrentReadable, BytesFirst
  <2>15. NoBytesWithoutRow' /\ BytesFirst' /\ OneActivePerName'
    BY <1>3, <2>1 DEF NoBytesWithoutRow, BytesFirst, OneActivePerName, TypeOK
  <2>16. PruneSafe'
    BY <1>2, <2>1, <2>2, MarkerAssumption DEF PruneSafe, TypeOK
  <2>17. GcSafe'
    BY DEF GcSafe
  <2> QED
    BY <1>1, <2>6, <2>7, <2>8, <2>9, <2>10, <2>11, <2>12, <2>13, <2>14, <2>15, <2>16, <2>17
<1> QED
  BY <1>4, <1>5

\* The preconditions of a request are well formed, and name committed versions.
LEMMA UploadStart ==
    ASSUME NEW u \in Uploads
    PROVE  IInv /\ (Upload(u) \/ SaveAsCopy(u)) => IInv'
<1> SUFFICES ASSUME IInv, Upload(u) \/ SaveAsCopy(u) PROVE IInv'
  OBVIOUS
<1>1. CASE Upload(u)
  <2>1. PICK p \in Paths, q \in ClientPreconditions : Preflight(u, p, q)
    BY <1>1 DEF Upload
  <2>2. q \in Preconditions /\ (q.ifMatch \in Uploads => q.ifNoneMatch = None /\ pc[q.ifMatch] = "done")
    BY MarkerAssumption DEF ClientPreconditions, Preconditions
  <2> QED
    BY <2>1, <2>2, PreflightStep
<1>2. CASE SaveAsCopy(u)
  <2> DEFINE q == [ifMatch |-> None, ifNoneMatch |-> Star]
  <2>1. PICK f \in Uploads : state[f] # "absent" /\ Preflight(u, CopyOf[path[f]], q)
    BY <1>2 DEF SaveAsCopy
  <2>2. CopyOf[path[f]] \in Paths
    BY <2>1, PathAssumption DEF IInv, Provenance
  <2>3. q \in Preconditions /\ q.ifMatch \notin Uploads
    BY MarkerAssumption DEF Preconditions
  <2> QED
    BY <2>1, <2>2, <2>3, PreflightStep
<1> QED
  BY <1>1, <1>2

LEMMA StutterKeepsIInv == IInv /\ UNCHANGED vars => IInv'
<1> SUFFICES ASSUME IInv, UNCHANGED vars PROVE IInv'
  OBVIOUS
<1> USE DEF IInv, vars, uploadVars, tableVars, diskVars, dateVars, gcVars, pruneVars
<1>1. TablesInv'
  BY TablesFrame
<1>2. TypeOK' /\ Provenance' /\ BytesFirst'
  BY DEF TypeOK, Provenance, BytesFirst
<1>3. PruneSafe' /\ GcSafe' /\ CurrentReadable' /\ NoBytesWithoutRow'
  BY DEF PruneSafe, GcSafe, CurrentReadable, NoBytesWithoutRow
<1> QED
  BY <1>1, <1>2, <1>3 DEF TablesInv

\* Every step keeps the inductive invariant.
LEMMA StepKeepsIInv == IInv /\ [Next]_vars => IInv'
<1> SUFFICES ASSUME IInv, [Next]_vars PROVE IInv'
  OBVIOUS
<1>1. CASE UNCHANGED vars
  BY <1>1, StutterKeepsIInv
<1>2. ASSUME NEW u \in Uploads, UploadStep(u) PROVE IInv'
  BY <1>2, UploadStart, WriteTempStep, FinalizeStep, EnsureFileRowStep, WaitStep,
     RecheckStep, NumberVersionStep, CommitVersionStep, FailStep DEF UploadStep, Serve
<1>3. ASSUME NEW f \in Uploads, Delete(f) \/ Restore(f) \/ AgeTrash(f) \/ AgeVersion(f)
      PROVE  IInv'
  BY <1>3, DeleteStep, RestoreStep, AgeStep
<1>4. CASE GcStep
  BY <1>4, GcScanStep, GcListStep, GcRemoveStep, GcPurgeStep, GcFailStep DEF GcStep, GcRun
<1>5. CASE PruneStep
  BY <1>5, PruneScanStep, PruneRemoveStep, PruneDeleteStep, PruneFailStep DEF PruneStep, PruneRun
<1>6. CASE PoolUsedUp
  BY <1>6, StutterKeepsIInv DEF PoolUsedUp
<1> QED
  BY <1>1, <1>2, <1>3, <1>4, <1>5, <1>6 DEF Next
-----------------------------------------------------------------------------
(***************************************************************************)
(* The results.                                                            *)
(***************************************************************************)

\* The inductive invariant holds in every reachable state of the write side.
THEOREM Invariance == Spec => []IInv
<1>1. Init => IInv
  BY InitEstablishesIInv
<1>2. IInv /\ [Next]_vars => IInv'
  BY StepKeepsIInv
<1> QED
  BY <1>1, <1>2, PTL DEF Spec

\* Every variable keeps its type; version numbers are computed from rows that
\* other transactions add and prune deletes, and stay naturals.
THEOREM TypeCorrect == Spec => []TypeOK
<1>1. IInv => TypeOK
  BY DEF IInv
<1> QED
  BY <1>1, Invariance, PTL

\* However uploads, deletions and batches interleave, files.current_version_id
\* is the version of that file with the highest number (persistVersion,
\* NextVersionNumber, FindPrunable).
THEOREM PointerIsNewest == Spec => []CurrentIsNewest
<1>1. IInv => CurrentIsNewest
  BY DEF IInv
<1> QED
  BY <1>1, Invariance, PTL

\* A file no gc has begun to erase can be downloaded at its current version:
\* rename before COMMIT, and prune takes superseded versions only.
THEOREM CurrentCanBeRead == Spec => []CurrentReadable
<1>1. IInv => CurrentReadable
  BY DEF IInv
<1> QED
  BY <1>1, Invariance, PTL

\* ensureFileRow and Restore never make two active files of one name.
THEOREM NamesAreUnique == Spec => []OneActivePerName
<1>1. IInv => OneActivePerName
  BY DEF IInv
<1> QED
  BY <1>1, Invariance, PTL

\* Bytes whose upload was confirmed are never left behind without their row:
\* pruneOne removes them before the row.
THEOREM BytesHaveRows == Spec => []NoBytesWithoutRow
<1>1. IInv => NoBytesWithoutRow
  BY DEF IInv
<1> QED
  BY <1>1, Invariance, PTL

\* Of any number of uploads that send the same If-Match, one at most succeeds
\* (the second evaluateOCC in commitVersion, under FOR UPDATE).
THEOREM AtMostOneWinner == Spec => []OneWinnerPerVersion
<1>1. IInv => OneWinnerPerVersion
  BY DEF IInv
<1> QED
  BY <1>1, Invariance, PTL

\* What a step that commits knows: only CommitVersion does.
LEMMA OnlyCommitVersionCommits ==
    ASSUME TypeOK, [Next]_vars, NEW u \in Uploads, Commits(u)
    PROVE  CommitVersion(u)
<1> USE DEF TypeOK, Commits
<1>1. UNCHANGED pc => FALSE
  OBVIOUS
<1>2. ASSUME NEW w \in Uploads, UploadStep(w) PROVE CommitVersion(u)
  <2>1. CASE Upload(w) \/ SaveAsCopy(w)
    BY <2>1 DEF Upload, SaveAsCopy, Preflight
  <2>2. CASE WriteTemp(w) \/ Finalize(w) \/ EnsureFileRow(w) \/ Wait(w)
    BY <2>2 DEF WriteTemp, Finalize, EnsureFileRow, Wait
  <2>3. CASE Recheck(w)
    BY <2>3 DEF Recheck
  <2>4. CASE NumberVersion(w) \/ Fail(w)
    BY <2>4 DEF NumberVersion, Fail
  <2>5. CASE CommitVersion(w)
    <3>1. w # u => pc'[u] = pc[u]
      BY <2>5 DEF CommitVersion
    <3> QED
      BY <2>5, <3>1
  <2> QED
    BY <1>2, <2>1, <2>2, <2>3, <2>4, <2>5 DEF UploadStep, Serve
<1>3. ASSUME NEW f \in Uploads, Delete(f) \/ Restore(f) \/ AgeTrash(f) \/ AgeVersion(f)
      PROVE  UNCHANGED pc
  BY <1>3 DEF Delete, Restore, AgeTrash, AgeVersion, uploadVars
<1>4. GcStep => UNCHANGED pc
  BY DEF GcStep, GcRun, GcScan, GcList, GcRemove, GcPurge, GcFail, uploadVars
<1>5. PruneStep => UNCHANGED pc
  BY DEF PruneStep, PruneRun, PruneScan, PruneRemove, PruneDelete, PruneFail, uploadVars
<1>6. PoolUsedUp \/ UNCHANGED vars => UNCHANGED pc
  BY DEF PoolUsedUp, vars, uploadVars
<1> QED
  BY <1>1, <1>2, <1>3, <1>4, <1>5, <1>6 DEF Next

\* The headline of optimistic concurrency, for any number of devices: an upload
\* with If-Match: v that succeeds replaces v, in a file in use, although v was
\* compared two round trips before the COMMIT.
THEOREM NoLostUpdate == Spec => IfMatchReplacesThatVersion
<1>1. ASSUME IInv, [Next]_vars, NEW u \in Uploads, Commits(u), pre[u].ifMatch \in Uploads
      PROVE  state[target[u]] = "active" /\ current[target[u]] = pre[u].ifMatch
  <2>1. CommitVersion(u)
    BY <1>1, OnlyCommitVersionCommits DEF IInv
  <2>2. ~InsertRefused(target[u], number[u])
    BY <1>1, <2>1 DEF CommitVersion, Commits, IInv, TypeOK
  <2> QED
    BY <1>1, <2>1, <2>2, AtCommit DEF CommitVersion
<1>2. IInv /\ [Next]_vars =>
        [\A u \in Uploads :
            Commits(u) /\ pre[u].ifMatch \in Uploads =>
                /\ state[target[u]] = "active"
                /\ current[target[u]] = pre[u].ifMatch]_vars
  BY <1>1
<1> QED
  BY <1>2, Invariance, PTL DEF Spec, IfMatchReplacesThatVersion

LEMMA OnlyCommitVersionMovesPointers ==
    ASSUME [Next]_vars, current' # current
    PROVE  \E u \in Uploads : CommitVersion(u)
<1>1. ASSUME NEW w \in Uploads, UploadStep(w) PROVE CommitVersion(w)
  BY <1>1 DEF UploadStep, Serve, Upload, SaveAsCopy, Preflight, WriteTemp, Finalize, EnsureFileRow,
     Wait, Recheck, NumberVersion, Fail, tableVars
<1>2. ASSUME NEW f \in Uploads, Delete(f) \/ Restore(f) \/ AgeTrash(f) \/ AgeVersion(f)
      PROVE  UNCHANGED current
  BY <1>2 DEF Delete, Restore, AgeTrash, AgeVersion, tableVars
<1>3. GcStep => UNCHANGED current
  BY DEF GcStep, GcRun, GcScan, GcList, GcRemove, GcPurge, GcFail, tableVars
<1>4. PruneStep => UNCHANGED current
  BY DEF PruneStep, PruneRun, PruneScan, PruneRemove, PruneDelete, PruneFail, tableVars
<1>5. PoolUsedUp \/ UNCHANGED vars => UNCHANGED current
  BY DEF PoolUsedUp, vars, tableVars
<1> QED
  BY <1>1, <1>2, <1>3, <1>4, <1>5 DEF Next

\* A reader who polls a file never sees its version number fall, nor the file
\* lose its version: whatever rows prune deletes, the next number is above them.
THEOREM PointersAdvance == Spec => CurrentOnlyAdvances
<1>1. ASSUME IInv, [Next]_vars, NEW f \in Uploads, current'[f] # current[f]
      PROVE  /\ current'[f] # None
             /\ current[f] # None => number'[current'[f]] > number[current[f]]
  <2>1. PICK u \in Uploads : CommitVersion(u)
    BY <1>1, OnlyCommitVersionMovesPointers
  <2>2. /\ ~InsertRefused(target[u], number[u])
        /\ current' = [current EXCEPT ![target[u]] = u]
        /\ pc[u] = "numbered" /\ number' = number
    BY <1>1, <2>1 DEF CommitVersion
  <2>3. f = target[u] /\ current'[f] = u
    BY <1>1, <2>2 DEF IInv, TypeOK
  <2>4. number[u] = TopNumber(f) + 1
    BY <1>1, <2>2, <2>3, AtCommit
  <2>5. TopNumber(f) \in Nat
    BY <1>1, NextIsAfterTop DEF IInv
  <2> QED
    BY <2>2, <2>3, <2>4, <2>5, MarkerAssumption DEF TopNumber
<1>2. IInv /\ [Next]_vars =>
        [\A f \in Uploads :
            current'[f] # current[f] =>
                /\ current'[f] # None
                /\ current[f] # None => number'[current'[f]] > number[current[f]]]_vars
  BY <1>1
<1> QED
  BY <1>2, Invariance, PTL DEF Spec, CurrentOnlyAdvances
-----------------------------------------------------------------------------
(***************************************************************************)
(* The row that is locked and the row that is written.                     *)
(***************************************************************************)

\* The file an upload found before its body, and the one it has locked since, were
\* looked up by the hash of its path, and are files of uploads that have begun.
FoundByHash ==
    \A u \in Uploads :
        /\ target[u] # u => pc[target[u]] # "idle" /\ HashOf[path[target[u]]] = HashOf[path[u]]
        /\ lock[u] # None => pc[lock[u]] # "idle" /\ HashOf[path[lock[u]]] = HashOf[path[u]]

LEMMA InitFound == Init => FoundByHash
<1> SUFFICES ASSUME Init PROVE FoundByHash
  OBVIOUS
<1>1. \A u \in Uploads : target[u] = u /\ lock[u] = None
  BY DEF Init
<1> QED
  BY <1>1 DEF FoundByHash

LEMMA FoundByHashStep ==
    ASSUME TypeOK, Provenance, LockDiscipline, FoundByHash, [Next]_vars
    PROVE  FoundByHash'
<1> USE DEF TypeOK
<1> DEFINE Kept == /\ UNCHANGED <<path, target>>
                   /\ \A v \in Uploads : pc[v] # "idle" => pc'[v] # "idle"
<1>1. Kept /\ UNCHANGED lock => FoundByHash'
  BY DEF FoundByHash
<1>2. UNCHANGED uploadVars => FoundByHash'
  BY <1>1 DEF uploadVars
<1>3. ASSUME NEW u \in Uploads, UploadStep(u) PROVE FoundByHash'
  <2>1. ASSUME NEW p, NEW q, Preflight(u, p, q) PROVE FoundByHash'
    <3>1. /\ pc[u] = "idle" /\ lock[u] = None /\ lock' = lock
          /\ \A v \in Uploads : pc[v] # "idle" => pc'[v] # "idle" /\ path'[v] = path[v]
          /\ \A v \in Uploads \ {u} : target'[v] = target[v] /\ path'[v] = path[v]
      BY <2>1, MarkerAssumption DEF Preflight, LockDiscipline
    <3>2. target'[u] # u =>
             \/ target'[u] = target[u] /\ path'[u] = path[u]
             \/ target'[u] \in ActiveAt(p) /\ path'[u] = p
      BY <2>1 DEF Preflight, Lookup
    <3>3. \A f \in ActiveAt(p) : pc[f] # "idle" /\ HashOf[path[f]] = HashOf[p]
      BY DEF ActiveAt, Provenance, Uncreated
    <3>4. target'[u] # u =>
             pc'[target'[u]] # "idle" /\ HashOf[path'[target'[u]]] = HashOf[path'[u]]
      BY <3>1, <3>2, <3>3 DEF FoundByHash, ActiveAt
    <3> QED
      BY <3>1, <3>4 DEF FoundByHash
  <2>2. CASE Recheck(u)
    <3>1. Kept
      BY <2>2 DEF Recheck
    <3>2. PICK f \in Lookup(path[u]) :
             UNCHANGED lock \/ (f # None /\ lock' = [lock EXCEPT ![u] = f])
      BY <2>2 DEF Recheck, LockRow
    <3>3. f # None => f \in Uploads /\ pc[f] # "idle" /\ HashOf[path[f]] = HashOf[path[u]]
      BY DEF Lookup, ActiveAt, Provenance, Uncreated
    <3> QED
      BY <3>1, <3>2, <3>3 DEF FoundByHash
  <2>3. CASE CommitVersion(u) \/ Fail(u)
    <3>1. Kept /\ lock' = [lock EXCEPT ![u] = None]
      BY <2>3 DEF CommitVersion, Fail, Unlock
    <3> QED
      BY <3>1 DEF FoundByHash
  <2>4. CASE WriteTemp(u) \/ Finalize(u) \/ EnsureFileRow(u) \/ Wait(u) \/ NumberVersion(u)
    BY <1>1, <2>4 DEF WriteTemp, Finalize, EnsureFileRow, Wait, NumberVersion
  <2> QED
    BY <1>3, <2>1, <2>2, <2>3, <2>4 DEF UploadStep, Upload, SaveAsCopy, Serve
<1>4. ASSUME NEW f \in Uploads, Delete(f) \/ Restore(f) \/ AgeTrash(f) \/ AgeVersion(f)
      PROVE  FoundByHash'
  BY <1>2, <1>4 DEF Delete, Restore, AgeTrash, AgeVersion
<1>5. GcStep => FoundByHash'
  BY <1>2 DEF GcStep, GcRun, GcScan, GcList, GcRemove, GcPurge, GcFail
<1>6. PruneStep => FoundByHash'
  BY <1>2 DEF PruneStep, PruneRun, PruneScan, PruneRemove, PruneDelete, PruneFail
<1>7. PoolUsedUp \/ UNCHANGED vars => FoundByHash'
  BY <1>2 DEF PoolUsedUp, vars
<1> QED
  BY <1>3, <1>4, <1>5, <1>6, <1>7 DEF Next

\* Two files in use that one hash leads to are one file or two spellings.
LEMMA FoundApart ==
    ASSUME TypeOK, LockDiscipline, OneActivePerName, FoundByHash
    PROVE  LocksItsTarget
<1> SUFFICES ASSUME NEW u \in Uploads, lock[u] # None, state[target[u]] = "active",
                    lock[u] # target[u]
             PROVE  SpelledApart(lock[u], target[u])
  BY DEF LocksItsTarget
<1>1. lock[u] \in Uploads /\ target[u] \in Uploads /\ state[lock[u]] = "active"
  BY DEF TypeOK, LockDiscipline
<1>2. HashOf[path[lock[u]]] = HashOf[path[target[u]]]
  BY DEF FoundByHash
<1>3. NameOf[path[lock[u]]] # NameOf[path[target[u]]]
  BY <1>1 DEF OneActivePerName
<1> QED
  BY <1>2, <1>3 DEF SpelledApart

\* The lock commitVersion takes on the file at the path protects the file that
\* persistVersion writes to, as long as that one is in use, although they were
\* looked up at two times.
THEOREM LocksWhatItWrites == Spec => []LocksItsTarget
<1>1. Init => FoundByHash
  BY InitFound
<1>2. IInv /\ FoundByHash /\ [Next]_vars => FoundByHash'
  BY FoundByHashStep DEF IInv
<1>3. IInv /\ FoundByHash => LocksItsTarget
  BY FoundApart DEF IInv
<1> QED
  BY <1>1, <1>2, <1>3, Invariance, PTL DEF Spec

\* A transaction that holds a row never waits for another row, unless a path is
\* spelled in two ways, although it locks one and the foreign key makes it wait for
\* another (persistVersion).
HoldersNeverWait ==
    \A u \in Uploads :
        lock[u] # None /\ LockedByOther(u, target[u]) => SpelledApart(lock[u], target[u])

\* A row that is locked is active, and so LocksItsTarget speaks of it.
LEMMA LockedIsInUse ==
    ASSUME TypeOK, LockDiscipline, LocksItsTarget
    PROVE  HoldersNeverWait
<1> SUFFICES ASSUME NEW u \in Uploads, lock[u] # None, LockedByOther(u, target[u])
             PROVE  SpelledApart(lock[u], target[u])
  BY DEF HoldersNeverWait
<1>1. PICK w \in Uploads \ {u} : lock[w] = target[u]
  BY DEF LockedByOther
<1>2. target[u] # None /\ state[target[u]] = "active" /\ lock[u] # target[u]
  BY <1>1, MarkerAssumption DEF TypeOK, LockDiscipline
<1> QED
  BY <1>2 DEF LocksItsTarget

\* Uploads never wait for each other's rows in a circle: who holds a row waits for
\* none, although each locks one row and inserts under another (persistVersion).
THEOREM NoCircularWait == Spec => []HoldersNeverWait
<1>1. IInv /\ LocksItsTarget => HoldersNeverWait
  BY LockedIsInUse DEF IInv
<1> QED
  BY <1>1, Invariance, LocksWhatItWrites, PTL

\* The evaluation of the rule under the lock still holds when the transaction
\* commits: the lock is on the file it writes to, and the creator of that file
\* waits for it too.
LEMMA AcceptedAtCommit ==
    ASSUME TypeOK, LockDiscipline, LocksItsTarget, NEW u \in Uploads,
           pc[u] = "numbered", target[u] # u, state[target[u]] = "active"
    PROVE  Accepts(target[u], pre[u]) \/ SpelledApart(lock[u], target[u])
<1>1. lock[u] # None /\ Accepts(lock[u], pre[u])
  BY DEF LockDiscipline
<1>2. lock[u] = target[u] \/ SpelledApart(lock[u], target[u])
  BY <1>1 DEF LocksItsTarget
<1> QED
  BY <1>1, <1>2, Zenon

\* The OCC rule holds of the file that is written when the version becomes
\* current, not only when commitVersion evaluated it.
THEOREM OverwritesAsAsked == Spec => PreconditionsHoldAtCommit
<1>1. ASSUME IInv, LocksItsTarget, NEW u \in Uploads, Commits(u), target[u] # u,
             state[target[u]] = "active"
      PROVE  Accepts(target[u], pre[u]) \/ SpelledApart(lock[u], target[u])
  BY <1>1, AcceptedAtCommit DEF IInv, Commits
<1>2. IInv /\ LocksItsTarget =>
        [\A u \in Uploads :
            Commits(u) /\ target[u] # u /\ state[target[u]] = "active" =>
                Accepts(target[u], pre[u]) \/ SpelledApart(lock[u], target[u])]_vars
  BY <1>1
<1> QED
  BY <1>2, Invariance, LocksWhatItWrites, PTL DEF Spec, PreconditionsHoldAtCommit
=============================================================================
