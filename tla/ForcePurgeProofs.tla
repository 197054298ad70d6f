-------------------------- MODULE ForcePurgeProofs --------------------------
(***************************************************************************)
(* Proofs about ForcePurge: what the write side keeps, for any number of   *)
(* uploads, paths and faults, while an administrator erases files.         *)
(*                                                                         *)
(* The invariant of FileStoreProofs does not survive the command: a file   *)
(* under erasure has a pointer without a row, and its numbers fall.  What  *)
(* rests on locks and preconditions holds for every file all the same;     *)
(* what rests on numbers and rows, for the files no command was started    *)
(* for.                                                                    *)
(***************************************************************************)
EXTENDS ForcePurge, FileStoreProofs, FiniteSetTheorems

-----------------------------------------------------------------------------
(***************************************************************************)
(* The inductive invariant.                                                *)
(***************************************************************************)

\* The command works on committed versions of one file whose row was there
\* when it began, so that no upload is still to create it.
CommandSafe ==
    /\ victim # None => victim \in hit
    /\ victim = None => listed = {} /\ taken = None
    /\ \A v \in listed : pc[v] = "done" /\ target[v] = victim
    /\ taken # None => pc[taken] = "done" /\ target[taken] = victim
    /\ \A f \in hit : pc[f] \notin Uncreated

\* The numbers of the rows have an upper bound, so that MAX has a value even
\* when the row of the highest number is gone.
NumbersBounded == \E b \in Nat : \A v \in versions : number[v] <= b

\* A pointer, with or without its row, is a committed version of that file.
PointerCommitted ==
    \A f \in Uploads : current[f] # None => pc[current[f]] = "done" /\ target[current[f]] = f

\* Once an upload with If-Match: v succeeded, v is not the pointer again.
WinnersMoveOn ==
    \A u \in Uploads :
        pc[u] = "done" /\ pre[u].ifMatch \in Uploads => current[target[u]] # pre[u].ifMatch

\* The versions prune has on its list, or half erased, are superseded; the command
\* may have taken their rows meanwhile.
PruneSpares ==
    /\ \A v \in pruneList :
          v # pruned /\ current[target[v]] # v /\ (target[v] \notin hit => v \in old)
    /\ pruned # None =>
          /\ pruned \notin store /\ current[target[pruned]] # pruned
          /\ target[pruned] \notin hit => pruned \in old

\* CurrentIsNewest, NumberFresh and PointerIsTop of the files no command was
\* started for.
OthersNewest ==
    \A f \in Uploads \ hit :
        IF current[f] = None THEN VersionsOf(f) = {}
        ELSE /\ current[f] \in VersionsOf(f)
             /\ \A v \in VersionsOf(f) : v # current[f] => number[v] < number[current[f]]

OthersNumbered ==
    \A u \in Uploads :
        pc[u] = "numbered" /\ target[u] \notin hit =>
            \/ number[u] = TopNumber(target[u]) + 1
            \/ \E v \in VersionsOf(target[u]) : number[v] = number[u] /\ v \notin old

OthersTop ==
    \A u \in Uploads :
        pc[u] = "done" /\ target[u] \notin hit =>
            /\ current[target[u]] # None
            /\ number[u] <= number[current[target[u]]]

\* CurrentReadable, of the files no command was started for.
OthersReadable ==
    \A f \in Uploads \ hit : current[f] # None => current[f] \in store \cup claimed

\* What holds of uploads and tables; the rest speaks of the disk and the batches too.
PurgeTablesInv ==
    /\ LockDiscipline
    /\ MatchedFile
    /\ NumbersBounded
    /\ PointerCommitted
    /\ WinnersMoveOn
    /\ OneWinnerPerVersion
    /\ OneActivePerName
    /\ GoneForGood
    /\ OthersNewest
    /\ OthersNumbered
    /\ OthersTop

PInv ==
    /\ PurgeTypeOK
    /\ Provenance
    /\ CommandSafe
    /\ PurgeTablesInv
    /\ PruneSpares
    /\ GcSafe
    /\ BytesFirst
    /\ OthersReadable
    /\ BytesOnlyUnderGone
-----------------------------------------------------------------------------
(***************************************************************************)
(* What the operators return.                                              *)
(***************************************************************************)

\* MAX over a bounded set of naturals that is not empty exists.
LEMMA BoundedSetHasMax ==
    ASSUME NEW S, S \subseteq Nat, S # {}, NEW b \in Nat, \A n \in S : n <= b
    PROVE  \E m \in S : \A n \in S : n <= m
<1> DEFINE Above(n) == (n + 1)..b
           T == {Above(n) : n \in S}
           Inside == StrictSubsetOrdering(0..b)
<1>1. IsWellFoundedOn(Inside, SUBSET (0..b))
  <2>1. IsFiniteSet(0..b)
    BY FS_Interval
  <2> QED
    BY <2>1, FS_FiniteSubsetsOfFinite, FS_StrictSubsetOrderingWellFounded
<1>2. T \subseteq SUBSET (0..b) /\ T # {}
  <2>1. \A n \in S : Above(n) \in SUBSET (0..b)
    OBVIOUS
  <2> HIDE DEF Above
  <2> QED
    BY <2>1
<1>3. \E x \in T : \A y \in T : ~(<<y, x>> \in Inside)
  <2> HIDE DEF T, Inside
  <2> QED
    BY <1>1, <1>2, WFMin
<1>4. PICK m \in S : \A n \in S : ~(<<Above(n), Above(m)>> \in Inside)
  BY <1>3
<1>5. ASSUME NEW n \in S, m < n PROVE FALSE
  <2>1. Above(n) \subseteq Above(m) /\ n \in Above(m) /\ n \notin Above(n)
    BY <1>5
  <2>2. Above(n) # Above(m)
    BY <2>1
  <2>3. Above(n) \in SUBSET (0..b) /\ Above(m) \in SUBSET (0..b)
    OBVIOUS
  <2> HIDE DEF Above
  <2> QED
    BY <1>4, <2>1, <2>2, <2>3 DEF StrictSubsetOrdering
<1> QED
  BY <1>5

\* COALESCE(MAX(version_number), 0) + 1 is above every number of the file,
\* whatever rows were deleted.
LEMMA NextIsAboveAll ==
    ASSUME TypeOK, NumbersBounded, NEW f \in Uploads
    PROVE  NextVersionNumber(f) \in Nat /\ \A v \in VersionsOf(f) : number[v] < NextVersionNumber(f)
<1>1. CASE VersionsOf(f) = {}
  BY <1>1 DEF NextVersionNumber
<1>2. CASE VersionsOf(f) # {}
  <2> DEFINE numbers == {number[v] : v \in VersionsOf(f)}
             IsMax(n) == \A w \in VersionsOf(f) : number[w] <= n
  <2>1. PICK b \in Nat : \A n \in numbers : n <= b
    <3>1. PICK b \in Nat : \A v \in versions : number[v] <= b
      BY DEF NumbersBounded
    <3>2. \A n \in numbers : n <= b
      BY <3>1 DEF VersionsOf
    <3> HIDE DEF numbers
    <3> QED
      BY <3>2
  <2>2. numbers \subseteq Nat /\ numbers # {}
    BY <1>2 DEF TypeOK, VersionsOf
  <2>3. \E m \in numbers : \A n \in numbers : n <= m
    <3> HIDE DEF numbers
    <3> QED
      BY <2>1, <2>2, BoundedSetHasMax
  <2>4. \E m \in numbers : IsMax(m)
    BY <2>3
  <2> DEFINE top == CHOOSE n \in numbers : IsMax(n)
  <2>5. top \in numbers /\ IsMax(top)
    BY <2>4, Zenon
  <2>6. NextVersionNumber(f) = 1 + top
    BY <1>2, Zenon DEF NextVersionNumber
  <2> HIDE DEF top
  <2>7. \A v \in VersionsOf(f) : number[v] \in Nat
    BY DEF TypeOK, VersionsOf
  <2> QED
    BY <2>2, <2>5, <2>6, <2>7
<1> QED
  BY <1>1, <1>2

\* Of a file no command was started for, it is one more than the number the pointer
\* stands at.
LEMMA NextOfOthers ==
    ASSUME TypeOK, OthersNewest, NEW f \in Uploads \ hit
    PROVE  NextVersionNumber(f) = TopNumber(f) + 1 /\ TopNumber(f) \in Nat
<1>1. CASE current[f] = None
  BY <1>1 DEF OthersNewest, NextVersionNumber, TopNumber
<1>2. CASE current[f] # None
  BY <1>2, NextAfterHighest DEF OthersNewest, TopNumber
<1> QED
  BY <1>1, <1>2
-----------------------------------------------------------------------------
(***************************************************************************)
(* The steps, by what they disturb.                                        *)
(***************************************************************************)

LEMMA InitEstablishesPInv == Init /\ PurgeInit => PInv
<1> SUFFICES ASSUME Init, PurgeInit PROVE PInv
  OBVIOUS
<1> USE DEF Init, PurgeInit
<1>1. PurgeTypeOK
  BY FaultAssumption DEF PurgeTypeOK, TypeOK, Steps, FileStates, Preconditions
<1>2. Provenance /\ CommandSafe /\ PruneSpares /\ GcSafe /\ BytesFirst
  BY MarkerAssumption
     DEF Provenance, CommandSafe, PruneSpares, GcSafe, BytesFirst, Uncreated, InFlight
<1>3. LockDiscipline /\ MatchedFile /\ WinnersMoveOn /\ OneWinnerPerVersion /\ OneActivePerName
  BY MarkerAssumption
     DEF LockDiscipline, MatchedFile, WinnersMoveOn, OneWinnerPerVersion, OneActivePerName
<1>4. NumbersBounded
  <2>1. 0 \in Nat
    OBVIOUS
  <2> QED
    BY <2>1 DEF NumbersBounded
<1>5. PointerCommitted /\ GoneForGood /\ OthersNewest /\ OthersNumbered /\ OthersTop
  BY DEF PointerCommitted, GoneForGood, OthersNewest, OthersNumbered, OthersTop, VersionsOf
<1>6. OthersReadable /\ BytesOnlyUnderGone
  BY DEF OthersReadable, BytesOnlyUnderGone
<1> QED
  BY <1>1, <1>2, <1>3, <1>4, <1>5, <1>6 DEF PInv, PurgeTablesInv

\* A step of the batches, the calendar or the command that leaves uploads and tables
\* alone: it takes bytes of files that are being erased, or of superseded versions.
LEMMA BatchFrame ==
    ASSUME PInv,
           UNCHANGED <<uploadVars, tableVars, gone>>,
           PurgeTypeOK', CommandSafe', GcSafe', PruneSpares',
           (\A u \in Uploads : pc[u] # "numbered") \/ old' = old,
           old' \subseteq old \cup versions,
           gcTodo' \subseteq gcTodo \cup versions,
           pruneList' \subseteq pruneList \cup versions,
           pruned' # None => pc[pruned'] = "done",
           hit \subseteq hit', claimed \subseteq claimed',
           store' \subseteq store,
           \A v \in store \ store' :
              /\ pc[v] = "done"
              /\ target[v] \in hit' \/ v \in claimed' \/ current[target[v]] # v
    PROVE  PInv'
<1> USE DEF PInv, PurgeTablesInv, uploadVars, tableVars
<1>1. LockDiscipline' /\ MatchedFile' /\ WinnersMoveOn'
  BY DEF LockDiscipline, MatchedFile, WinnersMoveOn, Accepts, RefOf
<1>2. OneWinnerPerVersion' /\ OneActivePerName' /\ NumbersBounded' /\ PointerCommitted'
  BY DEF OneWinnerPerVersion, OneActivePerName, NumbersBounded, PointerCommitted
<1>3. GoneForGood' /\ OthersTop'
  BY DEF GoneForGood, OthersTop, VersionsOf
<1>4. OthersNewest' /\ OthersNumbered'
  BY DEF OthersNewest, OthersNumbered, TopNumber, VersionsOf
<1>5. Provenance'
  BY DEF Provenance, TypeOK, PurgeTypeOK
<1>6. BytesFirst'
  BY DEF BytesFirst
<1>7. OthersReadable'
  BY DEF OthersReadable, PointerCommitted
<1>8. BytesOnlyUnderGone'
  BY DEF BytesOnlyUnderGone
<1> QED
  BY <1>1, <1>2, <1>3, <1>4, <1>5, <1>6, <1>7, <1>8

\* A row of files that nobody has locked changes its state, and stays.
LEMMA StateFrame ==
    ASSUME PInv, NEW g \in Uploads, NEW s \in {"active", "trashed", "purged"},
           state[g] # "absent", ~Locked(g),
           s = "active" => ~NameTaken(path[g]),
           state' = [state EXCEPT ![g] = s],
           UNCHANGED <<uploadVars, current, versions, diskVars, old, gcTodo, claimed, pruneVars,
                       purgeVars>>,
           TypeOK', GcSafe'
    PROVE  PInv'
<1> USE DEF PInv, PurgeTablesInv, PurgeTypeOK, uploadVars, diskVars, pruneVars, purgeVars
<1>1. state'[g] = s /\ \A f \in Uploads : f # g => state'[f] = state[f]
  BY DEF TypeOK
<1>2. PurgeTypeOK' /\ CommandSafe' /\ PruneSpares' /\ BytesFirst'
  BY DEF CommandSafe, PruneSpares, BytesFirst
<1>3. Provenance'
  BY <1>1 DEF Provenance
<1>4. LockDiscipline'
  <2>1. \A u \in Uploads : lock[u] # None => lock[u] \in Uploads /\ lock[u] # g
    BY DEF Locked, TypeOK
  <2>2. \A u \in Uploads : lock[u] # None => RefOf(lock[u])' = RefOf(lock[u])
    BY <1>1, <2>1 DEF RefOf
  <2> QED
    BY <1>1, <2>1, <2>2 DEF LockDiscipline, Accepts
<1>5. MatchedFile' /\ WinnersMoveOn' /\ OneWinnerPerVersion'
  BY DEF MatchedFile, WinnersMoveOn, OneWinnerPerVersion
<1>6. OneActivePerName'
  BY <1>1 DEF OneActivePerName, NameTaken
<1>7. NumbersBounded' /\ PointerCommitted' /\ OthersTop'
  BY DEF NumbersBounded, PointerCommitted, OthersTop
<1>8. GoneForGood'
  BY <1>1 DEF GoneForGood, VersionsOf
<1>9. OthersNewest' /\ OthersNumbered'
  BY DEF OthersNewest, OthersNumbered, TopNumber, VersionsOf
<1>10. OthersReadable' /\ BytesOnlyUnderGone'
  BY DEF OthersReadable, BytesOnlyUnderGone, VersionsOf
<1> QED
  BY <1>2, <1>3, <1>4, <1>5, <1>6, <1>7, <1>8, <1>9, <1>10

\* The row of a version goes: one of a file under erasure, or a superseded one that
\* is old and has no bytes any more.
LEMMA RowFrame ==
    ASSUME PInv, NEW v \in Uploads,
           \/ target[v] \in hit
           \/ v \in old /\ current[target[v]] # v /\ v \notin store,
           versions' = versions \ {v}, old' = old \ {v},
           UNCHANGED <<uploadVars, state, current, diskVars, gcVars, hit, gone>>,
           PurgeTypeOK', CommandSafe', PruneSpares',
           pruneList' = pruneList, pruned' \in {pruned, None}
    PROVE  PInv'
<1> USE DEF PInv, PurgeTablesInv, uploadVars, diskVars, gcVars
<1>1. \A f \in Uploads : /\ VersionsOf(f)' = VersionsOf(f) \ {v}
                         /\ f # target[v] => VersionsOf(f)' = VersionsOf(f)
  BY DEF VersionsOf
<1>2. Provenance' /\ GcSafe' /\ BytesFirst'
  BY MarkerAssumption DEF Provenance, GcSafe, BytesFirst
<1>3. LockDiscipline' /\ MatchedFile' /\ WinnersMoveOn'
  BY DEF LockDiscipline, MatchedFile, WinnersMoveOn, Accepts, RefOf
<1>4. OneWinnerPerVersion' /\ OneActivePerName' /\ PointerCommitted'
  BY DEF OneWinnerPerVersion, OneActivePerName, PointerCommitted
<1>5. NumbersBounded'
  BY DEF NumbersBounded
<1>6. GoneForGood' /\ OthersTop'
  BY <1>1 DEF GoneForGood, OthersTop, PurgeTypeOK
<1>7. \A f \in Uploads \ hit : current[f] # None => current[f] # v
  BY DEF PointerCommitted
<1>8. OthersNewest'
  BY <1>1, <1>7 DEF OthersNewest
<1>9. OthersNumbered'
  <2> SUFFICES ASSUME NEW w \in Uploads, pc[w] = "numbered", target[w] \notin hit
               PROVE  \/ number[w] = TopNumber(target[w])' + 1
                      \/ \E x \in VersionsOf(target[w])' : number[x] = number[w] /\ x \notin old'
    BY DEF OthersNumbered
  <2>1. target[w] \in Uploads
    BY DEF PurgeTypeOK, TypeOK
  <2>2. TopNumber(target[w])' = TopNumber(target[w])
    BY DEF TopNumber
  <2>3. ASSUME NEW x \in VersionsOf(target[w]), x \notin old
        PROVE  x \in VersionsOf(target[w])' /\ x \notin old'
    BY <1>1, <2>1, <2>3 DEF VersionsOf
  <2> QED
    BY <2>2, <2>3 DEF OthersNumbered
<1>10. OthersReadable'
  BY <1>1, <1>7 DEF OthersReadable
<1>11. BytesOnlyUnderGone'
  BY DEF BytesOnlyUnderGone
<1> QED
  BY <1>2, <1>3, <1>4, <1>5, <1>6, <1>8, <1>9, <1>10, <1>11
-----------------------------------------------------------------------------
(***************************************************************************)
(* The command.                                                            *)
(***************************************************************************)

LEMMA PurgeListStep == ASSUME NEW f \in Uploads PROVE PInv /\ PurgeList(f) => PInv'
<1> SUFFICES ASSUME PInv, PurgeList(f) PROVE PInv'
  OBVIOUS
<1> USE DEF PInv, PurgeList, vars, uploadVars, tableVars, diskVars, dateVars, gcVars, pruneVars,
            VersionsOf
<1>0. listed' \subseteq VersionsOf(f)
  BY ListsOwnVersions
<1>1. PurgeTypeOK'
  BY <1>0 DEF PurgeTypeOK, TypeOK
<1>2. CommandSafe'
  BY <1>0, MarkerAssumption DEF CommandSafe, Provenance, PurgeTypeOK, TypeOK
<1>3. GcSafe' /\ PruneSpares'
  BY DEF GcSafe, PruneSpares
<1>4. pruned' # None => pc[pruned'] = "done"
  BY DEF Provenance
<1> QED
  BY <1>1, <1>2, <1>3, <1>4, BatchFrame

LEMMA PurgeRemoveStep == ASSUME NEW v \in Uploads PROVE PInv /\ PurgeRemove(v) => PInv'
<1> SUFFICES ASSUME PInv, PurgeRemove(v) PROVE PInv'
  OBVIOUS
<1> USE DEF PInv, PurgeRemove, Removed, uploadVars, tableVars, dateVars, gcVars, pruneVars
<1>1. PurgeTypeOK'
  BY FaultAssumption DEF PurgeTypeOK, TypeOK
<1>2. CommandSafe'
  BY MarkerAssumption DEF CommandSafe
<1>3. GcSafe' /\ PruneSpares'
  BY DEF GcSafe, PruneSpares
<1>4. pc[v] = "done" /\ target[v] \in hit /\ (pruned' # None => pc[pruned'] = "done")
  BY DEF CommandSafe, Provenance
<1>5. store' \subseteq store /\ store \ store' \subseteq {v}
  OBVIOUS
<1> QED
  BY <1>1, <1>2, <1>3, <1>4, <1>5, BatchFrame

LEMMA PurgeRowStep == PInv /\ PurgeRow => PInv'
<1> SUFFICES ASSUME PInv, PurgeRow PROVE PInv'
  OBVIOUS
<1> USE DEF PInv, PurgeRow, uploadVars, tableVars, diskVars, dateVars, gcVars, pruneVars
<1>1. PurgeTypeOK'
  BY FaultAssumption DEF PurgeTypeOK, TypeOK
<1>2. CommandSafe'
  BY MarkerAssumption DEF CommandSafe
<1>3. taken \in Uploads /\ target[taken] \in hit
  BY DEF CommandSafe, PurgeTypeOK
<1>4. PruneSpares'
  BY <1>3 DEF PruneSpares
<1>5. CASE UNCHANGED <<versions, old>>
  <2>1. pruned' # None => pc[pruned'] = "done"
    BY DEF Provenance
  <2>2. GcSafe'
    BY DEF GcSafe
  <2> QED
    BY <1>1, <1>2, <1>4, <1>5, <2>1, <2>2, BatchFrame
<1>6. CASE versions' = versions \ {taken} /\ old' = old \ {taken}
  BY <1>1, <1>2, <1>3, <1>4, <1>6, RowFrame
<1> QED
  BY <1>5, <1>6

LEMMA PurgeFailStep == PInv /\ PurgeFail => PInv'
<1> SUFFICES ASSUME PInv, PurgeFail PROVE PInv'
  OBVIOUS
<1> USE DEF PInv, PurgeFail, uploadVars, tableVars, diskVars, dateVars, gcVars, pruneVars
<1>1. PurgeTypeOK'
  BY FaultAssumption DEF PurgeTypeOK, TypeOK
<1>2. CommandSafe'
  BY MarkerAssumption DEF CommandSafe
<1>3. GcSafe' /\ PruneSpares' /\ (pruned' # None => pc[pruned'] = "done")
  BY DEF GcSafe, PruneSpares, Provenance
<1> QED
  BY <1>1, <1>2, <1>3, BatchFrame

\* The row goes with all the versions it has by now, listed or not.  No transaction
\* holds it, so no lock points to a row that is gone.
LEMMA PurgeFileStep == PInv /\ PurgeFile => PInv'
<1> SUFFICES ASSUME PInv, PurgeFile PROVE PInv'
  OBVIOUS
<1> USE DEF PInv, PurgeTablesInv, PurgeFile, Cascaded, uploadVars, diskVars, gcVars, pruneVars
<1>1. victim \in Uploads /\ victim \in hit
  BY DEF CommandSafe, PurgeTypeOK
<1>2. PurgeTypeOK'
  BY <1>1 DEF PurgeTypeOK, TypeOK, FileStates
<1>3. /\ state'[victim] = "absent" /\ current'[victim] = None
      /\ \A f \in Uploads : f # victim => state'[f] = state[f] /\ current'[f] = current[f]
  BY <1>1 DEF PurgeTypeOK, TypeOK
<1>4. \A f \in Uploads : VersionsOf(f)' = IF f = victim THEN {} ELSE VersionsOf(f)
  BY DEF VersionsOf
<1>5. \A v \in Uploads : v \in old /\ v \notin old' => target[v] = victim
  BY DEF VersionsOf
<1>6. Provenance' /\ GcSafe' /\ BytesFirst'
  BY <1>3, MarkerAssumption DEF Provenance, GcSafe, BytesFirst
<1>7. CommandSafe'
  BY <1>1, MarkerAssumption DEF CommandSafe
<1>8. LockDiscipline'
  <2>1. \A u \in Uploads : lock[u] # None => lock[u] \in Uploads /\ lock[u] # victim
    BY DEF Locked, PurgeTypeOK, TypeOK
  <2>2. \A u \in Uploads : lock[u] # None => RefOf(lock[u])' = RefOf(lock[u])
    BY <1>3, <2>1 DEF RefOf
  <2> QED
    BY <1>3, <2>1, <2>2 DEF LockDiscipline, Accepts
<1>9. MatchedFile' /\ OneWinnerPerVersion'
  BY DEF MatchedFile, OneWinnerPerVersion
<1>10. WinnersMoveOn'
  BY <1>3, MarkerAssumption DEF WinnersMoveOn, PurgeTypeOK, TypeOK
<1>11. OneActivePerName'
  BY <1>3 DEF OneActivePerName
<1>12. PointerCommitted' /\ NumbersBounded'
  BY <1>3 DEF PointerCommitted, NumbersBounded
<1>13. GoneForGood'
  <2> SUFFICES ASSUME NEW f \in gone'
               PROVE  state'[f] = "absent" /\ current'[f] = None /\ VersionsOf(f)' = {}
    BY DEF GoneForGood
  <2>1. f = victim \/ (f \in gone /\ f \in Uploads /\ f # victim)
    BY DEF PurgeTypeOK
  <2> QED
    BY <1>1, <1>3, <1>4, <2>1 DEF GoneForGood
<1>14. OthersNewest' /\ OthersTop'
  BY <1>1, <1>3, <1>4 DEF OthersNewest, OthersTop, PurgeTypeOK, TypeOK
<1>15. OthersNumbered'
  <2> SUFFICES ASSUME NEW w \in Uploads, pc[w] = "numbered", target[w] \notin hit
               PROVE  \/ number[w] = TopNumber(target[w])' + 1
                      \/ \E v \in VersionsOf(target[w])' : number[v] = number[w] /\ v \notin old'
    BY DEF OthersNumbered
  <2>1. target[w] \in Uploads /\ target[w] # victim
    BY <1>1 DEF PurgeTypeOK, TypeOK
  <2>2. TopNumber(target[w])' = TopNumber(target[w])
    BY <1>3, <2>1 DEF TopNumber
  <2>3. VersionsOf(target[w])' = VersionsOf(target[w])
    BY <1>4, <2>1
  <2> QED
    BY <2>2, <2>3 DEF OthersNumbered
<1>16. PruneSpares'
  BY <1>1, <1>3, <1>5, MarkerAssumption DEF PruneSpares, PurgeTypeOK, TypeOK
<1>17. OthersReadable'
  BY <1>1, <1>3, <1>4 DEF OthersReadable
<1>18. BytesOnlyUnderGone'
  BY <1>1 DEF BytesOnlyUnderGone, VersionsOf
<1> QED
  BY <1>2, <1>6, <1>7, <1>8, <1>9, <1>10, <1>11, <1>12, <1>13, <1>14, <1>15, <1>16, <1>17, <1>18
-----------------------------------------------------------------------------
(***************************************************************************)
(* Batches, calendar and trash, beside the command.                        *)
(***************************************************************************)

LEMMA GcScanBeside == PInv /\ GcScan /\ UNCHANGED purgeVars => PInv'
<1> SUFFICES ASSUME PInv, GcScan, UNCHANGED purgeVars PROVE PInv'
  OBVIOUS
<1> USE DEF PInv, GcScan, purgeVars, uploadVars, tableVars, diskVars, dateVars, pruneVars
<1>1. PurgeTypeOK'
  BY DEF PurgeTypeOK, TypeOK
<1>2. CommandSafe' /\ GcSafe' /\ PruneSpares' /\ (pruned' # None => pc[pruned'] = "done")
  BY DEF CommandSafe, GcSafe, PruneSpares, Provenance
<1> QED
  BY <1>1, <1>2, BatchFrame

LEMMA GcListBeside ==
    ASSUME NEW f \in Uploads PROVE PInv /\ GcList(f) /\ UNCHANGED purgeVars => PInv'
<1> SUFFICES ASSUME PInv, GcList(f), UNCHANGED purgeVars PROVE PInv'
  OBVIOUS
<1> USE DEF PInv, GcList, purgeVars, uploadVars, tableVars, diskVars, dateVars, pruneVars, VersionsOf
<1>1. gcTodo' \subseteq VersionsOf(f)
  BY ListsOwnVersions
<1>2. PurgeTypeOK'
  BY <1>1 DEF PurgeTypeOK, TypeOK
<1>3. CommandSafe' /\ PruneSpares' /\ (pruned' # None => pc[pruned'] = "done")
  BY DEF CommandSafe, PruneSpares, Provenance
<1>4. GcSafe'
  BY <1>1, MarkerAssumption DEF GcSafe
<1> QED
  BY <1>1, <1>2, <1>3, <1>4, BatchFrame

LEMMA GcRemoveBeside ==
    ASSUME NEW v \in Uploads PROVE PInv /\ GcRemove(v) /\ UNCHANGED purgeVars => PInv'
<1> SUFFICES ASSUME PInv, GcRemove(v), UNCHANGED purgeVars PROVE PInv'
  OBVIOUS
<1> USE DEF PInv, GcRemove, Removed, purgeVars, uploadVars, tableVars, dateVars, pruneVars
<1>1. PurgeTypeOK'
  BY DEF PurgeTypeOK, TypeOK
<1>2. CommandSafe' /\ GcSafe' /\ PruneSpares' /\ (pruned' # None => pc[pruned'] = "done")
  BY DEF CommandSafe, GcSafe, PruneSpares, Provenance
<1>3. pc[v] = "done" /\ v \in claimed
  BY DEF Provenance, GcSafe
<1> QED
  BY <1>1, <1>2, <1>3, BatchFrame

LEMMA GcFailBeside == PInv /\ GcFail /\ UNCHANGED purgeVars => PInv'
<1> SUFFICES ASSUME PInv, GcFail, UNCHANGED purgeVars PROVE PInv'
  OBVIOUS
<1> USE DEF PInv, GcFail, purgeVars, uploadVars, tableVars, diskVars, dateVars, pruneVars
<1>1. PurgeTypeOK'
  BY FaultAssumption DEF PurgeTypeOK, TypeOK
<1>2. CommandSafe' /\ PruneSpares' /\ (pruned' # None => pc[pruned'] = "done")
  BY DEF CommandSafe, PruneSpares, Provenance
<1>3. GcSafe'
  BY MarkerAssumption DEF GcSafe
<1> QED
  BY <1>1, <1>2, <1>3, BatchFrame

LEMMA GcPurgeBeside == PInv /\ GcPurge /\ UNCHANGED purgeVars => PInv'
<1> SUFFICES ASSUME PInv, GcPurge, UNCHANGED purgeVars PROVE PInv'
  OBVIOUS
<1> USE DEF PInv, PurgeTypeOK, GcPurge, purgeVars, uploadVars, diskVars, pruneVars
<1>1. TypeOK'
  BY DEF TypeOK, FileStates
<1>2. GcSafe'
  BY DEF GcSafe
<1>3. CASE state[gcFile] = "trashed"
  <2>1. gcFile \in Uploads
    BY DEF TypeOK
  <2> QED
    BY <1>1, <1>2, <1>3, <2>1, StateFrame
<1>4. CASE state[gcFile] # "trashed"
  <2>1. CommandSafe' /\ PruneSpares' /\ (pruned' # None => pc[pruned'] = "done")
    BY DEF CommandSafe, PruneSpares, Provenance
  <2>2. PurgeTypeOK' /\ UNCHANGED tableVars
    BY <1>1, <1>4 DEF tableVars
  <2> QED
    BY <1>2, <2>1, <2>2, BatchFrame
<1> QED
  BY <1>3, <1>4

LEMMA PruneScanBeside == PInv /\ PruneScan /\ UNCHANGED purgeVars => PInv'
<1> SUFFICES ASSUME PInv, PruneScan, UNCHANGED purgeVars PROVE PInv'
  OBVIOUS
<1> USE DEF PInv, PruneScan, Prunable, purgeVars, uploadVars, tableVars, diskVars, dateVars, gcVars
<1>1. PurgeTypeOK'
  BY DEF PurgeTypeOK, TypeOK
<1>2. CommandSafe' /\ GcSafe'
  BY DEF CommandSafe, GcSafe
<1>3. PruneSpares'
  BY MarkerAssumption DEF PruneSpares, PurgeTypeOK, TypeOK
<1> QED
  BY <1>1, <1>2, <1>3, BatchFrame

LEMMA PruneRemoveBeside ==
    ASSUME NEW v \in Uploads PROVE PInv /\ PruneRemove(v) /\ UNCHANGED purgeVars => PInv'
<1> SUFFICES ASSUME PInv, PruneRemove(v), UNCHANGED purgeVars PROVE PInv'
  OBVIOUS
<1> USE DEF PInv, PruneRemove, Removed, purgeVars, uploadVars, tableVars, dateVars, gcVars
<1>1. PurgeTypeOK'
  BY DEF PurgeTypeOK, TypeOK
<1>2. CommandSafe' /\ GcSafe'
  BY DEF CommandSafe, GcSafe
<1>3. PruneSpares'
  BY DEF PruneSpares
<1>4. pc[v] = "done" /\ current[target[v]] # v
  BY DEF Provenance, PruneSpares
<1> QED
  BY <1>1, <1>2, <1>3, <1>4, BatchFrame

LEMMA PruneFailBeside == PInv /\ PruneFail /\ UNCHANGED purgeVars => PInv'
<1> SUFFICES ASSUME PInv, PruneFail, UNCHANGED purgeVars PROVE PInv'
  OBVIOUS
<1> USE DEF PInv, PruneFail, purgeVars, uploadVars, tableVars, diskVars, dateVars, gcVars
<1>1. pruneList' \subseteq pruneList
  OBVIOUS
<1>2. PurgeTypeOK'
  BY <1>1, FaultAssumption DEF PurgeTypeOK, TypeOK
<1>3. CommandSafe' /\ GcSafe'
  BY DEF CommandSafe, GcSafe
<1>4. PruneSpares'
  BY <1>1, MarkerAssumption DEF PruneSpares, PurgeTypeOK, TypeOK
<1> QED
  BY <1>1, <1>2, <1>3, <1>4, BatchFrame

LEMMA PruneDeleteBeside == PInv /\ PruneDelete /\ UNCHANGED purgeVars => PInv'
<1> SUFFICES ASSUME PInv, PruneDelete, UNCHANGED purgeVars PROVE PInv'
  OBVIOUS
<1> USE DEF PInv, PruneDelete, purgeVars, uploadVars, diskVars, gcVars
<1>1. PurgeTypeOK'
  BY DEF PurgeTypeOK, TypeOK
<1>2. CommandSafe'
  BY DEF CommandSafe
<1>3. PruneSpares'
  BY MarkerAssumption DEF PruneSpares, PurgeTypeOK, TypeOK
<1>4. /\ pruned \in Uploads
      /\ \/ target[pruned] \in hit
         \/ pruned \in old /\ current[target[pruned]] # pruned /\ pruned \notin store
  BY DEF PruneSpares, PurgeTypeOK, TypeOK
<1> QED
  BY <1>1, <1>2, <1>3, <1>4, RowFrame

LEMMA AgeBeside ==
    ASSUME NEW f \in Uploads
    PROVE  PInv /\ (AgeTrash(f) \/ AgeVersion(f)) /\ UNCHANGED purgeVars => PInv'
<1> SUFFICES ASSUME PInv, AgeTrash(f) \/ AgeVersion(f), UNCHANGED purgeVars PROVE PInv'
  OBVIOUS
<1> USE DEF PInv, AgeTrash, AgeVersion, purgeVars, uploadVars, tableVars, diskVars, gcVars, pruneVars
<1>1. PurgeTypeOK'
  BY DEF PurgeTypeOK, TypeOK
<1>2. CommandSafe' /\ GcSafe' /\ PruneSpares' /\ (pruned' # None => pc[pruned'] = "done")
  BY DEF CommandSafe, GcSafe, PruneSpares, Provenance
<1>3. /\ (\A u \in Uploads : pc[u] # "numbered") \/ old' = old
      /\ old' \subseteq old \cup versions
  BY DEF InTransaction
<1> QED
  BY <1>1, <1>2, <1>3, BatchFrame

LEMMA TrashBeside ==
    ASSUME NEW f \in Uploads
    PROVE  PInv /\ (Delete(f) \/ Restore(f)) /\ UNCHANGED purgeVars => PInv'
<1> SUFFICES ASSUME PInv, Delete(f) \/ Restore(f), UNCHANGED purgeVars PROVE PInv'
  OBVIOUS
<1> USE DEF PInv, PurgeTypeOK, purgeVars, uploadVars, diskVars, dateVars, gcVars, pruneVars
<1>1. CASE Delete(f)
  <2> USE <1>1 DEF Delete
  <2>1. TypeOK'
    BY DEF TypeOK, FileStates
  <2>2. GcSafe'
    BY DEF GcSafe
  <2> QED
    BY <2>1, <2>2, StateFrame
<1>2. CASE Restore(f)
  <2> USE <1>2 DEF Restore
  <2>1. TypeOK'
    BY DEF TypeOK, FileStates
  <2>2. GcSafe'
    BY DEF GcSafe
  <2> QED
    BY <2>1, <2>2, StateFrame
<1> QED
  BY <1>1, <1>2
-----------------------------------------------------------------------------
(***************************************************************************)
(* Uploads, beside the command.                                            *)
(***************************************************************************)

\* A step of u that neither numbers nor commits, leaves the tables alone and ends
\* with no lock.
LEMMA StageBeside ==
    ASSUME PInv, NEW u \in Uploads,
           UNCHANGED <<path, pre, target, number, tableVars, dateVars, gcVars, pruneVars,
                       purgeVars>>,
           \A w \in Uploads : w # u => pc'[w] = pc[w] /\ lock'[w] = lock[w],
           pc[u] \in InFlight,
           pc'[u] \in {"written", "stored", "waiting", "refused", "failed"},
           pc'[u] \in Uncreated => pc[u] \in Uncreated,
           pc'[u] \in {"stored", "waiting"} => u \in store',
           lock'[u] = None,
           store \subseteq store', store' \subseteq store \cup {u},
           TypeOK'
    PROVE  PInv'
<1> USE DEF PInv, PurgeTablesInv, PurgeTypeOK, tableVars, dateVars, gcVars, pruneVars, purgeVars
<1>1. \A w \in Uploads : pc'[w] = "done" <=> pc[w] = "done"
  BY DEF InFlight
<1>2. PurgeTypeOK'
  OBVIOUS
<1>3. Provenance'
  BY <1>1, MarkerAssumption DEF Provenance, Uncreated, InFlight, TypeOK
<1>4. CommandSafe'
  BY <1>1, MarkerAssumption DEF CommandSafe, Uncreated
<1>5. LockDiscipline'
  BY DEF LockDiscipline, Accepts, RefOf, TypeOK
<1>6. MatchedFile' /\ WinnersMoveOn' /\ OneWinnerPerVersion'
  BY <1>1 DEF MatchedFile, WinnersMoveOn, OneWinnerPerVersion
<1>7. OneActivePerName' /\ NumbersBounded' /\ GoneForGood'
  BY DEF OneActivePerName, NumbersBounded, GoneForGood, VersionsOf
<1>8. PointerCommitted' /\ OthersTop'
  BY <1>1, MarkerAssumption DEF PointerCommitted, OthersTop, TypeOK
<1>9. OthersNewest' /\ OthersNumbered'
  BY DEF OthersNewest, OthersNumbered, TopNumber, VersionsOf
<1>10. PruneSpares'
  BY <1>1, MarkerAssumption DEF PruneSpares, Provenance, InFlight
<1>11. GcSafe' /\ BytesFirst'
  BY DEF GcSafe, BytesFirst
<1>12. OthersReadable' /\ BytesOnlyUnderGone'
  BY <1>1 DEF OthersReadable, BytesOnlyUnderGone, VersionsOf, TypeOK, InFlight
<1> QED
  BY <1>2, <1>3, <1>4, <1>5, <1>6, <1>7, <1>8, <1>9, <1>10, <1>11, <1>12

LEMMA WriteTempBeside ==
    ASSUME NEW u \in Uploads PROVE PInv /\ WriteTemp(u) /\ UNCHANGED purgeVars => PInv'
<1> SUFFICES ASSUME PInv, WriteTemp(u), UNCHANGED purgeVars PROVE PInv'
  OBVIOUS
<1> USE DEF PInv, PurgeTablesInv, PurgeTypeOK, WriteTemp, tableVars, dateVars, gcVars, pruneVars
<1>1. TypeOK'
  BY DEF TypeOK, Steps
<1>2. lock'[u] = None
  BY DEF LockDiscipline
<1>3. pc[u] \in InFlight /\ pc[u] \in Uncreated /\ pc'[u] = "written"
  BY DEF InFlight, Uncreated, TypeOK
<1>4. \A w \in Uploads : w # u => pc'[w] = pc[w] /\ lock'[w] = lock[w]
  BY DEF TypeOK
<1> QED
  BY <1>1, <1>2, <1>3, <1>4, StageBeside

LEMMA FinalizeBeside ==
    ASSUME NEW u \in Uploads PROVE PInv /\ Finalize(u) /\ UNCHANGED purgeVars => PInv'
<1> SUFFICES ASSUME PInv, Finalize(u), UNCHANGED purgeVars PROVE PInv'
  OBVIOUS
<1> USE DEF PInv, PurgeTablesInv, PurgeTypeOK, Finalize, Stored, tableVars, dateVars, gcVars, pruneVars
<1>1. TypeOK'
  BY DEF TypeOK, Steps
<1>2. lock'[u] = None
  BY DEF LockDiscipline
<1>3. pc[u] \in InFlight /\ pc[u] \in Uncreated /\ pc'[u] = "stored"
  BY DEF InFlight, Uncreated, TypeOK
<1>4. \A w \in Uploads : w # u => pc'[w] = pc[w] /\ lock'[w] = lock[w]
  BY DEF TypeOK
<1> QED
  BY <1>1, <1>2, <1>3, <1>4, StageBeside

LEMMA FailBeside ==
    ASSUME NEW u \in Uploads PROVE PInv /\ Fail(u) /\ UNCHANGED purgeVars => PInv'
<1> SUFFICES ASSUME PInv, Fail(u), UNCHANGED purgeVars PROVE PInv'
  OBVIOUS
<1> USE DEF PInv, PurgeTypeOK, Fail, Unlock, tableVars, diskVars, dateVars, gcVars, pruneVars
<1>1. TypeOK'
  BY FaultAssumption DEF TypeOK, Steps
<1>2. lock'[u] = None /\ pc'[u] = "failed"
  BY DEF TypeOK
<1>3. \A w \in Uploads : w # u => pc'[w] = pc[w] /\ lock'[w] = lock[w]
  BY DEF TypeOK
<1> QED
  BY <1>1, <1>2, <1>3, StageBeside DEF Uncreated

LEMMA WaitBeside ==
    ASSUME NEW u \in Uploads PROVE PInv /\ Wait(u) /\ UNCHANGED purgeVars => PInv'
<1> SUFFICES ASSUME PInv, Wait(u), UNCHANGED purgeVars PROVE PInv'
  OBVIOUS
<1> USE DEF PInv, PurgeTablesInv, PurgeTypeOK, Wait, tableVars, diskVars, dateVars, gcVars, pruneVars
<1>1. TypeOK'
  BY DEF TypeOK, Steps
<1>2. lock'[u] = None /\ u \in store'
  BY DEF LockDiscipline, BytesFirst
<1>3. pc[u] \in InFlight /\ pc[u] \in Uncreated /\ pc'[u] = "waiting"
  BY DEF InFlight, Uncreated, TypeOK
<1>4. \A w \in Uploads : w # u => pc'[w] = pc[w] /\ lock'[w] = lock[w]
  BY DEF TypeOK
<1> QED
  BY <1>1, <1>2, <1>3, <1>4, StageBeside

\* The row that appears is not one a command erased: the upload that creates it was
\* still to come, and a command starts from a row.
LEMMA EnsureFileRowBeside ==
    ASSUME NEW u \in Uploads PROVE PInv /\ EnsureFileRow(u) /\ UNCHANGED purgeVars => PInv'
<1> SUFFICES ASSUME PInv, EnsureFileRow(u), UNCHANGED purgeVars PROVE PInv'
  OBVIOUS
<1> USE DEF PInv, PurgeTablesInv, PurgeTypeOK, EnsureFileRow, diskVars, dateVars, gcVars, pruneVars
<1>1. TypeOK'
  BY DEF TypeOK, Steps, FileStates
<1>2. /\ lock[u] = None /\ state[u] = "absent" /\ pc[u] = "stored" /\ path[u] \in Paths
      /\ u \notin hit /\ u \notin gone
  BY DEF LockDiscipline, Provenance, CommandSafe, Uncreated, InFlight
<1>3. \A w \in Uploads : w # u => pc'[w] = pc[w] /\ state'[w] = state[w]
  BY DEF TypeOK
<1>4. CASE NameTaken(path[u])
  <2>1. pc'[u] = "failed" /\ UNCHANGED state
    BY <1>4 DEF TypeOK
  <2> QED
    BY <1>1, <1>2, <1>3, <2>1, StageBeside DEF InFlight, Uncreated, tableVars
<1>5. CASE ~NameTaken(path[u])
  <2>1. pc'[u] = "ready" /\ state'[u] = "active"
    BY <1>5 DEF TypeOK
  <2>2. \A w \in Uploads : pc'[w] = "done" <=> pc[w] = "done"
    BY <1>2, <1>3, <2>1
  <2>3. PurgeTypeOK' /\ CommandSafe'
    BY <1>1, <1>2, <1>3, <2>2, MarkerAssumption DEF CommandSafe, purgeVars
  <2>4. Provenance'
    BY <1>2, <1>3, <2>1, <2>2, MarkerAssumption
       DEF Provenance, Uncreated, InFlight, TypeOK
  <2>5. LockDiscipline'
    <3>1. \A w \in Uploads : lock[w] # None => lock[w] \in Uploads /\ lock[w] # u
      BY <1>2 DEF LockDiscipline, TypeOK
    <3>2. \A w \in Uploads : lock[w] # None => RefOf(lock[w])' = RefOf(lock[w])
      BY <1>3, <3>1 DEF RefOf
    <3>3. target[u] = u
      OBVIOUS
    <3> QED
      BY <1>2, <1>3, <2>1, <3>1, <3>2, <3>3 DEF LockDiscipline, Accepts
  <2>6. MatchedFile' /\ WinnersMoveOn' /\ OneWinnerPerVersion'
    BY <2>2 DEF MatchedFile, WinnersMoveOn, OneWinnerPerVersion
  <2>7. OneActivePerName'
    BY <1>3, <1>5 DEF OneActivePerName, NameTaken
  <2>8. NumbersBounded' /\ OthersTop'
    BY <2>2 DEF NumbersBounded, OthersTop, purgeVars
  <2>9. PointerCommitted'
    BY <2>2, MarkerAssumption DEF PointerCommitted, TypeOK
  <2>10. GoneForGood'
    BY <1>2, <1>3 DEF GoneForGood, VersionsOf, purgeVars
  <2>11. OthersNewest' /\ OthersNumbered'
    BY <1>3, <2>1 DEF OthersNewest, OthersNumbered, TopNumber, VersionsOf, purgeVars
  <2>12. PruneSpares' /\ GcSafe'
    BY DEF PruneSpares, GcSafe, purgeVars
  <2>13. BytesFirst'
    BY <1>2, <1>3 DEF BytesFirst
  <2>14. OthersReadable' /\ BytesOnlyUnderGone'
    BY <2>2 DEF OthersReadable, BytesOnlyUnderGone, VersionsOf, TypeOK, purgeVars
  <2> QED
    BY <2>3, <2>4, <2>5, <2>6, <2>7, <2>8, <2>9, <2>10, <2>11, <2>12, <2>13, <2>14
<1> QED
  BY <1>4, <1>5

LEMMA RecheckBeside ==
    ASSUME NEW u \in Uploads PROVE PInv /\ Recheck(u) /\ UNCHANGED purgeVars => PInv'
<1> SUFFICES ASSUME PInv, Recheck(u), UNCHANGED purgeVars PROVE PInv'
  OBVIOUS
<1> USE DEF PInv, PurgeTablesInv, PurgeTypeOK, Recheck, tableVars, diskVars, dateVars, gcVars, pruneVars
<1>1. TypeOK'
  BY LookupAnswers DEF TypeOK, Steps, LockRow
<1>2. lock[u] = None /\ pc[u] \in {"stored", "waiting"}
  BY DEF LockDiscipline
<1>3. \A w \in Uploads : w # u => pc'[w] = pc[w] /\ lock'[w] = lock[w]
  BY DEF TypeOK, LockRow
<1>4. CASE pc'[u] \in {"refused", "failed"}
  <2>1. lock'[u] = None
    BY <1>2, <1>4 DEF TypeOK
  <2> QED
    BY <1>1, <1>2, <1>3, <1>4, <2>1, StageBeside DEF InFlight, Uncreated
<1>5. CASE pc'[u] \notin {"refused", "failed"}
  <2>1. PICK f \in Lookup(path[u]) :
          /\ f # None /\ ~LockedByOther(u, f) /\ AcceptsAgain(u, f)
          /\ pc' = [pc EXCEPT ![u] = "ready"]
          /\ lock' = LockRow(u, f)
    BY <1>5 DEF TypeOK
  <2>2. f \in Uploads /\ state[f] = "active"
    BY <2>1, LookupAnswers
  <2>3. pc'[u] = "ready" /\ lock'[u] = f
    BY <2>1 DEF TypeOK, LockRow
  <2>4. \A w \in Uploads : pc'[w] = "done" <=> pc[w] = "done"
    BY <1>2, <1>3, <2>3
  <2>5. PurgeTypeOK' /\ CommandSafe'
    BY <1>1, <1>2, <1>3, <2>3, <2>4, MarkerAssumption DEF CommandSafe, Uncreated, purgeVars
  <2>6. Provenance'
    BY <1>2, <1>3, <2>3, <2>4, MarkerAssumption
       DEF Provenance, Uncreated, InFlight, TypeOK
  <2>7. LockDiscipline'
    <3>1. \A w \in Uploads \ {u} : lock[w] # f
      BY <2>1 DEF LockedByOther
    <3>2. Accepts(f, pre[u])
      BY <2>1 DEF AcceptsAgain
    <3> QED
      BY <1>3, <2>1, <2>2, <2>3, <3>1, <3>2 DEF LockDiscipline, Accepts, RefOf
  <2>8. MatchedFile' /\ WinnersMoveOn' /\ OneWinnerPerVersion'
    BY <2>4 DEF MatchedFile, WinnersMoveOn, OneWinnerPerVersion
  <2>9. OneActivePerName' /\ NumbersBounded' /\ GoneForGood'
    BY DEF OneActivePerName, NumbersBounded, GoneForGood, VersionsOf, purgeVars
  <2>10. PointerCommitted' /\ OthersTop'
    BY <2>4, MarkerAssumption DEF PointerCommitted, OthersTop, TypeOK, purgeVars
  <2>11. OthersNewest' /\ OthersNumbered'
    BY <1>3, <2>3 DEF OthersNewest, OthersNumbered, TopNumber, VersionsOf, purgeVars
  <2>12. PruneSpares' /\ GcSafe'
    BY DEF PruneSpares, GcSafe, purgeVars
  <2>13. BytesFirst'
    BY <1>2, <1>3 DEF BytesFirst
  <2>14. OthersReadable' /\ BytesOnlyUnderGone'
    BY <2>4 DEF OthersReadable, BytesOnlyUnderGone, VersionsOf, TypeOK, purgeVars
  <2> QED
    BY <2>5, <2>6, <2>7, <2>8, <2>9, <2>10, <2>11, <2>12, <2>13, <2>14
<1> QED
  BY <1>4, <1>5

\* An idle upload has no row, no lock and no version, and no command was started for
\* the file it may create.
LEMMA PreflightBeside ==
    ASSUME NEW u \in Uploads, NEW p \in Paths, NEW q \in Preconditions,
           q.ifMatch \in Uploads => q.ifNoneMatch = None /\ pc[q.ifMatch] = "done"
    PROVE  PInv /\ Preflight(u, p, q) /\ UNCHANGED purgeVars => PInv'
<1> SUFFICES ASSUME PInv, Preflight(u, p, q), UNCHANGED purgeVars PROVE PInv'
  OBVIOUS
<1> USE DEF PInv, PurgeTablesInv, PurgeTypeOK, Preflight, tableVars, diskVars, dateVars, gcVars,
            pruneVars
<1>1. PICK f \in Lookup(p) :
        IF Accepts(f, q)
        THEN /\ pc' = [pc EXCEPT ![u] = "accepted"]
             /\ path' = [path EXCEPT ![u] = p]
             /\ pre' = [pre EXCEPT ![u] = q]
             /\ target' = [target EXCEPT ![u] = IF f = None THEN u ELSE f]
        ELSE /\ pc' = [pc EXCEPT ![u] = "refused"]
             /\ UNCHANGED <<path, pre, target>>
  OBVIOUS
<1>2. f # None => f \in Uploads /\ state[f] = "active"
  BY LookupAnswers
<1>3. TypeOK'
  BY <1>1, <1>2 DEF TypeOK, Steps
<1>4. /\ pc[u] = "idle" /\ lock[u] = None /\ state[u] = "absent"
      /\ u \notin versions /\ u \notin old /\ u \notin gcTodo /\ u \notin pruneList
      /\ u # pruned /\ u \notin hit /\ u \notin listed /\ u # taken
  BY MarkerAssumption DEF Provenance, LockDiscipline, CommandSafe, Uncreated
<1>5. /\ \A w \in Uploads : w # u => /\ pc'[w] = pc[w] /\ path'[w] = path[w]
                                     /\ pre'[w] = pre[w] /\ target'[w] = target[w]
      /\ pc'[u] \in {"accepted", "refused"}
  BY <1>1 DEF TypeOK
<1>6. \A g \in Uploads : VersionsOf(g)' = VersionsOf(g)
  BY <1>4, <1>5 DEF VersionsOf, TypeOK
<1>7. \A g \in Uploads : current[g] # u
  BY <1>4, MarkerAssumption DEF PointerCommitted
<1>8. Provenance'
  BY <1>1, <1>4, <1>5, MarkerAssumption DEF Provenance, Uncreated, InFlight, TypeOK
<1>9. PurgeTypeOK' /\ CommandSafe'
  BY <1>3, <1>4, <1>5, MarkerAssumption DEF CommandSafe, purgeVars
<1>10. LockDiscipline'
  BY <1>4, <1>5 DEF LockDiscipline, Accepts, RefOf, TypeOK
<1>11. MatchedFile'
  <2>1. CASE Accepts(f, q)
    <3>1. q.ifMatch \in Uploads => f # None /\ current[f] = q.ifMatch
      BY <2>1, AcceptedMatch
    <3>2. q.ifMatch \in Uploads => target[q.ifMatch] = f /\ q.ifMatch # u /\ f # u
      BY <1>2, <1>4, <3>1, MarkerAssumption DEF PointerCommitted
    <3> QED
      BY <1>1, <1>2, <1>4, <1>5, <2>1, <3>1, <3>2 DEF MatchedFile, TypeOK
  <2>2. CASE ~Accepts(f, q)
    BY <1>1, <1>4, <1>5, <2>2 DEF MatchedFile, TypeOK
  <2> QED
    BY <2>1, <2>2
<1>12. WinnersMoveOn' /\ OneWinnerPerVersion'
  BY <1>4, <1>5 DEF WinnersMoveOn, OneWinnerPerVersion
<1>13. OneActivePerName' /\ NumbersBounded'
  BY <1>4, <1>5 DEF OneActivePerName, NumbersBounded
<1>14. PointerCommitted'
  BY <1>5, <1>7, MarkerAssumption DEF PointerCommitted, TypeOK
<1>15. GoneForGood'
  BY <1>6 DEF GoneForGood, purgeVars
<1>16. OthersNewest' /\ OthersReadable'
  BY <1>6 DEF OthersNewest, OthersReadable, purgeVars
<1>17. OthersNumbered'
  BY <1>4, <1>5, <1>6 DEF OthersNumbered, TopNumber, TypeOK, purgeVars
<1>18. OthersTop'
  BY <1>4, <1>5 DEF OthersTop, purgeVars
<1>19. PruneSpares' /\ GcSafe'
  BY <1>4, <1>5, MarkerAssumption DEF PruneSpares, GcSafe, TypeOK, purgeVars
<1>20. BytesFirst' /\ BytesOnlyUnderGone'
  BY <1>4, <1>5 DEF BytesFirst, BytesOnlyUnderGone, TypeOK, purgeVars
<1> QED
  BY <1>8, <1>9, <1>10, <1>11, <1>12, <1>13, <1>14, <1>15, <1>16, <1>17, <1>18, <1>19, <1>20

\* The preconditions of a request are well formed, and name committed versions.
LEMMA UploadStartBeside ==
    ASSUME NEW u \in Uploads
    PROVE  PInv /\ (Upload(u) \/ SaveAsCopy(u)) /\ UNCHANGED purgeVars => PInv'
<1> SUFFICES ASSUME PInv, Upload(u) \/ SaveAsCopy(u), UNCHANGED purgeVars PROVE PInv'
  OBVIOUS
<1>1. CASE Upload(u)
  <2>1. PICK p \in Paths, q \in ClientPreconditions : Preflight(u, p, q)
    BY <1>1 DEF Upload
  <2>2. q \in Preconditions /\ (q.ifMatch \in Uploads => q.ifNoneMatch = None /\ pc[q.ifMatch] = "done")
    BY MarkerAssumption DEF ClientPreconditions, Preconditions
  <2> QED
    BY <2>1, <2>2, PreflightBeside
<1>2. CASE SaveAsCopy(u)
  <2> DEFINE q == [ifMatch |-> None, ifNoneMatch |-> Star]
  <2>1. PICK f \in Uploads : state[f] # "absent" /\ Preflight(u, CopyOf[path[f]], q)
    BY <1>2 DEF SaveAsCopy
  <2>2. CopyOf[path[f]] \in Paths
    BY <2>1, PathAssumption DEF PInv, Provenance
  <2>3. q \in Preconditions /\ q.ifMatch \notin Uploads
    BY MarkerAssumption DEF Preconditions
  <2> QED
    BY <2>1, <2>2, <2>3, PreflightBeside
<1> QED
  BY <1>1, <1>2

\* The number is a natural also when the command took the row MAX would have found.
LEMMA NumberVersionBeside ==
    ASSUME NEW u \in Uploads PROVE PInv /\ NumberVersion(u) /\ UNCHANGED purgeVars => PInv'
<1> SUFFICES ASSUME PInv, NumberVersion(u), UNCHANGED purgeVars PROVE PInv'
  OBVIOUS
<1> USE DEF PInv, PurgeTablesInv, PurgeTypeOK, NumberVersion, tableVars, diskVars, dateVars, gcVars,
            pruneVars
<1>1. target[u] \in Uploads /\ NextVersionNumber(target[u]) \in Nat
  BY NextIsAboveAll DEF TypeOK
<1>2. target[u] \notin hit =>
        NextVersionNumber(target[u]) = TopNumber(target[u]) + 1 /\ TopNumber(target[u]) \in Nat
  BY <1>1, NextOfOthers
<1>3. TypeOK'
  BY <1>1 DEF TypeOK, Steps
<1>4. /\ pc[u] = "ready" /\ pc'[u] = "numbered"
      /\ number'[u] = NextVersionNumber(target[u])
      /\ \A w \in Uploads : w # u => pc'[w] = pc[w] /\ number'[w] = number[w]
  BY DEF TypeOK
<1>5. \A w \in Uploads : /\ pc'[w] = "done" <=> pc[w] = "done"
                         /\ pc[w] = "done" => number'[w] = number[w]
  BY <1>4
<1>6. \A f \in Uploads : /\ VersionsOf(f)' = VersionsOf(f)
                         /\ VersionsOf(f) \subseteq Uploads
                         /\ \A v \in VersionsOf(f) : number'[v] = number[v]
  BY <1>5 DEF VersionsOf, Provenance, TypeOK
<1>7. \A f \in Uploads : current[f] # None =>
                            current[f] \in Uploads /\ number'[current[f]] = number[current[f]]
  BY <1>5 DEF PointerCommitted, TypeOK
<1>8. \A f \in Uploads : TopNumber(f)' = TopNumber(f)
  BY <1>7 DEF TopNumber
<1>9. Provenance'
  BY <1>4, <1>5, MarkerAssumption DEF Provenance, Uncreated, InFlight, TypeOK
<1>10. PurgeTypeOK' /\ CommandSafe'
  BY <1>3, <1>4, <1>5, MarkerAssumption DEF CommandSafe, Uncreated, purgeVars
<1>11. LockDiscipline'
  BY <1>4 DEF LockDiscipline, Accepts, RefOf, TypeOK
<1>12. MatchedFile' /\ WinnersMoveOn' /\ OneWinnerPerVersion'
  BY <1>5 DEF MatchedFile, WinnersMoveOn, OneWinnerPerVersion
<1>13. OneActivePerName' /\ GoneForGood'
  BY <1>6 DEF OneActivePerName, GoneForGood, purgeVars
<1>14. NumbersBounded'
  BY <1>5 DEF NumbersBounded, Provenance, TypeOK
<1>15. PointerCommitted'
  BY <1>5, MarkerAssumption DEF PointerCommitted, TypeOK
<1>16. OthersNewest' /\ OthersReadable'
  BY <1>6 DEF OthersNewest, OthersReadable, purgeVars
<1>17. OthersNumbered'
  BY <1>1, <1>2, <1>4, <1>6, <1>8 DEF OthersNumbered, TypeOK, purgeVars
<1>18. OthersTop'
  BY <1>5, <1>7 DEF OthersTop, TypeOK, purgeVars
<1>19. PruneSpares' /\ GcSafe'
  BY DEF PruneSpares, GcSafe, purgeVars
<1>20. BytesFirst'
  BY <1>4 DEF BytesFirst
<1>21. BytesOnlyUnderGone'
  BY <1>5 DEF BytesOnlyUnderGone, TypeOK, purgeVars
<1> QED
  BY <1>9, <1>10, <1>11, <1>12, <1>13, <1>14, <1>15, <1>16, <1>17, <1>18, <1>19, <1>20, <1>21

\* What is known of an upload that makes its version current.
LEMMA AtCommitBeside ==
    ASSUME PInv, NEW u \in Uploads, pc[u] = "numbered", ~InsertRefused(target[u], number[u])
    PROVE  /\ target[u] \notin hit => number[u] = TopNumber(target[u]) + 1
           /\ pre[u].ifMatch \in Uploads =>
                 /\ lock[u] = target[u]
                 /\ state[target[u]] = "active"
                 /\ current[target[u]] = pre[u].ifMatch
<1> USE DEF PInv, PurgeTablesInv, PurgeTypeOK
<1>1. target[u] \notin hit => number[u] = TopNumber(target[u]) + 1
  BY DEF OthersNumbered, NumberTaken, InsertRefused
<1>2. ASSUME pre[u].ifMatch \in Uploads
      PROVE  /\ lock[u] = target[u]
             /\ state[target[u]] = "active"
             /\ current[target[u]] = pre[u].ifMatch
  <2>1. /\ target[u] # u /\ target[pre[u].ifMatch] = target[u]
        /\ pre[u].ifNoneMatch = None
    BY <1>2 DEF MatchedFile
  <2>2. lock[u] \in Uploads /\ Accepts(lock[u], pre[u]) /\ state[lock[u]] = "active"
    BY <2>1 DEF LockDiscipline, TypeOK
  <2>3. current[lock[u]] = pre[u].ifMatch
    BY <1>2, <2>1, <2>2, AcceptedMatch DEF TypeOK
  <2>4. target[pre[u].ifMatch] = lock[u]
    BY <1>2, <2>2, <2>3, MarkerAssumption DEF PointerCommitted
  <2> QED
    BY <2>1, <2>2, <2>3, <2>4
<1> QED
  BY <1>1, <1>2

LEMMA CommitVersionBeside ==
    ASSUME NEW u \in Uploads PROVE PInv /\ CommitVersion(u) /\ UNCHANGED purgeVars => PInv'
<1> SUFFICES ASSUME PInv, CommitVersion(u), UNCHANGED purgeVars PROVE PInv'
  OBVIOUS
<1> DEFINE f == target[u]
<1> USE DEF PInv, PurgeTablesInv, PurgeTypeOK, CommitVersion, diskVars, gcVars, pruneVars
<1>1. TypeOK'
  BY DEF TypeOK, Steps, Unlock
<1>2. f \in Uploads /\ pc[u] = "numbered" /\ lock'[u] = None
  BY DEF TypeOK, Unlock
<1>3. \A w \in Uploads : w # u => pc'[w] = pc[w] /\ lock'[w] = lock[w]
  BY DEF TypeOK, Unlock
<1>4. CASE InsertRefused(f, number[u])
  <2>1. pc'[u] = "failed" /\ UNCHANGED <<current, versions, recent>>
    BY <1>4 DEF TypeOK
  <2> QED
    BY <1>1, <1>2, <1>3, <2>1, StageBeside DEF InFlight, Uncreated, tableVars, dateVars
<1>5. CASE ~InsertRefused(f, number[u])
  <2>1. /\ pc'[u] = "done" /\ current'[f] = u /\ versions' = versions \cup {u}
        /\ \A g \in Uploads : g # f => current'[g] = current[g]
    BY <1>5 DEF TypeOK
  <2>2. /\ u \notin versions /\ u \notin old /\ u \notin gcTodo
        /\ u \notin pruneList /\ u # pruned
    BY <1>2, MarkerAssumption DEF Provenance
  <2>3. f \notin hit => number[u] = TopNumber(f) + 1 /\ TopNumber(f) \in Nat
    BY <1>2, <1>5, AtCommitBeside, NextOfOthers
  <2>4. f \notin hit =>
          \A w \in Uploads : pc[w] = "done" /\ target[w] = f => number[w] < number[u]
    BY <2>3 DEF OthersTop, TopNumber, TypeOK
  <2>5. /\ VersionsOf(f)' = VersionsOf(f) \cup {u}
        /\ \A g \in Uploads : g # f => VersionsOf(g)' = VersionsOf(g)
    BY <2>1 DEF VersionsOf
  <2>6. Provenance'
    BY <1>2, <1>3, <2>1, MarkerAssumption DEF Provenance, Uncreated, InFlight, TypeOK
  <2>7. PurgeTypeOK' /\ CommandSafe'
    BY <1>1, <1>2, <1>3, <2>1, MarkerAssumption DEF CommandSafe, Uncreated, purgeVars
  <2>8. LockDiscipline'
    <3>1. \A w \in Uploads \ {u} : lock[w] # f
      BY DEF LockedByOther
    <3>2. \A w \in Uploads : lock'[w] # None =>
            w # u /\ lock[w] \in Uploads \ {f} /\ RefOf(lock[w])' = RefOf(lock[w])
      BY <1>2, <1>3, <2>1, <3>1 DEF RefOf, TypeOK
    <3> QED
      BY <1>2, <1>3, <2>1, <3>2 DEF LockDiscipline, Accepts
  <2>9. MatchedFile'
    BY <1>3, <2>1 DEF MatchedFile
  <2>10. WinnersMoveOn'
    <3> SUFFICES ASSUME NEW w \in Uploads, pc'[w] = "done", pre[w].ifMatch \in Uploads
                 PROVE  current'[target[w]] # pre[w].ifMatch
      BY DEF WinnersMoveOn
    <3>1. pre[w].ifMatch # u /\ target[w] \in Uploads
      BY <1>2 DEF MatchedFile, TypeOK
    <3>2. CASE target[w] = f
      BY <2>1, <3>1, <3>2
    <3>3. CASE target[w] # f
      BY <1>3, <2>1, <3>1, <3>3 DEF WinnersMoveOn
    <3> QED
      BY <3>2, <3>3
  <2>11. OneWinnerPerVersion'
    <3> SUFFICES ASSUME NEW w \in Uploads, w # u, pc[w] = "done",
                        pre[u].ifMatch \in Uploads, pre[w].ifMatch = pre[u].ifMatch
                 PROVE  FALSE
      BY <1>3 DEF OneWinnerPerVersion
    <3>1. current[f] = pre[w].ifMatch
      BY <1>2, <1>5, AtCommitBeside
    <3>2. target[w] = f
      BY DEF MatchedFile
    <3> QED
      BY <3>1, <3>2 DEF WinnersMoveOn
  <2>12. OneActivePerName'
    BY DEF OneActivePerName
  <2>13. NumbersBounded'
    <3>1. PICK b \in Nat : \A v \in versions : number[v] <= b
      BY DEF NumbersBounded
    <3>2. b + number[u] \in Nat /\ \A v \in versions \cup {u} : number[v] <= b + number[u]
      BY <3>1 DEF TypeOK
    <3> QED
      BY <2>1, <3>2 DEF NumbersBounded
  <2>14. PointerCommitted'
    BY <1>2, <1>3, <2>1, MarkerAssumption DEF PointerCommitted, TypeOK
  <2>15. GoneForGood'
    <3>1. f \notin gone
      BY <1>5 DEF InsertRefused, NoParent, GoneForGood
    <3> QED
      BY <2>1, <2>5, <3>1 DEF GoneForGood, purgeVars
  <2>16. OthersNewest'
    <3>1. f \notin hit => \A v \in VersionsOf(f) : number[v] < number[u]
      BY <2>4 DEF VersionsOf, Provenance, TypeOK
    <3> QED
      BY <1>2, <2>1, <2>5, <3>1, MarkerAssumption DEF OthersNewest, purgeVars
  <2>17. OthersNumbered'
    <3> SUFFICES ASSUME NEW w \in Uploads, pc'[w] = "numbered", target[w] \notin hit
                 PROVE  \/ number[w] = TopNumber(target[w])' + 1
                        \/ \E v \in VersionsOf(target[w])' : number[v] = number[w] /\ v \notin old
      BY DEF OthersNumbered, purgeVars
    <3>1. w # u /\ pc[w] = "numbered" /\ target[w] \in Uploads
      BY <1>3, <2>1 DEF TypeOK
    <3>2. CASE target[w] # f
      BY <2>1, <2>5, <3>1, <3>2 DEF OthersNumbered, TopNumber
    <3>3. CASE target[w] = f
      BY <2>2, <2>3, <2>5, <3>1, <3>3 DEF OthersNumbered
    <3> QED
      BY <3>2, <3>3
  <2>18. OthersTop'
    BY <1>2, <1>3, <2>1, <2>4, MarkerAssumption DEF OthersTop, TypeOK, purgeVars
  <2>19. PruneSpares'
    BY <1>2, <2>1, <2>2, MarkerAssumption DEF PruneSpares, TypeOK, purgeVars
  <2>20. GcSafe' /\ BytesFirst'
    BY <1>3, <2>1 DEF GcSafe, BytesFirst
  <2>21. OthersReadable'
    BY <1>2, <2>1, <2>5 DEF OthersReadable, BytesFirst, purgeVars
  <2>22. BytesOnlyUnderGone'
    BY <1>3, <2>1 DEF BytesOnlyUnderGone, TypeOK, purgeVars
  <2> QED
    BY <2>6, <2>7, <2>8, <2>9, <2>10, <2>11, <2>12, <2>13, <2>14, <2>15, <2>16, <2>17, <2>18,
       <2>19, <2>20, <2>21, <2>22
<1> QED
  BY <1>4, <1>5

LEMMA StutterKeepsPInv == PInv /\ UNCHANGED allVars => PInv'
<1> SUFFICES ASSUME PInv, UNCHANGED allVars PROVE PInv'
  OBVIOUS
<1> USE DEF PInv, allVars, vars, purgeVars, uploadVars, tableVars, diskVars, dateVars, gcVars, pruneVars
<1>1. PurgeTypeOK'
  BY DEF PurgeTypeOK, TypeOK
<1>2. CommandSafe' /\ GcSafe' /\ PruneSpares' /\ (pruned' # None => pc[pruned'] = "done")
  BY DEF CommandSafe, GcSafe, PruneSpares, Provenance
<1> QED
  BY <1>1, <1>2, BatchFrame

\* Every step, of the server, the batches or the command, keeps the inductive
\* invariant.
LEMMA StepKeepsPInv == PInv /\ [PurgeNext]_allVars => PInv'
<1> SUFFICES ASSUME PInv, [PurgeNext]_allVars PROVE PInv'
  OBVIOUS
<1>1. CASE UNCHANGED allVars
  BY <1>1, StutterKeepsPInv
<1>2. CASE PurgeStep
  BY <1>2, PurgeListStep, PurgeRemoveStep, PurgeRowStep, PurgeFileStep, PurgeFailStep
     DEF PurgeStep, PurgeRun
<1>3. CASE Next /\ UNCHANGED purgeVars
  <2>1. ASSUME NEW u \in Uploads, UploadStep(u) PROVE PInv'
    BY <1>3, <2>1, UploadStartBeside, WriteTempBeside, FinalizeBeside, EnsureFileRowBeside,
       WaitBeside, RecheckBeside, NumberVersionBeside, CommitVersionBeside, FailBeside DEF UploadStep, Serve
  <2>2. ASSUME NEW f \in Uploads, Delete(f) \/ Restore(f) \/ AgeTrash(f) \/ AgeVersion(f)
        PROVE  PInv'
    BY <1>3, <2>2, TrashBeside, AgeBeside
  <2>3. CASE GcStep
    BY <1>3, <2>3, GcScanBeside, GcListBeside, GcRemoveBeside, GcPurgeBeside, GcFailBeside
       DEF GcStep, GcRun
  <2>4. CASE PruneStep
    BY <1>3, <2>4, PruneScanBeside, PruneRemoveBeside, PruneDeleteBeside, PruneFailBeside
       DEF PruneStep, PruneRun
  <2>5. CASE PoolUsedUp
    BY <1>3, <2>5, StutterKeepsPInv DEF PoolUsedUp, allVars
  <2> QED
    BY <1>3, <2>1, <2>2, <2>3, <2>4, <2>5 DEF Next
<1> QED
  BY <1>1, <1>2, <1>3 DEF PurgeNext
-----------------------------------------------------------------------------
(***************************************************************************)
(* The results.                                                            *)
(***************************************************************************)

\* The inductive invariant holds in every state of the server, its batches and
\* the command together.
THEOREM PurgeInvariance == PurgeSpec => []PInv
<1>1. Init /\ PurgeInit => PInv
  BY InitEstablishesPInv
<1>2. PInv /\ [PurgeNext]_allVars => PInv'
  BY StepKeepsPInv
<1> QED
  BY <1>1, <1>2, PTL DEF PurgeSpec

\* Every variable keeps its type although runForcePurge deletes the row of the
\* highest number: MAX(version_number) + 1 stays a natural.
THEOREM PurgeTypeCorrect == PurgeSpec => []PurgeTypeOK
<1>1. PInv => PurgeTypeOK
  BY DEF PInv
<1> QED
  BY <1>1, PurgeInvariance, PTL

\* A file whose row runForcePurge deleted never comes back: the foreign key refuses
\* the version of an upload under way, a restore and both batches find no row.
THEOREM GoneIsGone == PurgeSpec => []GoneForGood
<1>1. PInv => GoneForGood
  BY DEF PInv, PurgeTablesInv
<1> QED
  BY <1>1, PurgeInvariance, PTL

\* Every file the command was not called for keeps its pointer, on the highest
\* number of its rows, and the bytes behind it.
THEOREM OthersKeepVersions == PurgeSpec => []OthersUntouched
<1>1. PInv => OthersUntouched
  <2> SUFFICES ASSUME PInv, NEW f \in Uploads \ hit, current[f] # None
               PROVE  /\ current[f] \in VersionsOf(f)
                      /\ \A v \in VersionsOf(f) : number[v] <= number[current[f]]
                      /\ current[f] \in store \cup claimed
    BY DEF OthersUntouched
  <2>1. /\ current[f] \in VersionsOf(f)
        /\ \A v \in VersionsOf(f) : v # current[f] => number[v] < number[current[f]]
    BY DEF PInv, PurgeTablesInv, OthersNewest
  <2>2. \A v \in VersionsOf(f) : number[v] \in Nat
    BY DEF PInv, PurgeTypeOK, TypeOK, VersionsOf
  <2> QED
    BY <2>1, <2>2 DEF PInv, OthersReadable
<1> QED
  BY <1>1, PurgeInvariance, PTL

\* Bytes of a confirmed upload stay without a row under no file but those the
\* command was called for: gc and prune take bytes first, and PurgeFile cascades
\* to its own file only.
THEOREM OnlyErasedLeaveBytes == PurgeSpec => []BytesOnlyUnderGone
<1>1. PInv => BytesOnlyUnderGone
  BY DEF PInv
<1> QED
  BY <1>1, PurgeInvariance, PTL

\* The command does not disturb optimistic concurrency, not even in the file it
\* erases: of the uploads that send one If-Match, one at most succeeds.
THEOREM PurgeKeepsOneWinner == PurgeSpec => []OneWinnerPerVersion
<1>1. PInv => OneWinnerPerVersion
  BY DEF PInv, PurgeTablesInv
<1> QED
  BY <1>1, PurgeInvariance, PTL

\* Nor the names: the row it deletes frees its name, and no two active rows share
\* one.
THEOREM PurgeKeepsNamesUnique == PurgeSpec => []OneActivePerName
<1>1. PInv => OneActivePerName
  BY DEF PInv, PurgeTablesInv
<1> QED
  BY <1>1, PurgeInvariance, PTL

\* The command moves no request.
LEMMA PurgeLeavesUploads == PurgeStep => UNCHANGED uploadVars
BY DEF PurgeStep, PurgeRun, PurgeList, PurgeRemove, PurgeRow, PurgeFile, PurgeFail, vars

LEMMA OnlyCommitVersionCommitsBeside ==
    ASSUME PurgeTypeOK, [PurgeNext]_allVars, NEW u \in Uploads, Commits(u)
    PROVE  CommitVersion(u)
<1>1. ~UNCHANGED pc
  BY DEF Commits
<1>2. ~PurgeStep /\ ~UNCHANGED allVars
  BY <1>1, PurgeLeavesUploads DEF uploadVars, allVars, vars
<1>3. Next
  BY <1>2 DEF PurgeNext
<1> QED
  BY <1>3, OnlyCommitVersionCommits DEF PurgeTypeOK

\* An upload with If-Match: v that succeeds beside the command replaces v, in a
\* file in use: the command waits for the row the upload has locked, and the rows
\* it took are no obstacle.
THEOREM PurgeLosesNoUpdate == PurgeSpec => IfMatchReplacesThatVersion
<1>1. ASSUME PInv, [PurgeNext]_allVars,
             NEW u \in Uploads, Commits(u), pre[u].ifMatch \in Uploads
      PROVE  state[target[u]] = "active" /\ current[target[u]] = pre[u].ifMatch
  <2>1. CommitVersion(u)
    BY <1>1, OnlyCommitVersionCommitsBeside DEF PInv
  <2>2. ~InsertRefused(target[u], number[u])
    BY <1>1, <2>1 DEF CommitVersion, Commits, PInv, PurgeTypeOK, TypeOK
  <2> QED
    BY <1>1, <2>1, <2>2, AtCommitBeside DEF CommitVersion
<1>2. PInv /\ [PurgeNext]_allVars =>
        [\A u \in Uploads :
            Commits(u) /\ pre[u].ifMatch \in Uploads =>
                /\ state[target[u]] = "active"
                /\ current[target[u]] = pre[u].ifMatch]_vars
  BY <1>1
<1> QED
  BY <1>2, PurgeInvariance, PTL DEF PurgeSpec, IfMatchReplacesThatVersion

\* A file the command was not called for never points to an older number, nor to
\* nothing: no number falls but under the file that is erased.
THEOREM OthersPointersAdvance == PurgeSpec => OthersAdvance
<1>1. ASSUME PInv, [PurgeNext]_allVars, NEW f \in Uploads \ hit, current'[f] # current[f]
      PROVE  /\ current'[f] # None
             /\ current[f] # None => number'[current'[f]] > number[current[f]]
  <2>1. ~PurgeStep
    <3>1. ASSUME PurgeStep PROVE current'[f] = current[f]
      <4>1. CASE PurgeFile
        BY <1>1, <4>1 DEF PurgeFile, PInv, PurgeTypeOK, TypeOK, CommandSafe
      <4>2. CASE ~PurgeFile
        BY <3>1, <4>2 DEF PurgeStep, PurgeRun, PurgeList, PurgeRemove, PurgeRow, PurgeFail, vars,
           tableVars
      <4> QED
        BY <4>1, <4>2
    <3> QED
      BY <1>1, <3>1
  <2>2. [Next]_vars /\ current' # current
    BY <1>1, <2>1 DEF PurgeNext, allVars
  <2>3. PICK u \in Uploads : CommitVersion(u)
    BY <2>2, OnlyCommitVersionMovesPointers
  <2>4. /\ ~InsertRefused(target[u], number[u])
        /\ current' = [current EXCEPT ![target[u]] = u]
        /\ pc[u] = "numbered" /\ number' = number
    BY <2>2, <2>3 DEF CommitVersion
  <2>5. f = target[u] /\ current'[f] = u
    BY <1>1, <2>4 DEF PInv, PurgeTypeOK, TypeOK
  <2>6. number[u] = TopNumber(f) + 1
    BY <1>1, <2>4, <2>5, AtCommitBeside
  <2>7. TopNumber(f) \in Nat
    BY <1>1, NextOfOthers DEF PInv, PurgeTypeOK, PurgeTablesInv
  <2> QED
    BY <2>4, <2>5, <2>6, <2>7, MarkerAssumption DEF TopNumber
<1>2. PInv /\ [PurgeNext]_allVars =>
        [\A f \in Uploads \ hit :
            current'[f] # current[f] =>
                /\ current'[f] # None
                /\ current[f] # None => number'[current'[f]] > number[current[f]]]_allVars
  BY <1>1
<1> QED
  BY <1>2, PurgeInvariance, PTL DEF PurgeSpec, OthersAdvance

\* The lock of an upload is on the file it writes to also while the command deletes
\* rows and frees their names and paths.
THEOREM PurgeLocksWhatItWrites == PurgeSpec => []LocksItsTarget
<1>1. Init /\ PurgeInit => FoundByHash
  BY InitFound
<1>2. PInv /\ FoundByHash /\ [PurgeNext]_allVars => FoundByHash'
  <2>1. PurgeStep /\ FoundByHash => FoundByHash'
    BY PurgeLeavesUploads DEF FoundByHash, uploadVars
  <2>2. PInv /\ FoundByHash /\ [Next]_vars => FoundByHash'
    BY FoundByHashStep DEF PInv, PurgeTypeOK, PurgeTablesInv
  <2> QED
    BY <2>1, <2>2 DEF PurgeNext, allVars
<1>3. PInv /\ FoundByHash => LocksItsTarget
  BY FoundApart DEF PInv, PurgeTypeOK, PurgeTablesInv
<1> QED
  BY <1>1, <1>2, <1>3, PurgeInvariance, PTL DEF PurgeSpec

\* No upload waits for the row of another that waits for its own, nor for one of the
\* command, which holds no row between its statements.
THEOREM PurgeNoCircularWait == PurgeSpec => []HoldersNeverWait
<1>1. PInv /\ LocksItsTarget => HoldersNeverWait
  BY LockedIsInUse DEF PInv, PurgeTypeOK, PurgeTablesInv
<1> QED
  BY <1>1, PurgeInvariance, PurgeLocksWhatItWrites, PTL

\* Nor does a row the command deletes and another upload makes again let an upload
\* overwrite what its preconditions refuse.
THEOREM PurgeOverwritesAsAsked == PurgeSpec => PreconditionsHoldAtCommit
<1>1. ASSUME PInv, LocksItsTarget, NEW u \in Uploads, Commits(u), target[u] # u,
             state[target[u]] = "active"
      PROVE  Accepts(target[u], pre[u]) \/ SpelledApart(lock[u], target[u])
  BY <1>1, AcceptedAtCommit DEF PInv, PurgeTypeOK, PurgeTablesInv, Commits
<1>2. PInv /\ LocksItsTarget =>
        [\A u \in Uploads :
            Commits(u) /\ target[u] # u /\ state[target[u]] = "active" =>
                Accepts(target[u], pre[u]) \/ SpelledApart(lock[u], target[u])]_vars
  BY <1>1
<1> QED
  BY <1>2, PurgeInvariance, PurgeLocksWhatItWrites, PTL DEF PurgeSpec, PreconditionsHoldAtCommit
=============================================================================
