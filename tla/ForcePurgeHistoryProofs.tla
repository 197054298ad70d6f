---------------------- MODULE ForcePurgeHistoryProofs ----------------------
(***************************************************************************)
(* The write side with the administrator's command implements              *)
(* ErasableHistory, for any number of uploads, paths and faults.  The      *)
(* argument is that of FileStoreHistoryProofs, on the invariant of         *)
(* ForcePurgeProofs: chains are known of the files no command was started  *)
(* for, and of the others nothing is claimed of chains.                    *)
(***************************************************************************)
EXTENDS ForcePurgeProofs, ForcePurgeHistory, FileStoreHistoryProofs

\* LinkedNumbers, of the files no command was started for.
OthersLinked ==
    /\ \A v, w \in Uploads :
          /\ pc[v] = "done" /\ pc[w] = "done"
          /\ target[v] = target[w] /\ number[v] = number[w]
          /\ target[v] \notin hit
          => v = w
    /\ \A v \in Uploads :
          pc[v] = "done" /\ target[v] \notin hit /\ Earlier(v) # {} =>
              \E w \in Earlier(v) : \A x \in Earlier(v) : number[x] <= number[w]

PHInv == PInv /\ OthersLinked
-----------------------------------------------------------------------------
(***************************************************************************)
(* Chains.                                                                 *)
(***************************************************************************)

OthersBefore ==
    \A v, w \in Uploads : target[v] \notin hit /\ IsBefore(v, w) => Before(v) = w

LEMMA OthersBeforeIs == PHInv => OthersBefore
<1> SUFFICES ASSUME PHInv, NEW v \in Uploads, NEW w \in Uploads, target[v] \notin hit,
                    IsBefore(v, w)
             PROVE  Before(v) = w
  BY DEF OthersBefore
<1> USE DEF IsBefore
<1> DEFINE Last(y) == \A x \in Earlier(v) : number[x] <= number[y]
<1>1. ASSUME NEW y \in Earlier(v), Last(y) PROVE y = w
  <2> HIDE DEF PHInv, Last
  <2>1. number \in [Uploads -> Nat]
    BY DEF PHInv, PInv, PurgeTypeOK, TypeOK
  <2>2. /\ y \in Uploads /\ target[y] = target[v]
        /\ w \in Uploads /\ target[w] = target[v]
    BY DEF Earlier
  <2>3. number[y] <= number[w] /\ number[w] <= number[y]
    BY <1>1 DEF Last
  <2>4. number[y] = number[w] /\ target[y] = target[w]
    BY <2>1, <2>2, <2>3
  <2> QED
    BY <2>2, <2>4 DEF PHInv, OthersLinked, Earlier
<1>2. (CHOOSE y \in Earlier(v) : Last(y)) = w
  BY <1>1
<1>3. Before(v) = CHOOSE y \in Earlier(v) : Last(y)
  BY Zenon DEF Before
<1> QED
  BY <1>2, <1>3, Zenon

LEMMA OthersBeforeIsNext == PHInv' => OthersBefore'
BY OthersBeforeIs, PTL

\* A step in which nothing commits keeps every chain, but for those of the files
\* that come under erasure in it.
LEMMA LinksStay ==
    ASSUME PHInv, PInv', NothingCommits, hit \subseteq hit'
    PROVE  /\ PHInv' /\ file' = file
           /\ linked' = [v \in Uploads |-> IF file[v] \in hit' THEN None ELSE linked[v]]
           /\ hit' = hit => linked' = linked
<1>1. \A v \in Uploads : pc[v] = "done" => Earlier(v)' = Earlier(v)
  BY EarlierStays
<1>2. \A v \in Uploads : \A x \in Earlier(v) : x \in Uploads /\ pc[x] = "done"
  BY DEF Earlier
<1>3. OthersLinked'
  <2>1. \A v, w \in Uploads :
          /\ pc'[v] = "done" /\ pc'[w] = "done"
          /\ target'[v] = target'[w] /\ number'[v] = number'[w]
          /\ target'[v] \notin hit'
          => v = w
    BY DEF NothingCommits, PHInv, OthersLinked
  <2>2. ASSUME NEW v \in Uploads, pc'[v] = "done", target'[v] \notin hit', Earlier(v)' # {}
        PROVE  \E w \in Earlier(v)' : \A x \in Earlier(v)' : number'[x] <= number'[w]
    <3>1. pc[v] = "done" /\ target[v] \notin hit /\ Earlier(v)' = Earlier(v)
      BY <1>1, <2>2 DEF NothingCommits
    <3>2. PICK w \in Earlier(v) : \A x \in Earlier(v) : number[x] <= number[w]
      BY <2>2, <3>1 DEF PHInv, OthersLinked
    <3> QED
      BY <1>2, <3>1, <3>2 DEF NothingCommits
  <2> QED
    BY <2>1, <2>2 DEF OthersLinked
<1>4. PHInv'
  BY <1>3 DEF PHInv
<1>5. ASSUME NEW v \in Uploads, pc[v] = "done", target[v] \notin hit' PROVE Before(v)' = Before(v)
  <2>1. CASE Earlier(v) = {}
    BY <1>1, <1>5, <2>1 DEF Before, NothingCommits
  <2>2. CASE Earlier(v) # {}
    <3>1. PICK w \in Earlier(v) : \A x \in Earlier(v) : number[x] <= number[w]
      BY <1>5, <2>2 DEF PHInv, OthersLinked
    <3>2. w \in Uploads /\ Before(v) = w
      BY <1>2, <1>5, <3>1, OthersBeforeIs DEF IsBefore, OthersBefore
    <3>3. IsBefore(v, w)' /\ target'[v] \notin hit'
      BY <1>1, <1>2, <1>5, <3>1 DEF NothingCommits, IsBefore
    <3>4. Before(v)' = w
      BY <1>4, <3>2, <3>3, OthersBeforeIsNext DEF OthersBefore
    <3> QED
      BY <3>2, <3>4
  <2> QED
    BY <2>1, <2>2
<1>6. ASSUME NEW v \in Uploads
      PROVE  /\ FileOf(v)' = FileOf(v)
             /\ Linked(v)' = IF FileOf(v) \in hit' THEN None ELSE Linked(v)
  <2>1. None \notin hit'
    BY MarkerAssumption DEF PInv, PurgeTypeOK
  <2>2. CASE pc[v] # "done"
    BY <2>1, <2>2 DEF NothingCommits, FileOf, Linked, Before
  <2>3. CASE pc[v] = "done" /\ target[v] \in hit'
    BY <2>3 DEF NothingCommits, FileOf, Linked
  <2>4. CASE pc[v] = "done" /\ target[v] \notin hit'
    BY <1>5, <2>4 DEF NothingCommits, FileOf, Linked
  <2> QED
    BY <2>2, <2>3, <2>4
<1>7. file' = file
  BY <1>6 DEF file
<1>8. linked' = [v \in Uploads |-> IF file[v] \in hit' THEN None ELSE linked[v]]
  BY <1>6 DEF linked, file
<1>9. ASSUME hit' = hit, NEW v \in Uploads PROVE Linked(v)' = Linked(v)
  <2>1. FileOf(v) \in hit => Linked(v) = None
    BY MarkerAssumption DEF FileOf, Linked, PHInv, PInv, PurgeTypeOK
  <2> QED
    BY <1>6, <1>9, <2>1
<1>10. hit' = hit => linked' = linked
  BY <1>9 DEF linked
<1> QED
  BY <1>4, <1>7, <1>8, <1>10
-----------------------------------------------------------------------------
(***************************************************************************)
(* Steps of one upload, as ErasableHistory sees them.                      *)
(***************************************************************************)

SimulatedBeside == PHInv' /\ [Erasable!ErasableNext]_(Erasable!erasableVars)

\* A step of the upload u that commits nothing and touches no table changes at
\* most the answer to u.
LEMMA AnswerBeside ==
    ASSUME PHInv, PInv', NEW u \in Uploads,
           \A w \in Uploads : w # u =>
               pc'[w] = pc[w] /\ target'[w] = target[w] /\ number'[w] = number[w],
           pc[u] # "done", pc'[u] # "done", UNCHANGED <<pre, hit>>
    PROVE  /\ PHInv' /\ linked' = linked /\ file' = file /\ basis' = basis
           /\ answer' = [answer EXCEPT ![u] = AnswerOf(u)']
<1>1. NothingCommits
  BY DEF NothingCommits
<1>2. \A w \in Uploads : w # u => AnswerOf(w)' = AnswerOf(w)
  BY DEF AnswerOf
<1>3. answer' = [answer EXCEPT ![u] = AnswerOf(u)']
  BY <1>2 DEF answer
<1>4. basis' = basis
  BY DEF basis, BasisOf
<1> QED
  BY <1>1, <1>3, <1>4, LinksStay

\* An upload that goes on, in flight before and after, is no step.
LEMMA GoesOnBeside ==
    ASSUME PHInv, PInv', NEW u \in Uploads,
           \A w \in Uploads : w # u =>
               pc'[w] = pc[w] /\ target'[w] = target[w] /\ number'[w] = number[w],
           pc[u] \in InFlight, pc'[u] \in InFlight, UNCHANGED <<pre, tableVars, hit>>
    PROVE  SimulatedBeside
<1>1. pc[u] # "done" /\ pc'[u] # "done"
  BY DEF InFlight
<1>2. AnswerOf(u)' = "pending" /\ answer[u] = "pending"
  BY Answers, AnswersNext DEF AnswerTable
<1>3. /\ PHInv' /\ linked' = linked /\ file' = file /\ basis' = basis
      /\ answer' = [answer EXCEPT ![u] = AnswerOf(u)']
  BY <1>1, AnswerBeside
<1>4. answer' = answer
  BY <1>2, <1>3 DEF answer
<1>5. UNCHANGED Erasable!erasableVars
  BY <1>3, <1>4 DEF Erasable!erasableVars, Erasable!vars, tableVars
<1> QED
  BY <1>3, <1>5 DEF SimulatedBeside

\* An upload that ends without a commit is declined.
LEMMA DeclineBeside ==
    ASSUME PHInv, PInv', NEW u \in Uploads,
           \A w \in Uploads : w # u =>
               pc'[w] = pc[w] /\ target'[w] = target[w] /\ number'[w] = number[w],
           pc[u] \in {"idle"} \cup InFlight, pc'[u] \in {"refused", "failed"},
           UNCHANGED <<pre, tableVars, hit>>
    PROVE  SimulatedBeside
<1>1. pc[u] # "done" /\ pc'[u] # "done"
  BY DEF InFlight
<1>2. AnswerOf(u)' = "declined" /\ answer[u] \in {"none", "pending"}
  BY Answers, AnswersNext DEF AnswerTable
<1>3. /\ PHInv' /\ linked' = linked /\ file' = file /\ basis' = basis
      /\ answer' = [answer EXCEPT ![u] = AnswerOf(u)']
  BY <1>1, AnswerBeside
<1>4. Erasable!Decline(u)
  BY <1>2, <1>3, Zenon DEF Erasable!Decline, tableVars
<1> QED
  BY <1>3, <1>4 DEF SimulatedBeside, Erasable!ErasableNext, Erasable!AsBefore

\* A step that changes tables but no upload.
LEMMA TableBeside ==
    ASSUME PHInv, PInv', UNCHANGED <<uploadVars, hit>>
    PROVE  PHInv' /\ UNCHANGED <<basis, answer, linked, file>>
<1>1. NothingCommits
  BY DEF NothingCommits, uploadVars
<1>2. answer' = answer /\ basis' = basis
  BY DEF answer, AnswerOf, basis, BasisOf, uploadVars
<1> QED
  BY <1>1, <1>2, LinksStay

\* A step that leaves uploads and tables alone is no step.
LEMMA QuietBeside ==
    ASSUME PHInv, PInv', UNCHANGED <<uploadVars, tableVars, hit>>
    PROVE  SimulatedBeside
<1>1. PHInv' /\ UNCHANGED Erasable!erasableVars
  BY TableBeside DEF Erasable!erasableVars, Erasable!vars, tableVars
<1> QED
  BY <1>1 DEF SimulatedBeside
-----------------------------------------------------------------------------
(***************************************************************************)
(* One lemma per action.                                                   *)
(***************************************************************************)

\* An upload that passes the preflight asks; one that does not is declined.
LEMMA PreflightBesideSimulated ==
    ASSUME PHInv, PInv', NEW u \in Uploads, NEW p, NEW q, Preflight(u, p, q), UNCHANGED hit,
           q.ifMatch \in {None, Star} \cup {v \in Uploads : pc[v] = "done"}
    PROVE  SimulatedBeside
<1> USE DEF Preflight
<1>1. CASE pc' = [pc EXCEPT ![u] = "refused"] /\ UNCHANGED <<path, pre, target>>
  <2>1. pc[u] = "idle" /\ pc'[u] = "refused" /\ \A w \in Uploads : w # u => pc'[w] = pc[w]
    BY <1>1 DEF PHInv, PInv, PurgeTypeOK, TypeOK
  <2> QED
    BY <1>1, <2>1, DeclineBeside
<1>2. CASE \E f : /\ pc' = [pc EXCEPT ![u] = "accepted"]
                  /\ pre' = [pre EXCEPT ![u] = q]
                  /\ target' = [target EXCEPT ![u] = f]
  <2>1. /\ pc[u] = "idle" /\ pc'[u] = "accepted" /\ pre'[u] = q
        /\ \A w \in Uploads : w # u => pc'[w] = pc[w] /\ pre'[w] = pre[w] /\ target'[w] = target[w]
    BY <1>2 DEF PHInv, PInv, PurgeTypeOK, TypeOK
  <2>2. NothingCommits
    BY <2>1 DEF NothingCommits
  <2>3. PHInv' /\ linked' = linked /\ file' = file
    BY <2>2, LinksStay
  <2>4. answer[u] = "none" /\ AnswerOf(u)' = "pending"
    BY <2>1, Answers, AnswersNext DEF AnswerTable, InFlight
  <2>5. answer' = [answer EXCEPT ![u] = "pending"]
    <3>1. \A w \in Uploads : w # u => AnswerOf(w)' = AnswerOf(w)
      BY <2>1 DEF AnswerOf
    <3> QED
      BY <2>4, <3>1 DEF answer
  <2>6. PICK b : b = BasisOf(u)'
    OBVIOUS
  <2>7. b \in {None} \cup {w \in Uploads : answer[w] = "saved"}
    BY <2>1, <2>6, Answers DEF BasisOf
  <2>8. basis' = [basis EXCEPT ![u] = b]
    BY <2>1, <2>6 DEF basis, BasisOf
  <2>9. Erasable!Ask(u)
    BY <2>3, <2>4, <2>5, <2>7, <2>8 DEF Erasable!Ask, tableVars
  <2> QED
    BY <2>3, <2>9 DEF SimulatedBeside, Erasable!ErasableNext, Erasable!AsBefore
<1> QED
  BY <1>1, <1>2

LEMMA UploadBesideSimulated ==
    ASSUME PHInv, PInv', NEW u \in Uploads, Upload(u) \/ SaveAsCopy(u), UNCHANGED hit
    PROVE  SimulatedBeside
<1>1. CASE Upload(u)
  <2>1. PICK p \in Paths, q \in ClientPreconditions : Preflight(u, p, q)
    BY <1>1 DEF Upload
  <2>2. q.ifMatch \in {None, Star} \cup {v \in Uploads : pc[v] = "done"}
    BY DEF ClientPreconditions
  <2> QED
    BY <2>1, <2>2, PreflightBesideSimulated
<1>2. CASE SaveAsCopy(u)
  <2>1. PICK p, q : Preflight(u, p, q) /\ q = [ifMatch |-> None, ifNoneMatch |-> Star]
    BY <1>2 DEF SaveAsCopy
  <2> QED
    BY <2>1, PreflightBesideSimulated
<1> QED
  BY <1>1, <1>2

\* Storing the body and numbering the version are invisible.
LEMMA StageBesideSimulated ==
    ASSUME PHInv, PInv', NEW u \in Uploads, WriteTemp(u) \/ Finalize(u) \/ Wait(u) \/ NumberVersion(u),
           UNCHANGED hit
    PROVE  SimulatedBeside
<1>1. /\ pc[u] \in InFlight /\ pc'[u] \in InFlight /\ UNCHANGED <<pre, tableVars>>
      /\ \A w \in Uploads : w # u =>
            pc'[w] = pc[w] /\ target'[w] = target[w] /\ number'[w] = number[w]
  BY DEF WriteTemp, Finalize, Wait, NumberVersion, PHInv, PInv, PurgeTypeOK, TypeOK, InFlight
<1> QED
  BY <1>1, GoesOnBeside

\* So is taking the lock; a second evaluation that fails declines.
LEMMA RecheckBesideSimulated ==
    ASSUME PHInv, PInv', NEW u \in Uploads, Recheck(u), UNCHANGED hit
    PROVE  SimulatedBeside
<1>1. /\ pc[u] \in {"stored", "waiting"} /\ pc'[u] \in {"ready", "refused", "failed"}
      /\ UNCHANGED <<pre, target, number, tableVars>>
      /\ \A w \in Uploads : w # u => pc'[w] = pc[w]
  BY DEF Recheck, PHInv, PInv, PurgeTypeOK, TypeOK
<1>2. CASE pc'[u] = "ready"
  BY <1>1, <1>2, GoesOnBeside DEF InFlight
<1>3. CASE pc'[u] \in {"refused", "failed"}
  BY <1>1, <1>3, DeclineBeside DEF InFlight
<1> QED
  BY <1>1, <1>2, <1>3

LEMMA FailBesideSimulated ==
    ASSUME PHInv, PInv', NEW u \in Uploads, Fail(u), UNCHANGED hit
    PROVE  SimulatedBeside
<1>1. /\ pc[u] \in InFlight /\ pc'[u] = "failed"
      /\ UNCHANGED <<pre, target, number, tableVars>>
      /\ \A w \in Uploads : w # u => pc'[w] = pc[w]
  BY DEF Fail, PHInv, PInv, PurgeTypeOK, TypeOK
<1> QED
  BY <1>1, DeclineBeside

\* The parent row of a new file is a file without a version, that no command has
\* been started for.
LEMMA EnsureFileRowBesideSimulated ==
    ASSUME PHInv, PInv', NEW u \in Uploads, EnsureFileRow(u), UNCHANGED hit
    PROVE  SimulatedBeside
<1>1. /\ pc[u] = "stored" /\ pc'[u] \in {"ready", "failed"}
      /\ UNCHANGED <<pre, target, number, current, versions>>
      /\ \A w \in Uploads : w # u => pc'[w] = pc[w]
  BY DEF EnsureFileRow, PHInv, PInv, PurgeTypeOK, TypeOK
<1>2. CASE NameTaken(path[u])
  <2>1. pc'[u] = "failed" /\ UNCHANGED tableVars
    BY <1>2 DEF EnsureFileRow, tableVars, PHInv, PInv, PurgeTypeOK, TypeOK
  <2> QED
    BY <1>1, <2>1, DeclineBeside DEF InFlight
<1>3. CASE ~NameTaken(path[u])
  <2>1. pc'[u] = "ready" /\ state' = [state EXCEPT ![u] = "active"]
    BY <1>3 DEF EnsureFileRow, PHInv, PInv, PurgeTypeOK, TypeOK
  <2>2. state[u] = "absent" /\ u \notin hit
    BY <1>1 DEF PHInv, PInv, Provenance, CommandSafe, Uncreated
  <2>3. AnswerOf(u)' = "pending" /\ answer[u] = "pending"
    BY <1>1, <2>1, Answers, AnswersNext DEF AnswerTable, InFlight
  <2>4. /\ PHInv' /\ linked' = linked /\ file' = file /\ basis' = basis
        /\ answer' = [answer EXCEPT ![u] = AnswerOf(u)']
    BY <1>1, AnswerBeside
  <2>5. answer' = answer
    BY <2>3, <2>4 DEF answer
  <2>6. Erasable!Create(u)
    BY <1>1, <2>1, <2>2, <2>3, <2>4, <2>5 DEF Erasable!Create, Erasable!Change
  <2> QED
    BY <2>2, <2>4, <2>6 DEF SimulatedBeside, Erasable!ErasableNext, Erasable!AsBefore
<1> QED
  BY <1>2, <1>3

\* The COMMIT is the one step of an upload: the version becomes the end of its
\* chain, after the version its client started from.
LEMMA SaveBesideSimulated ==
    ASSUME PHInv, PInv', NEW u \in Uploads, CommitVersion(u),
           ~InsertRefused(target[u], number[u]), UNCHANGED hit
    PROVE  SimulatedBeside
<1> PICK f \in Uploads : f = target[u]
  BY DEF PHInv, PInv, PurgeTypeOK, TypeOK
<1> USE DEF CommitVersion
<1>1. /\ pc[u] = "numbered" /\ pc'[u] = "done" /\ UNCHANGED <<pre, target, number, state>>
      /\ \A w \in Uploads : w # u => pc'[w] = pc[w]
      /\ versions' = versions \cup {u} /\ current' = [current EXCEPT ![f] = u]
  BY DEF PHInv, PInv, PurgeTypeOK, TypeOK
<1>2. ASSUME f \notin hit
      PROVE  \A w \in Uploads : pc[w] = "done" /\ target[w] = f =>
                 number[w] <= TopNumber(f) /\ number[w] < number[u]
  <2>1. number[u] = TopNumber(f) + 1
    BY <1>1, <1>2, AtCommitBeside DEF PHInv
  <2>2. TopNumber(f) \in Nat
    BY <1>2, NextOfOthers DEF PHInv, PInv, PurgeTypeOK, PurgeTablesInv
  <2>3. number \in [Uploads -> Nat]
    BY DEF PHInv, PInv, PurgeTypeOK, TypeOK
  <2> QED
    BY <1>2, <2>1, <2>2, <2>3 DEF PHInv, PInv, PurgeTablesInv, OthersTop, TopNumber
<1>3. \A v \in Uploads : pc[v] = "done" /\ target[v] \notin hit => Earlier(v)' = Earlier(v)
  <2> SUFFICES ASSUME NEW v \in Uploads, pc[v] = "done", target[v] \notin hit
               PROVE  Earlier(v)' = Earlier(v)
    OBVIOUS
  <2>1. ~(target[u] = target[v] /\ number[u] < number[v])
    BY <1>2 DEF PHInv, PInv, PurgeTypeOK, TypeOK
  <2> QED
    BY <1>1, <2>1 DEF Earlier
<1>4. f \notin hit => Earlier(u)' = {w \in Uploads : pc[w] = "done" /\ target[w] = f}
  BY <1>1, <1>2 DEF Earlier, PHInv, PInv, PurgeTypeOK, TypeOK
<1>5. f \notin hit /\ current[f] # None =>
        /\ current[f] \in Earlier(u)' /\ \A x \in Earlier(u)' : number[x] <= number[current[f]]
  <2> SUFFICES ASSUME f \notin hit, current[f] # None
               PROVE  /\ current[f] \in Earlier(u)'
                      /\ \A x \in Earlier(u)' : number[x] <= number[current[f]]
    OBVIOUS
  <2>1. current[f] \in Uploads /\ pc[current[f]] = "done" /\ target[current[f]] = f
    BY DEF PHInv, PInv, PurgeTypeOK, TypeOK, PurgeTablesInv, PointerCommitted
  <2> QED
    BY <1>2, <1>4, <2>1 DEF TopNumber
<1>6. f \notin hit /\ current[f] = None => Earlier(u)' = {}
  BY <1>4 DEF PHInv, PInv, PurgeTablesInv, OthersTop
<1>7. OthersLinked'
  <2>1. \A v, w \in Uploads :
          /\ pc'[v] = "done" /\ pc'[w] = "done"
          /\ target'[v] = target'[w] /\ number'[v] = number'[w]
          /\ target'[v] \notin hit'
          => v = w
    BY <1>1, <1>2 DEF PHInv, OthersLinked, PInv, PurgeTypeOK, TypeOK
  <2>2. ASSUME NEW v \in Uploads, pc'[v] = "done", target'[v] \notin hit', Earlier(v)' # {}
        PROVE  \E w \in Earlier(v)' : \A x \in Earlier(v)' : number'[x] <= number'[w]
    <3>1. CASE v = u
      BY <1>1, <1>5, <1>6, <2>2, <3>1
    <3>2. CASE v # u
      BY <1>1, <1>3, <2>2, <3>2 DEF PHInv, OthersLinked
    <3> QED
      BY <3>1, <3>2
  <2> QED
    BY <2>1, <2>2 DEF OthersLinked
<1>8. PHInv'
  BY <1>7 DEF PHInv
<1> PICK last : last = current[f]
  OBVIOUS
<1>9. f \notin hit => Before(u)' = last
  <2>1. CASE f \notin hit /\ last = None
    BY <1>6, <2>1 DEF Before
  <2>2. CASE f \notin hit /\ last # None
    <3>1. last \in Uploads /\ IsBefore(u, last)' /\ target'[u] \notin hit'
      BY <1>1, <1>5, <2>2 DEF IsBefore, PHInv, PInv, PurgeTypeOK, TypeOK
    <3> QED
      BY <1>8, <3>1, OthersBeforeIsNext DEF OthersBefore
  <2> QED
    BY <2>1, <2>2
<1>10. ASSUME NEW v \in Uploads, v # u, target[v] \notin hit PROVE Before(v)' = Before(v)
  <2>1. CASE pc[v] # "done" \/ Earlier(v) = {}
    BY <1>1, <1>3, <1>10, <2>1 DEF Before
  <2>2. CASE pc[v] = "done" /\ Earlier(v) # {}
    <3>1. PICK w \in Earlier(v) : \A x \in Earlier(v) : number[x] <= number[w]
      BY <1>10, <2>2 DEF PHInv, OthersLinked
    <3>2. w \in Uploads /\ IsBefore(v, w) /\ IsBefore(v, w)' /\ target'[v] \notin hit'
      BY <1>1, <1>3, <1>10, <2>2, <3>1 DEF IsBefore, Earlier
    <3> QED
      BY <1>8, <1>10, <3>2, OthersBeforeIs, OthersBeforeIsNext DEF OthersBefore
  <2> QED
    BY <2>1, <2>2
<1> PICK link : link = IF f \in hit THEN None ELSE current[f]
  OBVIOUS
<1>11. linked' = [linked EXCEPT ![u] = link]
  <2>1. Linked(u)' = link
    BY <1>1, <1>9 DEF Linked
  <2>2. \A v \in Uploads : v # u => Linked(v)' = Linked(v)
    BY <1>1, <1>10 DEF Linked
  <2> QED
    BY <2>1, <2>2 DEF linked
<1>12. file' = [file EXCEPT ![u] = f]
  <2>1. FileOf(u)' = f /\ \A v \in Uploads : v # u => FileOf(v)' = FileOf(v)
    BY <1>1 DEF FileOf
  <2> QED
    BY <2>1 DEF file
<1>13. answer[u] = "pending" /\ answer' = [answer EXCEPT ![u] = "saved"] /\ basis' = basis
  <2>1. answer[u] = "pending" /\ AnswerOf(u)' = "saved"
    BY <1>1, Answers, AnswersNext DEF AnswerTable, InFlight
  <2>2. \A w \in Uploads : w # u => AnswerOf(w)' = AnswerOf(w)
    BY <1>1 DEF AnswerOf
  <2> QED
    BY <1>1, <2>1, <2>2 DEF answer, basis, BasisOf
<1>14. state[f] # "absent"
  BY DEF InsertRefused, NoParent
<1>15. basis[u] # None => current[f] = basis[u] /\ state[f] = "active"
  <2> SUFFICES ASSUME basis[u] # None PROVE current[f] = basis[u] /\ state[f] = "active"
    OBVIOUS
  <2>1. basis[u] = pre[u].ifMatch /\ pre[u].ifMatch \in Uploads
    BY DEF basis, BasisOf, PHInv, PInv, PurgeTypeOK, TypeOK, Preconditions
  <2> QED
    BY <1>1, <2>1, AtCommitBeside DEF PHInv
<1>16. Erasable!SaveTo(u, f)
  <2>1. Erasable!SaveIn(u, f, link)
    BY <1>1, <1>11, <1>13, <1>14, <1>15 DEF Erasable!SaveIn
  <2> QED
    BY <1>12, <2>1, Zenon DEF Erasable!SaveTo
<1> QED
  BY <1>8, <1>16 DEF SimulatedBeside, Erasable!ErasableNext

\* A COMMIT that a key refuses declines.
LEMMA CommitBesideSimulated ==
    ASSUME PHInv, PInv', NEW u \in Uploads, CommitVersion(u), UNCHANGED hit
    PROVE  SimulatedBeside
<1>1. CASE InsertRefused(target[u], number[u])
  <2>1. /\ pc[u] = "numbered" /\ pc'[u] = "failed"
        /\ UNCHANGED <<pre, target, number, tableVars>>
        /\ \A w \in Uploads : w # u => pc'[w] = pc[w]
    BY <1>1 DEF CommitVersion, PHInv, PInv, PurgeTypeOK, TypeOK, tableVars
  <2> QED
    BY <2>1, DeclineBeside DEF InFlight
<1> QED
  BY <1>1, SaveBesideSimulated

\* Trash, restore and the end of a gc change the state of one file.
LEMMA TrashBesideSimulated ==
    ASSUME PHInv, PInv', NEW f \in Uploads, Delete(f) \/ Restore(f), UNCHANGED hit
    PROVE  SimulatedBeside
<1>1. PHInv' /\ UNCHANGED <<basis, answer, linked, file>>
  BY TableBeside DEF Delete, Restore
<1>2. CASE Delete(f)
  <2>1. Erasable!Trash(f)
    BY <1>1, <1>2 DEF Delete, Erasable!Trash, Erasable!Change
  <2> QED
    BY <1>1, <2>1 DEF SimulatedBeside, Erasable!ErasableNext, Erasable!AsBefore
<1>3. CASE Restore(f)
  <2>1. Erasable!Restore(f)
    BY <1>1, <1>3 DEF Restore, Erasable!Restore, Erasable!Change
  <2> QED
    BY <1>1, <2>1 DEF SimulatedBeside, Erasable!ErasableNext, Erasable!AsBefore
<1> QED
  BY <1>2, <1>3

LEMMA GcBesideSimulated ==
    ASSUME PHInv, PInv', GcStep, UNCHANGED hit
    PROVE  SimulatedBeside
<1>1. CASE UNCHANGED <<uploadVars, tableVars>>
  BY <1>1, QuietBeside
<1>2. CASE GcPurge /\ state[gcFile] = "trashed"
  <2> PICK f \in Uploads : f = gcFile
    BY <1>2 DEF GcPurge, PHInv, PInv, PurgeTypeOK, TypeOK
  <2>1. PHInv' /\ UNCHANGED <<basis, answer, linked, file>>
    BY <1>2, TableBeside DEF GcPurge
  <2>2. Erasable!Purge(f)
    BY <1>2, <2>1 DEF GcPurge, Erasable!Purge, Erasable!Change
  <2> QED
    BY <2>1, <2>2 DEF SimulatedBeside, Erasable!ErasableNext, Erasable!AsBefore
<1> QED
  BY <1>1, <1>2 DEF GcStep, GcRun, GcScan, GcList, GcRemove, GcFail, GcPurge, tableVars

\* Prune drops a version from the history, never one a file points to, not even in a
\* file whose rows the command is deleting.
LEMMA PruneBesideSimulated ==
    ASSUME PHInv, PInv', PruneStep, UNCHANGED hit
    PROVE  SimulatedBeside
<1>1. CASE UNCHANGED <<uploadVars, tableVars>>
  BY <1>1, QuietBeside
<1>2. CASE PruneDelete
  <2> PICK v \in Uploads : v = pruned
    BY <1>2 DEF PruneDelete, PHInv, PInv, PurgeTypeOK, TypeOK
  <2>1. PHInv' /\ UNCHANGED <<basis, answer, linked, file>>
    BY <1>2, TableBeside DEF PruneDelete
  <2>2. versions' = versions \ {v} /\ UNCHANGED <<state, current>>
    BY <1>2 DEF PruneDelete
  <2>3. CASE v \notin versions
    <3>1. UNCHANGED Erasable!erasableVars
      BY <2>1, <2>2, <2>3 DEF Erasable!erasableVars, Erasable!vars
    <3> QED
      BY <2>1, <3>1 DEF SimulatedBeside
  <2>4. CASE v \in versions
    <3>1. \A f \in Uploads : current[f] # v
      BY <1>2, MarkerAssumption
         DEF PruneDelete, PHInv, PInv, PurgeTablesInv, PruneSpares, PointerCommitted
    <3>2. Erasable!Forget(v)
      BY <2>1, <2>2, <2>4, <3>1 DEF Erasable!Forget
    <3> QED
      BY <2>1, <3>2 DEF SimulatedBeside, Erasable!ErasableNext, Erasable!AsBefore
  <2> QED
    BY <2>3, <2>4
<1> QED
  BY <1>1, <1>2 DEF PruneStep, PruneRun, PruneScan, PruneRemove, PruneFail, tableVars

\* The list of a command is where an erasure begins, or begins again.
LEMMA PurgeListSimulated ==
    ASSUME PHInv, PInv', NEW f \in Uploads, PurgeList(f)
    PROVE  SimulatedBeside
<1>1. /\ state[f] # "absent" /\ hit' = hit \cup {f}
      /\ UNCHANGED <<uploadVars, tableVars>>
  BY DEF PurgeList, vars
<1>2. NothingCommits
  BY <1>1 DEF NothingCommits, uploadVars
<1>3. /\ PHInv' /\ file' = file
      /\ linked' = [v \in Uploads |-> IF file[v] \in hit' THEN None ELSE linked[v]]
  BY <1>1, <1>2, LinksStay
<1>4. answer' = answer /\ basis' = basis
  BY <1>1 DEF answer, AnswerOf, basis, BasisOf, uploadVars
<1>5. ASSUME NEW v \in Uploads, file[v] \in hit PROVE linked[v] = None
  BY <1>5, MarkerAssumption DEF file, FileOf, linked, Linked, PHInv, PInv, PurgeTypeOK
<1>6. ASSUME NEW v \in Uploads
      PROVE  (IF file[v] \in hit' THEN None ELSE linked[v])
               = (IF file[v] = f THEN None ELSE linked[v])
  BY <1>1, <1>5
<1>7. linked' = [v \in Uploads |-> IF file[v] = f THEN None ELSE linked[v]]
  BY <1>3, <1>6
<1>8. Erasable!Condemn(f)
  BY <1>1, <1>3, <1>4, <1>7 DEF Erasable!Condemn, tableVars
<1> QED
  BY <1>3, <1>8 DEF SimulatedBeside, Erasable!ErasableNext

\* The row of a version goes, be it the one the file points to.
LEMMA PurgeRowSimulated ==
    ASSUME PHInv, PInv', PurgeRow
    PROVE  SimulatedBeside
<1>1. taken # None /\ UNCHANGED <<uploadVars, state, current, hit>>
  BY DEF PurgeRow
<1>2. taken \in Uploads /\ file[taken] \in hit
  BY <1>1, MarkerAssumption DEF PHInv, PInv, PurgeTypeOK, CommandSafe, file, FileOf
<1>3. PHInv' /\ UNCHANGED <<basis, answer, linked, file>>
  BY <1>1, TableBeside
<1>4. CASE versions' = versions
  <2>1. UNCHANGED Erasable!erasableVars
    BY <1>1, <1>3, <1>4 DEF Erasable!erasableVars, Erasable!vars
  <2> QED
    BY <1>3, <2>1 DEF SimulatedBeside
<1>5. CASE versions' = versions \ {taken} /\ taken \in versions
  <2>1. Erasable!Lose(taken)
    BY <1>1, <1>2, <1>3, <1>5 DEF Erasable!Lose
  <2> QED
    BY <1>2, <1>3, <2>1 DEF SimulatedBeside, Erasable!ErasableNext
<1> QED
  BY <1>4, <1>5 DEF PurgeRow

\* The row of the file goes, and with it every version of it that is left.
LEMMA PurgeFileSimulated ==
    ASSUME PHInv, PInv', PurgeFile
    PROVE  SimulatedBeside
<1> PICK f \in Uploads : f = victim
  BY DEF PurgeFile, PHInv, PInv, PurgeTypeOK
<1>1. /\ f \in hit /\ UNCHANGED <<uploadVars, hit>>
      /\ state' = [state EXCEPT ![f] = "absent"] /\ current' = [current EXCEPT ![f] = None]
      /\ versions' = versions \ VersionsOf(f)
  BY MarkerAssumption DEF PurgeFile, Cascaded, PHInv, PInv, CommandSafe
<1>2. PHInv' /\ UNCHANGED <<basis, answer, linked, file>>
  BY <1>1, TableBeside
<1>3. \A v \in versions : v \in Uploads /\ file[v] = target[v]
  BY DEF PHInv, PInv, PurgeTypeOK, TypeOK, Provenance, file, FileOf
<1>4. versions' = {v \in versions : file[v] # f}
  BY <1>1, <1>3 DEF VersionsOf
<1>5. Erasable!Vanish(f)
  BY <1>1, <1>2, <1>4 DEF Erasable!Vanish
<1> QED
  BY <1>2, <1>5 DEF SimulatedBeside, Erasable!ErasableNext
-----------------------------------------------------------------------------
(***************************************************************************)
(* The result.                                                             *)
(***************************************************************************)

LEMMA StepSimulatedBeside ==
    ASSUME PHInv, [PurgeNext]_allVars
    PROVE  SimulatedBeside
<1>1. PInv'
  BY StepKeepsPInv DEF PHInv
<1>2. CASE PurgeStep
  <2>1. ASSUME NEW v \in Uploads, PurgeRemove(v) PROVE SimulatedBeside
    BY <1>1, <2>1, QuietBeside DEF PurgeRemove
  <2>2. CASE PurgeFail
    BY <1>1, <2>2, QuietBeside DEF PurgeFail
  <2> QED
    BY <1>1, <1>2, <2>1, <2>2, PurgeListSimulated, PurgeRowSimulated, PurgeFileSimulated
       DEF PurgeStep, PurgeRun
<1>3. CASE UNCHANGED allVars
  BY <1>1, <1>3, QuietBeside DEF allVars, vars, purgeVars, uploadVars, tableVars
<1>4. CASE Next /\ UNCHANGED purgeVars
  <2> USE <1>1
  <2>1. UNCHANGED hit
    BY <1>4 DEF purgeVars
  <2>2. ASSUME NEW u \in Uploads, UploadStep(u) PROVE SimulatedBeside
    BY <2>1, <2>2, UploadBesideSimulated, StageBesideSimulated, RecheckBesideSimulated,
       EnsureFileRowBesideSimulated, CommitBesideSimulated, FailBesideSimulated
       DEF UploadStep, Serve
  <2>3. ASSUME NEW f \in Uploads, Delete(f) \/ Restore(f) PROVE SimulatedBeside
    BY <2>1, <2>3, TrashBesideSimulated
  <2>4. ASSUME NEW f \in Uploads, AgeTrash(f) \/ AgeVersion(f) PROVE SimulatedBeside
    BY <2>1, <2>4, QuietBeside DEF AgeTrash, AgeVersion
  <2>5. CASE PoolUsedUp
    BY <2>1, <2>5, QuietBeside DEF PoolUsedUp, vars, uploadVars, tableVars
  <2> QED
    BY <1>4, <2>1, <2>2, <2>3, <2>4, <2>5, GcBesideSimulated, PruneBesideSimulated DEF Next
<1> QED
  BY <1>2, <1>3, <1>4 DEF PurgeNext

LEMMA InitSimulatedBeside == Init /\ PurgeInit => PHInv /\ Erasable!ErasableInit
<1> SUFFICES ASSUME Init, PurgeInit PROVE PHInv /\ Erasable!ErasableInit
  OBVIOUS
<1>1. PInv
  BY InitEstablishesPInv
<1>2. \A u \in Uploads : pc[u] = "idle" /\ pre[u].ifMatch = None
  BY DEF Init
<1>3. OthersLinked
  BY <1>2 DEF OthersLinked
<1>4. \A u \in Uploads : BasisOf(u) = None /\ AnswerOf(u) = "none"
  BY <1>2, Answers DEF BasisOf
<1>5. \A u \in Uploads : Linked(u) = None /\ FileOf(u) = None
  BY <1>2 DEF Linked, Before, FileOf
<1>6. Erasable!Init
  BY <1>4, <1>5 DEF Erasable!Init, Init, basis, answer, linked
<1>7. Erasable!ErasableInit
  BY <1>5, <1>6 DEF Erasable!ErasableInit, PurgeInit, file
<1> QED
  BY <1>1, <1>3, <1>7 DEF PHInv

\* With runForcePurge taking bytes, rows and at last the file away, at any moment of
\* any upload, restore, gc or prune, every upload still is one atomic step that
\* replaces the version it names or is declined; a file that has vanished stays so,
\* and the chains of the other files are those of VersionHistory.
THEOREM ImplementsErasableHistory == PurgeSpec => ImplementsErasable
<1>1. Init /\ PurgeInit => PHInv /\ Erasable!ErasableInit
  BY InitSimulatedBeside
<1>2. PHInv /\ [PurgeNext]_allVars =>
        PHInv' /\ [Erasable!ErasableNext]_(Erasable!erasableVars)
  BY StepSimulatedBeside DEF SimulatedBeside
<1> QED
  BY <1>1, <1>2, PTL DEF PurgeSpec, ImplementsErasable, Erasable!ErasableSpec
=============================================================================
