----------------------- MODULE FileStoreHistoryProofs -----------------------
(***************************************************************************)
(* FileStore implements VersionHistory, for any number of uploads, paths   *)
(* and faults: the initial state maps to the initial state, and every step *)
(* to a step of VersionHistory or to none.                                 *)
(***************************************************************************)
EXTENDS FileStoreProofs, FileStoreHistory

\* Among all versions ever committed to one file no number occurs twice, and
\* the ones before a version have a last one.
LinkedNumbers ==
    /\ \A v, w \in Uploads :
          /\ pc[v] = "done" /\ pc[w] = "done"
          /\ target[v] = target[w] /\ number[v] = number[w]
          => v = w
    /\ \A v \in Uploads :
          pc[v] = "done" /\ Earlier(v) # {} =>
              \E w \in Earlier(v) : \A x \in Earlier(v) : number[x] <= number[w]

HInv == IInv /\ LinkedNumbers
-----------------------------------------------------------------------------
(***************************************************************************)
(* Chains.                                                                 *)
(***************************************************************************)

\* The link before a version is the one with the highest number below it.
IsBefore(v, w) ==
    /\ pc[v] = "done"
    /\ w \in Earlier(v)
    /\ \A x \in Earlier(v) : number[x] <= number[w]

BeforeIsLast == \A v, w \in Uploads : IsBefore(v, w) => Before(v) = w

LEMMA BeforeIs == HInv => BeforeIsLast
<1> SUFFICES ASSUME HInv, NEW v \in Uploads, NEW w \in Uploads, IsBefore(v, w)
             PROVE  Before(v) = w
  BY DEF BeforeIsLast
<1> USE DEF IsBefore
<1> DEFINE Last(y) == \A x \in Earlier(v) : number[x] <= number[y]
<1>1. ASSUME NEW y \in Earlier(v), Last(y) PROVE y = w
  <2> HIDE DEF HInv, Last
  <2>1. number \in [Uploads -> Nat]
    BY DEF HInv, IInv, TypeOK
  <2>2. /\ y \in Uploads /\ target[y] = target[v]
        /\ w \in Uploads /\ target[w] = target[v]
    BY DEF Earlier
  <2>3. number[y] <= number[w] /\ number[w] <= number[y]
    BY <1>1 DEF Last
  <2>4. number[y] = number[w] /\ target[y] = target[w]
    BY <2>1, <2>2, <2>3
  <2> QED
    BY <2>4 DEF HInv, LinkedNumbers, Earlier
<1>2. (CHOOSE y \in Earlier(v) : Last(y)) = w
  BY <1>1
<1>3. Before(v) = CHOOSE y \in Earlier(v) : Last(y)
  BY Zenon DEF Before
<1> QED
  BY <1>2, <1>3, Zenon

LEMMA BeforeIsNext == HInv' => BeforeIsLast'
BY BeforeIs, PTL

\* The committed versions of a file, their numbers and their files stay: a step
\* in which nothing commits.
NothingCommits ==
    \A v \in Uploads :
        /\ pc'[v] = "done" <=> pc[v] = "done"
        /\ pc[v] = "done" => target'[v] = target[v] /\ number'[v] = number[v]

LEMMA EarlierStays ==
    ASSUME NothingCommits, NEW v \in Uploads, pc[v] = "done"
    PROVE  Earlier(v)' = Earlier(v)
BY DEF NothingCommits, Earlier

LEMMA ChainsStay ==
    ASSUME HInv, IInv', NothingCommits
    PROVE  HInv' /\ before' = before
<1>1. \A v \in Uploads : pc[v] = "done" => Earlier(v)' = Earlier(v)
  BY EarlierStays
<1>2. \A v \in Uploads : \A x \in Earlier(v) : x \in Uploads /\ pc[x] = "done"
  BY DEF Earlier
<1>3. LinkedNumbers'
  <2>1. \A v, w \in Uploads :
          /\ pc'[v] = "done" /\ pc'[w] = "done"
          /\ target'[v] = target'[w] /\ number'[v] = number'[w]
          => v = w
    BY DEF NothingCommits, HInv, LinkedNumbers
  <2>2. ASSUME NEW v \in Uploads, pc'[v] = "done", Earlier(v)' # {}
        PROVE  \E w \in Earlier(v)' : \A x \in Earlier(v)' : number'[x] <= number'[w]
    <3>1. pc[v] = "done" /\ Earlier(v)' = Earlier(v)
      BY <1>1, <2>2 DEF NothingCommits
    <3>2. PICK w \in Earlier(v) : \A x \in Earlier(v) : number[x] <= number[w]
      BY <2>2, <3>1 DEF HInv, LinkedNumbers
    <3> QED
      BY <1>2, <3>1, <3>2 DEF NothingCommits
  <2> QED
    BY <2>1, <2>2 DEF LinkedNumbers
<1>4. HInv'
  BY <1>3 DEF HInv
<1>5. ASSUME NEW v \in Uploads PROVE Before(v)' = Before(v)
  <2>1. CASE pc[v] # "done"
    BY <2>1 DEF Before, NothingCommits
  <2>2. CASE pc[v] = "done" /\ Earlier(v) = {}
    BY <1>1, <2>2 DEF Before, NothingCommits
  <2>3. CASE pc[v] = "done" /\ Earlier(v) # {}
    <3>1. PICK w \in Earlier(v) : \A x \in Earlier(v) : number[x] <= number[w]
      BY <2>3 DEF HInv, LinkedNumbers
    <3>2. w \in Uploads /\ Before(v) = w
      BY <1>2, <2>3, <3>1, BeforeIs DEF IsBefore, BeforeIsLast
    <3>3. IsBefore(v, w)'
      BY <1>1, <1>2, <2>3, <3>1 DEF NothingCommits, IsBefore
    <3>4. Before(v)' = w
      BY <1>4, <3>2, <3>3, BeforeIsNext DEF BeforeIsLast
    <3> QED
      BY <3>2, <3>4
  <2> QED
    BY <2>1, <2>2, <2>3
<1>6. before' = before
  BY <1>5 DEF before
<1> QED
  BY <1>4, <1>6
-----------------------------------------------------------------------------
(***************************************************************************)
(* Steps of one upload, as VersionHistory sees them.                       *)
(***************************************************************************)

\* A step of the upload u that commits nothing and touches no table changes at
\* most the answer to u.
LEMMA AnswerStep ==
    ASSUME HInv, IInv', NEW u \in Uploads,
           \A w \in Uploads : w # u =>
               pc'[w] = pc[w] /\ target'[w] = target[w] /\ number'[w] = number[w],
           pc[u] # "done", pc'[u] # "done", UNCHANGED pre
    PROVE  /\ HInv' /\ before' = before /\ basis' = basis
           /\ answer' = [answer EXCEPT ![u] = AnswerOf(u)']
<1>1. NothingCommits
  BY DEF NothingCommits
<1>2. \A w \in Uploads : w # u => AnswerOf(w)' = AnswerOf(w)
  BY DEF AnswerOf
<1>3. answer' = [answer EXCEPT ![u] = AnswerOf(u)']
  BY <1>2 DEF answer
<1>4. basis' = basis
  BY DEF basis, BasisOf
<1> QED
  BY <1>1, <1>3, <1>4, ChainsStay

\* The answers, state by state of the request.
LEMMA Answers ==
    ASSUME NEW u \in Uploads
    PROVE  /\ answer[u] = AnswerOf(u)
           /\ pc[u] = "idle" => AnswerOf(u) = "none"
           /\ pc[u] \in InFlight => AnswerOf(u) = "pending"
           /\ pc[u] = "done" => AnswerOf(u) = "saved"
           /\ pc[u] \in {"refused", "failed"} => AnswerOf(u) = "declined"
BY DEF answer, AnswerOf, InFlight

AnswerTable ==
    \A u \in Uploads :
        /\ pc[u] \in InFlight => AnswerOf(u) = "pending"
        /\ pc[u] = "done" => AnswerOf(u) = "saved"
        /\ pc[u] \in {"refused", "failed"} => AnswerOf(u) = "declined"

LEMMA AnswersNext == AnswerTable'
<1>1. AnswerTable
  BY Answers DEF AnswerTable
<1> QED
  BY <1>1, PTL

\* An upload that goes on, in flight before and after, is no step.
LEMMA GoesOnStep ==
    ASSUME HInv, IInv', NEW u \in Uploads,
           \A w \in Uploads : w # u =>
               pc'[w] = pc[w] /\ target'[w] = target[w] /\ number'[w] = number[w],
           pc[u] \in InFlight, pc'[u] \in InFlight, UNCHANGED <<pre, tableVars>>
    PROVE  HInv' /\ UNCHANGED History!vars
<1>1. pc[u] # "done" /\ pc'[u] # "done"
  BY DEF InFlight
<1>2. AnswerOf(u)' = "pending" /\ answer[u] = "pending"
  BY Answers, AnswersNext DEF AnswerTable
<1>3. /\ HInv' /\ before' = before /\ basis' = basis
      /\ answer' = [answer EXCEPT ![u] = AnswerOf(u)']
  BY <1>1, AnswerStep
<1>4. answer' = answer
  BY <1>2, <1>3 DEF answer
<1> QED
  BY <1>3, <1>4 DEF History!vars, tableVars

\* An upload that ends without a commit is declined.
LEMMA DeclineStep ==
    ASSUME HInv, IInv', NEW u \in Uploads,
           \A w \in Uploads : w # u =>
               pc'[w] = pc[w] /\ target'[w] = target[w] /\ number'[w] = number[w],
           pc[u] \in {"idle"} \cup InFlight, pc'[u] \in {"refused", "failed"},
           UNCHANGED <<pre, tableVars>>
    PROVE  HInv' /\ History!Decline(u)
<1>1. pc[u] # "done" /\ pc'[u] # "done"
  BY DEF InFlight
<1>2. AnswerOf(u)' = "declined" /\ answer[u] \in {"none", "pending"}
  BY Answers, AnswersNext DEF AnswerTable
<1>3. /\ HInv' /\ before' = before /\ basis' = basis
      /\ answer' = [answer EXCEPT ![u] = AnswerOf(u)']
  BY <1>1, AnswerStep
<1> QED
  BY <1>2, <1>3, Zenon DEF History!Decline, tableVars

\* A step that leaves uploads and tables alone is no step.
LEMMA QuietStep ==
    ASSUME HInv, IInv', UNCHANGED <<uploadVars, tableVars>>
    PROVE  HInv' /\ UNCHANGED History!vars
<1>1. NothingCommits
  BY DEF NothingCommits, uploadVars
<1>2. answer' = answer /\ basis' = basis
  BY DEF answer, AnswerOf, basis, BasisOf, uploadVars
<1> QED
  BY <1>1, <1>2, ChainsStay DEF History!vars, tableVars

\* A step that changes tables but no upload.
LEMMA TableStep ==
    ASSUME HInv, IInv', UNCHANGED uploadVars
    PROVE  HInv' /\ UNCHANGED <<basis, answer, before>>
<1>1. NothingCommits
  BY DEF NothingCommits, uploadVars
<1>2. answer' = answer /\ basis' = basis
  BY DEF answer, AnswerOf, basis, BasisOf, uploadVars
<1> QED
  BY <1>1, <1>2, ChainsStay
-----------------------------------------------------------------------------
(***************************************************************************)
(* One lemma per action.                                                   *)
(***************************************************************************)

Simulated == HInv' /\ [History!Next]_(History!vars)

\* An upload that passes the preflight asks; one that does not is declined.
LEMMA PreflightSimulated ==
    ASSUME HInv, IInv', NEW u \in Uploads, NEW p, NEW q, Preflight(u, p, q),
           q.ifMatch \in {None, Star} \cup {v \in Uploads : pc[v] = "done"}
    PROVE  Simulated
<1> USE DEF Preflight
<1>1. CASE pc' = [pc EXCEPT ![u] = "refused"] /\ UNCHANGED <<path, pre, target>>
  <2>1. pc[u] = "idle" /\ pc'[u] = "refused" /\ \A w \in Uploads : w # u => pc'[w] = pc[w]
    BY <1>1 DEF HInv, IInv, TypeOK
  <2>2. HInv' /\ History!Decline(u)
    BY <1>1, <2>1, DeclineStep
  <2> QED
    BY <2>2 DEF Simulated, History!Next
<1>2. CASE \E f : /\ pc' = [pc EXCEPT ![u] = "accepted"]
                  /\ pre' = [pre EXCEPT ![u] = q]
                  /\ target' = [target EXCEPT ![u] = f]
  <2>1. /\ pc[u] = "idle" /\ pc'[u] = "accepted" /\ pre'[u] = q
        /\ \A w \in Uploads : w # u => pc'[w] = pc[w] /\ pre'[w] = pre[w] /\ target'[w] = target[w]
    BY <1>2 DEF HInv, IInv, TypeOK
  <2>2. NothingCommits
    BY <2>1 DEF NothingCommits
  <2>3. HInv' /\ before' = before
    BY <2>2, ChainsStay
  <2>4. answer[u] = "none" /\ AnswerOf(u)' = "pending"
    BY <2>1, Answers, AnswersNext DEF AnswerTable, InFlight
  <2>5. answer' = [answer EXCEPT ![u] = "pending"]
    <3>1. \A w \in Uploads : w # u => AnswerOf(w)' = AnswerOf(w)
      BY <2>1 DEF AnswerOf
    <3> QED
      BY <2>4, <3>1 DEF answer
  <2>6. PICK b : b = BasisOf(u)'
    OBVIOUS
  <2>7. b \in {None} \cup {w \in Uploads : answer[w] = "saved"}
    BY <2>1, <2>6, Answers DEF BasisOf
  <2>8. basis' = [basis EXCEPT ![u] = b]
    BY <2>1, <2>6 DEF basis, BasisOf
  <2>9. History!Ask(u)
    BY <2>3, <2>4, <2>5, <2>7, <2>8 DEF History!Ask, tableVars
  <2> QED
    BY <2>3, <2>9 DEF Simulated, History!Next
<1> QED
  BY <1>1, <1>2

LEMMA UploadSimulated ==
    ASSUME HInv, IInv', NEW u \in Uploads, Upload(u) \/ SaveAsCopy(u)
    PROVE  Simulated
<1>1. CASE Upload(u)
  <2>1. PICK p \in Paths, q \in ClientPreconditions : Preflight(u, p, q)
    BY <1>1 DEF Upload
  <2>2. q.ifMatch \in {None, Star} \cup {v \in Uploads : pc[v] = "done"}
    BY DEF ClientPreconditions
  <2> QED
    BY <2>1, <2>2, PreflightSimulated
<1>2. CASE SaveAsCopy(u)
  <2>1. PICK p, q : Preflight(u, p, q) /\ q = [ifMatch |-> None, ifNoneMatch |-> Star]
    BY <1>2 DEF SaveAsCopy
  <2> QED
    BY <2>1, PreflightSimulated
<1> QED
  BY <1>1, <1>2

\* Storing the body and numbering the version are invisible.
LEMMA StageSimulated ==
    ASSUME HInv, IInv', NEW u \in Uploads, WriteTemp(u) \/ Finalize(u) \/ Wait(u) \/ NumberVersion(u)
    PROVE  Simulated
<1>1. /\ pc[u] \in InFlight /\ pc'[u] \in InFlight /\ UNCHANGED <<pre, tableVars>>
      /\ \A w \in Uploads : w # u =>
            pc'[w] = pc[w] /\ target'[w] = target[w] /\ number'[w] = number[w]
  BY DEF WriteTemp, Finalize, Wait, NumberVersion, HInv, IInv, TypeOK, InFlight
<1> QED
  BY <1>1, GoesOnStep DEF Simulated

\* So is taking the lock; a second evaluation that fails declines.
LEMMA RecheckSimulated ==
    ASSUME HInv, IInv', NEW u \in Uploads, Recheck(u)
    PROVE  Simulated
<1>1. /\ pc[u] \in {"stored", "waiting"} /\ pc'[u] \in {"ready", "refused", "failed"}
      /\ UNCHANGED <<pre, target, number, tableVars>>
      /\ \A w \in Uploads : w # u => pc'[w] = pc[w]
  BY DEF Recheck, HInv, IInv, TypeOK
<1>2. CASE pc'[u] = "ready"
  BY <1>1, <1>2, GoesOnStep DEF Simulated, InFlight
<1>3. CASE pc'[u] \in {"refused", "failed"}
  <2>1. HInv' /\ History!Decline(u)
    BY <1>1, <1>3, DeclineStep DEF InFlight
  <2> QED
    BY <2>1 DEF Simulated, History!Next
<1> QED
  BY <1>1, <1>2, <1>3

LEMMA FailSimulated ==
    ASSUME HInv, IInv', NEW u \in Uploads, Fail(u)
    PROVE  Simulated
<1>1. /\ pc[u] \in InFlight /\ pc'[u] = "failed"
      /\ UNCHANGED <<pre, target, number, tableVars>>
      /\ \A w \in Uploads : w # u => pc'[w] = pc[w]
  BY DEF Fail, HInv, IInv, TypeOK
<1>2. HInv' /\ History!Decline(u)
  BY <1>1, DeclineStep
<1> QED
  BY <1>2 DEF Simulated, History!Next

\* The parent row of a new file is a file without a version.
LEMMA EnsureFileRowSimulated ==
    ASSUME HInv, IInv', NEW u \in Uploads, EnsureFileRow(u)
    PROVE  Simulated
<1>1. /\ pc[u] = "stored" /\ pc'[u] \in {"ready", "failed"}
      /\ UNCHANGED <<pre, target, number, current, versions>>
      /\ \A w \in Uploads : w # u => pc'[w] = pc[w]
  BY DEF EnsureFileRow, HInv, IInv, TypeOK
<1>2. CASE NameTaken(path[u])
  <2>1. pc'[u] = "failed" /\ UNCHANGED tableVars
    BY <1>2 DEF EnsureFileRow, tableVars, HInv, IInv, TypeOK
  <2>2. HInv' /\ History!Decline(u)
    BY <1>1, <2>1, DeclineStep DEF InFlight
  <2> QED
    BY <2>2 DEF Simulated, History!Next
<1>3. CASE ~NameTaken(path[u])
  <2>1. pc'[u] = "ready" /\ state' = [state EXCEPT ![u] = "active"]
    BY <1>3 DEF EnsureFileRow, HInv, IInv, TypeOK
  <2>2. state[u] = "absent"
    BY <1>1 DEF HInv, IInv, Provenance, Uncreated
  <2>3. AnswerOf(u)' = "pending" /\ answer[u] = "pending"
    BY <1>1, <2>1, Answers, AnswersNext DEF AnswerTable, InFlight
  <2>4. /\ HInv' /\ before' = before /\ basis' = basis
        /\ answer' = [answer EXCEPT ![u] = AnswerOf(u)']
    BY <1>1, AnswerStep
  <2>5. answer' = answer
    BY <2>3, <2>4 DEF answer
  <2>6. History!Create(u)
    BY <1>1, <2>1, <2>2, <2>3, <2>4, <2>5 DEF History!Create, History!Change
  <2> QED
    BY <2>4, <2>6 DEF Simulated, History!Next
<1> QED
  BY <1>2, <1>3

\* The COMMIT is the one step of an upload: the version becomes the end of its
\* chain, after the version its client started from.
LEMMA SaveSimulated ==
    ASSUME HInv, IInv', NEW u \in Uploads, CommitVersion(u), ~InsertRefused(target[u], number[u])
    PROVE  Simulated
<1> PICK f \in Uploads : f = target[u]
  BY DEF HInv, IInv, TypeOK
<1> USE DEF CommitVersion
<1>1. /\ pc[u] = "numbered" /\ pc'[u] = "done" /\ UNCHANGED <<pre, target, number, state>>
      /\ \A w \in Uploads : w # u => pc'[w] = pc[w]
      /\ versions' = versions \cup {u} /\ current' = [current EXCEPT ![f] = u]
  BY DEF HInv, IInv, TypeOK
<1>2. number[u] = TopNumber(f) + 1 /\ TopNumber(f) \in Nat
  BY <1>1, AtCommit, NextIsAfterTop DEF HInv, IInv
<1>3. \A w \in Uploads : pc[w] = "done" /\ target[w] = f =>
          number[w] <= TopNumber(f) /\ number[w] < number[u]
  BY <1>2 DEF HInv, IInv, PointerIsTop, TopNumber, TypeOK
<1>4. \A v \in Uploads : pc[v] = "done" => Earlier(v)' = Earlier(v)
  <2> SUFFICES ASSUME NEW v \in Uploads, pc[v] = "done" PROVE Earlier(v)' = Earlier(v)
    OBVIOUS
  <2>1. ~(target[u] = target[v] /\ number[u] < number[v])
    BY <1>3 DEF HInv, IInv, TypeOK
  <2> QED
    BY <1>1, <2>1 DEF Earlier
<1>5. Earlier(u)' = {w \in Uploads : pc[w] = "done" /\ target[w] = f}
  BY <1>1, <1>3 DEF Earlier, HInv, IInv, TypeOK
<1>6. current[f] # None =>
        /\ current[f] \in Earlier(u)' /\ \A x \in Earlier(u)' : number[x] <= number[current[f]]
  <2> SUFFICES ASSUME current[f] # None
               PROVE  /\ current[f] \in Earlier(u)'
                      /\ \A x \in Earlier(u)' : number[x] <= number[current[f]]
    OBVIOUS
  <2>1. current[f] \in Uploads /\ pc[current[f]] = "done" /\ target[current[f]] = f
    BY DEF HInv, IInv, TypeOK, CurrentIsNewest, VersionsOf, Provenance
  <2> QED
    BY <1>3, <1>5, <2>1 DEF TopNumber
<1>7. current[f] = None => Earlier(u)' = {}
  BY <1>5 DEF HInv, IInv, PointerIsTop
<1>8. LinkedNumbers'
  <2>1. \A v, w \in Uploads :
          /\ pc'[v] = "done" /\ pc'[w] = "done"
          /\ target'[v] = target'[w] /\ number'[v] = number'[w]
          => v = w
    BY <1>1, <1>3 DEF HInv, LinkedNumbers, IInv, TypeOK
  <2>2. ASSUME NEW v \in Uploads, pc'[v] = "done", Earlier(v)' # {}
        PROVE  \E w \in Earlier(v)' : \A x \in Earlier(v)' : number'[x] <= number'[w]
    <3>1. CASE v = u
      BY <1>1, <1>6, <1>7, <2>2, <3>1
    <3>2. CASE v # u
      BY <1>1, <1>4, <2>2, <3>2 DEF HInv, LinkedNumbers
    <3> QED
      BY <3>1, <3>2
  <2> QED
    BY <2>1, <2>2 DEF LinkedNumbers
<1>9. HInv'
  BY <1>8 DEF HInv
<1> PICK last : last = current[f]
  OBVIOUS
<1>10. Before(u)' = last
  <2>1. CASE last = None
    BY <1>7, <2>1 DEF Before
  <2>2. CASE last # None
    <3>1. last \in Uploads /\ IsBefore(u, last)'
      BY <1>1, <1>6, <2>2 DEF IsBefore, HInv, IInv, TypeOK
    <3> QED
      BY <1>9, <3>1, BeforeIsNext DEF BeforeIsLast
  <2> QED
    BY <2>1, <2>2
<1>11. ASSUME NEW v \in Uploads, v # u PROVE Before(v)' = Before(v)
  <2>1. CASE pc[v] # "done" \/ Earlier(v) = {}
    BY <1>1, <1>4, <1>11, <2>1 DEF Before
  <2>2. CASE pc[v] = "done" /\ Earlier(v) # {}
    <3>1. PICK w \in Earlier(v) : \A x \in Earlier(v) : number[x] <= number[w]
      BY <2>2 DEF HInv, LinkedNumbers
    <3>2. w \in Uploads /\ IsBefore(v, w) /\ IsBefore(v, w)'
      BY <1>1, <1>4, <1>11, <2>2, <3>1 DEF IsBefore, Earlier
    <3> QED
      BY <1>9, <3>2, BeforeIs, BeforeIsNext DEF BeforeIsLast
  <2> QED
    BY <2>1, <2>2
<1>12. before' = [before EXCEPT ![u] = current[f]]
  BY <1>10, <1>11 DEF before
<1>13. answer[u] = "pending" /\ answer' = [answer EXCEPT ![u] = "saved"] /\ basis' = basis
  <2>1. answer[u] = "pending" /\ AnswerOf(u)' = "saved"
    BY <1>1, Answers, AnswersNext DEF AnswerTable, InFlight
  <2>2. \A w \in Uploads : w # u => AnswerOf(w)' = AnswerOf(w)
    BY <1>1 DEF AnswerOf
  <2> QED
    BY <1>1, <2>1, <2>2 DEF answer, basis, BasisOf
<1>14. state[f] # "absent"
  BY DEF InsertRefused, NoParent
<1>15. basis[u] # None => current[f] = basis[u] /\ state[f] = "active"
  <2> SUFFICES ASSUME basis[u] # None PROVE current[f] = basis[u] /\ state[f] = "active"
    OBVIOUS
  <2>1. basis[u] = pre[u].ifMatch /\ pre[u].ifMatch \in Uploads
    BY DEF basis, BasisOf, HInv, IInv, TypeOK, Preconditions
  <2> QED
    BY <1>1, <2>1, AtCommit DEF HInv
<1>16. History!Save(u)
  BY <1>1, <1>12, <1>13, <1>14, <1>15 DEF History!Save, History!SaveIn
<1> QED
  BY <1>9, <1>16 DEF Simulated, History!Next

\* A COMMIT that a key refuses declines.
LEMMA CommitSimulated ==
    ASSUME HInv, IInv', NEW u \in Uploads, CommitVersion(u)
    PROVE  Simulated
<1>1. CASE InsertRefused(target[u], number[u])
  <2>1. /\ pc[u] = "numbered" /\ pc'[u] = "failed"
        /\ UNCHANGED <<pre, target, number, tableVars>>
        /\ \A w \in Uploads : w # u => pc'[w] = pc[w]
    BY <1>1 DEF CommitVersion, HInv, IInv, TypeOK, tableVars
  <2>2. HInv' /\ History!Decline(u)
    BY <2>1, DeclineStep DEF InFlight
  <2> QED
    BY <2>2 DEF Simulated, History!Next
<1> QED
  BY <1>1, SaveSimulated

\* Trash, restore and the end of a gc change the state of one file.
LEMMA TrashSimulated ==
    ASSUME HInv, IInv', NEW f \in Uploads, Delete(f) \/ Restore(f)
    PROVE  Simulated
<1>1. HInv' /\ UNCHANGED <<basis, answer, before>>
  BY TableStep DEF Delete, Restore
<1>2. CASE Delete(f)
  <2>1. History!Trash(f)
    BY <1>1, <1>2 DEF Delete, History!Trash, History!Change
  <2> QED
    BY <1>1, <2>1 DEF Simulated, History!Next
<1>3. CASE Restore(f)
  <2>1. History!Restore(f)
    BY <1>1, <1>3 DEF Restore, History!Restore, History!Change
  <2> QED
    BY <1>1, <2>1 DEF Simulated, History!Next
<1> QED
  BY <1>2, <1>3

LEMMA GcSimulated ==
    ASSUME HInv, IInv', GcStep
    PROVE  Simulated
<1>1. CASE UNCHANGED <<uploadVars, tableVars>>
  BY <1>1, QuietStep DEF Simulated
<1>2. CASE GcPurge /\ state[gcFile] = "trashed"
  <2> PICK f \in Uploads : f = gcFile
    BY <1>2 DEF GcPurge, HInv, IInv, TypeOK
  <2>1. HInv' /\ UNCHANGED <<basis, answer, before>>
    BY <1>2, TableStep DEF GcPurge
  <2>2. History!Purge(f)
    BY <1>2, <2>1 DEF GcPurge, History!Purge, History!Change
  <2> QED
    BY <2>1, <2>2 DEF Simulated, History!Next
<1> QED
  BY <1>1, <1>2 DEF GcStep, GcRun, GcScan, GcList, GcRemove, GcFail, GcPurge, tableVars

\* Prune drops a version from the history, never one a file points to.
LEMMA PruneSimulated ==
    ASSUME HInv, IInv', PruneStep
    PROVE  Simulated
<1>1. CASE UNCHANGED <<uploadVars, tableVars>>
  BY <1>1, QuietStep DEF Simulated
<1>2. CASE PruneDelete
  <2> PICK v \in Uploads : v = pruned
    BY <1>2 DEF PruneDelete, HInv, IInv, TypeOK
  <2>1. HInv' /\ UNCHANGED <<basis, answer, before>>
    BY <1>2, TableStep DEF PruneDelete
  <2>2. versions' = versions \ {v} /\ UNCHANGED <<state, current>>
    BY <1>2 DEF PruneDelete
  <2>3. CASE v \notin versions
    BY <2>1, <2>2, <2>3 DEF Simulated, History!vars
  <2>4. CASE v \in versions
    <3>1. \A f \in Uploads : current[f] # v
      BY <1>2 DEF PruneDelete, HInv, IInv, PruneSafe, CurrentIsNewest, VersionsOf, TypeOK
    <3>2. History!Forget(v)
      BY <2>1, <2>2, <2>4, <3>1 DEF History!Forget
    <3> QED
      BY <2>1, <3>2 DEF Simulated, History!Next
  <2> QED
    BY <2>3, <2>4
<1> QED
  BY <1>1, <1>2 DEF PruneStep, PruneRun, PruneScan, PruneRemove, PruneFail, tableVars
-----------------------------------------------------------------------------
(***************************************************************************)
(* The result.                                                             *)
(***************************************************************************)

LEMMA StepSimulated ==
    ASSUME HInv, [Next]_vars
    PROVE  Simulated
<1>1. IInv'
  BY StepKeepsIInv DEF HInv
<1>2. ASSUME NEW u \in Uploads, UploadStep(u) PROVE Simulated
  BY <1>1, <1>2, UploadSimulated, StageSimulated, RecheckSimulated, EnsureFileRowSimulated,
     CommitSimulated, FailSimulated DEF UploadStep, Serve
<1>3. ASSUME NEW f \in Uploads, Delete(f) \/ Restore(f) PROVE Simulated
  BY <1>1, <1>3, TrashSimulated
<1>4. ASSUME NEW f \in Uploads, AgeTrash(f) \/ AgeVersion(f) PROVE Simulated
  BY <1>1, <1>4, QuietStep DEF Simulated, AgeTrash, AgeVersion
<1>5. CASE PoolUsedUp \/ UNCHANGED vars
  BY <1>1, <1>5, QuietStep DEF Simulated, PoolUsedUp, vars, uploadVars, tableVars
<1> QED
  BY <1>1, <1>2, <1>3, <1>4, <1>5, GcSimulated, PruneSimulated DEF Next

LEMMA InitSimulated == Init => HInv /\ History!Init
<1> SUFFICES ASSUME Init PROVE HInv /\ History!Init
  OBVIOUS
<1>1. IInv
  BY InitEstablishesIInv
<1>2. \A u \in Uploads : pc[u] = "idle" /\ pre[u].ifMatch = None
  BY DEF Init
<1>3. LinkedNumbers
  BY <1>2 DEF LinkedNumbers
<1>4. \A u \in Uploads : BasisOf(u) = None /\ AnswerOf(u) = "none" /\ Before(u) = None
  <2>1. \A u \in Uploads : BasisOf(u) = None
    BY <1>2 DEF BasisOf
  <2>2. \A u \in Uploads : AnswerOf(u) = "none"
    BY <1>2, Answers
  <2>3. \A u \in Uploads : Before(u) = None
    BY <1>2 DEF Before
  <2> QED
    BY <2>1, <2>2, <2>3
<1>5. History!Init
  BY <1>4 DEF History!Init, Init, basis, answer, before
<1> QED
  BY <1>1, <1>3, <1>5 DEF HInv

\* The write side implements the abstract history: an upload that went through
\* preflight, storage, locks, numbering and COMMIT, beside any others, both
\* batches, the trash and failures, is one atomic step, and with If-Match it
\* follows the version it names or is declined.
THEOREM ImplementsVersionHistory == Spec => ImplementsHistory
<1>1. Init => HInv /\ History!Init
  BY InitSimulated
<1>2. HInv /\ [Next]_vars => HInv' /\ [History!Next]_(History!vars)
  BY StepSimulated DEF Simulated
<1> QED
  BY <1>1, <1>2, PTL DEF Spec, ImplementsHistory, History!Spec
=============================================================================
