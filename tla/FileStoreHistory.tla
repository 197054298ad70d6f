-------------------------- MODULE FileStoreHistory --------------------------
(***************************************************************************)
(* FileStore implements VersionHistory: whatever the interleaving of       *)
(* requests, batches and failures, each upload looks like one step.        *)
(***************************************************************************)
EXTENDS FileStore

\* The versions that were committed to the file of v before v was, those that
\* have been pruned since included.
Earlier(v) == {w \in Uploads : pc[w] = "done" /\ target[w] = target[v] /\ number[w] < number[v]}

\* The last of them.
Before(v) ==
    IF pc[v] # "done" \/ Earlier(v) = {} THEN None
    ELSE CHOOSE w \in Earlier(v) : \A x \in Earlier(v) : number[x] <= number[w]

\* The rest of the abstract state: what the server holds of a request.
AnswerOf(v) ==
    CASE pc[v] = "idle" -> "none"
      [] pc[v] \in InFlight -> "pending"
      [] pc[v] = "done" -> "saved"
      [] pc[v] \in {"refused", "failed"} -> "declined"

BasisOf(v) == IF pre[v].ifMatch = Star THEN None ELSE pre[v].ifMatch

basis == [v \in Uploads |-> BasisOf(v)]
answer == [v \in Uploads |-> AnswerOf(v)]
before == [v \in Uploads |-> Before(v)]

\* basis, answer and before are those above.
History == INSTANCE VersionHistory WITH
    Versions <- Uploads, status <- state, head <- current, kept <- versions

\* The two evaluations of the OCC rule, the row locks, the numbering and the
\* UNIQUE keys together make every upload atomic: a version sent with If-Match
\* follows the version it names in the numbering of the file, nothing is ever
\* slipped in between, and the batches only drop what is not current.
ImplementsHistory == History!Spec
=============================================================================
