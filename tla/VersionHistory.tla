--------------------------- MODULE VersionHistory ---------------------------
(***************************************************************************)
(* What sync-files promises of the files of an owner, with no transaction, *)
(* no lock, no replica and no batch in sight: every file is a chain of     *)
(* versions that only grows at its end, an upload is one atomic step       *)
(* somewhere between its request and its answer, and an upload that names  *)
(* the version it was made from becomes the next link after that very      *)
(* version or is not saved at all.  FileStoreHistory shows that FileStore  *)
(* implements it.                                                          *)
(***************************************************************************)
CONSTANTS
    Versions, \* an upload, the version it makes and the file it creates share a name
    None      \* no version

VARIABLES
    basis,    \* [Versions -> the version an upload must replace, or None]
    answer,   \* [Versions -> Answers]
    status,   \* [Versions -> Statuses], of the file a version created
    head,     \* [Versions -> Versions or None]: the end of the chain of a file
    before,   \* [Versions -> Versions or None]: the link before a version
    kept      \* SUBSET Versions: those that are still in the history

vars == <<basis, answer, status, head, before, kept>>

Answers == {"none", "pending", "saved", "declined"}
Statuses == {"absent", "active", "trashed", "purged"}

Init ==
    /\ basis = [v \in Versions |-> None]
    /\ answer = [v \in Versions |-> "none"]
    /\ status = [f \in Versions |-> "absent"]
    /\ head = [f \in Versions |-> None]
    /\ before = [v \in Versions |-> None]
    /\ kept = {}

\* An upload begins; the version it names is one that was saved.
Ask(v) ==
    /\ answer[v] = "none"
    /\ answer' = [answer EXCEPT ![v] = "pending"]
    /\ \E b \in {None} \cup {w \in Versions : answer[w] = "saved"} :
          basis' = [basis EXCEPT ![v] = b]
    /\ UNCHANGED <<status, head, before, kept>>

\* It becomes the end of the chain of a file, all at once.
SaveIn(v, f, link) ==
    /\ answer[v] = "pending"
    /\ status[f] # "absent"
    /\ basis[v] # None => head[f] = basis[v] /\ status[f] = "active"
    /\ answer' = [answer EXCEPT ![v] = "saved"]
    /\ head' = [head EXCEPT ![f] = v]
    /\ before' = [before EXCEPT ![v] = link]
    /\ kept' = kept \cup {v}
    /\ UNCHANGED <<basis, status>>

Save(v) == \E f \in Versions : SaveIn(v, f, head[f])

\* Or it leaves nothing behind.
Decline(v) ==
    /\ answer[v] \in {"none", "pending"}
    /\ answer' = [answer EXCEPT ![v] = "declined"]
    /\ UNCHANGED <<basis, status, head, before, kept>>

\* A file comes into being for an upload, is put in the trash, brought back,
\* or erased from there.
Change(f, from, to) ==
    /\ status[f] = from
    /\ status' = [status EXCEPT ![f] = to]
    /\ UNCHANGED <<basis, answer, head, before, kept>>

Create(f) == answer[f] = "pending" /\ Change(f, "absent", "active")
Trash(f) == Change(f, "active", "trashed")
Restore(f) == Change(f, "trashed", "active")
Purge(f) == Change(f, "trashed", "purged")

\* An old version is dropped from the history, never the end of a chain.
Forget(v) ==
    /\ v \in kept
    /\ \A f \in Versions : head[f] # v
    /\ kept' = kept \ {v}
    /\ UNCHANGED <<basis, answer, status, head, before>>

Next ==
    \E v \in Versions :
        \/ Ask(v) \/ Save(v) \/ Decline(v)
        \/ Create(v) \/ Trash(v) \/ Restore(v) \/ Purge(v)
        \/ Forget(v)

Spec == Init /\ [][Next]_vars
=============================================================================
