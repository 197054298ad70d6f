------------------------- MODULE ForcePurgeHistory -------------------------
(***************************************************************************)
(* The write side with the administrator's command implements              *)
(* ErasableHistory: a file is under erasure from the first command for it. *)
(***************************************************************************)
EXTENDS ForcePurge, FileStoreHistory

\* The file an upload was committed to.
FileOf(v) == IF pc[v] = "done" THEN target[v] ELSE None

\* The link before a version, where there still is a promise of it.
Linked(v) == IF target[v] \in hit THEN None ELSE Before(v)

file == [v \in Uploads |-> FileOf(v)]
linked == [v \in Uploads |-> Linked(v)]

Erasable == INSTANCE ErasableHistory WITH
    Versions <- Uploads, status <- state, head <- current, kept <- versions,
    before <- linked, erased <- hit

\* What the command takes away, a version, a pointer, a number that is given out
\* again, is never mistaken by an upload for something else: uploads stay atomic
\* and If-Match stays exact, in the very file that is erased, and the chains of
\* all others are as if there were no command.
ImplementsErasable == Erasable!ErasableSpec
=============================================================================
