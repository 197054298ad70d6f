-------------------------- MODULE ErasableHistory --------------------------
(***************************************************************************)
(* VersionHistory with an administrator who has files erased for good.     *)
(* From then on the links of such a file are promised no more, but an      *)
(* upload to it is one atomic step all the same, and one that names the    *)
(* version it was made from replaces that version or is not saved; and     *)
(* once the file has vanished nothing brings it back.  Every other file    *)
(* keeps what VersionHistory promises.                                     *)
(***************************************************************************)
EXTENDS VersionHistory

VARIABLES
    file,  \* [Versions -> Versions or None]: the file a version was saved in
    erased \* SUBSET Versions: the files somebody has begun to erase

erasableVars == <<vars, file, erased>>

ErasableInit ==
    /\ Init
    /\ file = [v \in Versions |-> None]
    /\ erased = {}

\* The step of VersionHistory that says which file it is in.
SaveTo(v, f) ==
    /\ SaveIn(v, f, IF f \in erased THEN None ELSE head[f])
    /\ file' = [file EXCEPT ![v] = f]
    /\ UNCHANGED erased

\* Its other steps; a file under erasure does not come into being.
AsBefore(v) ==
    /\ \/ Ask(v) \/ Decline(v)
       \/ v \notin erased /\ Create(v)
       \/ Trash(v) \/ Restore(v) \/ Purge(v)
       \/ Forget(v)
    /\ UNCHANGED <<file, erased>>

\* An erasure begins.
Condemn(f) ==
    /\ status[f] # "absent"
    /\ erased' = erased \cup {f}
    /\ before' = [v \in Versions |-> IF file[v] = f THEN None ELSE before[v]]
    /\ UNCHANGED <<basis, answer, status, head, kept, file>>

\* A version of such a file goes, be it the end of the chain.
Lose(v) ==
    /\ v \in kept /\ file[v] \in erased
    /\ kept' = kept \ {v}
    /\ UNCHANGED <<basis, answer, status, head, before, file, erased>>

\* The file goes, with what is left of it.
Vanish(f) ==
    /\ f \in erased
    /\ status' = [status EXCEPT ![f] = "absent"]
    /\ head' = [head EXCEPT ![f] = None]
    /\ kept' = {v \in kept : file[v] # f}
    /\ UNCHANGED <<basis, answer, before, file, erased>>

ErasableNext ==
    \E v \in Versions :
        \/ \E f \in Versions : SaveTo(v, f)
        \/ AsBefore(v)
        \/ Condemn(v) \/ Lose(v) \/ Vanish(v)

ErasableSpec == ErasableInit /\ [][ErasableNext]_erasableVars
=============================================================================
