-------------------------------- MODULE OCC --------------------------------
(***************************************************************************)
(* The optimistic-concurrency rule of internal/domain/sync.go: what the    *)
(* server answers to an upload that carries the headers If-Match and       *)
(* If-None-Match, given the current version it sees at the path.  A pure   *)
(* function of its two arguments, evaluated twice by every upload (before  *)
(* the body is stored and again inside the transaction).                   *)
(***************************************************************************)

CONSTANTS
    Uploads, \* upload requests; a version UUID is fresh in each, so that an
             \* upload also names the version it makes (the ETag it answers)
    None,    \* a header that was not sent, a nil pointer, a NULL column
    Star     \* the header value "*"

\* Neither marker can be mistaken for a version UUID, nor for the other.
ASSUME MarkerAssumption ==
    /\ None \notin Uploads
    /\ Star \notin Uploads
    /\ None # Star

\* File states: columns files.state ("absent" is a row that does not exist).
\* The code never writes "draft" nor "gone".
FileStates == {"absent", "active", "trashed", "purged"}

\* domain.CurrentRef, or None for nil.
Refs == [state : FileStates, version : Uploads] \cup {None}

\* domain.Precondition.  Any other value of If-None-Match than "*" is ignored
\* by every branch of ResolveOCC, so it is the same as None.
Preconditions == [ifMatch : Uploads \cup {None, Star}, ifNoneMatch : {None, Star}]

Outcomes == {"accept", "force_accept", "conflict", "gone",
             "precondition_failed", "need_precondition"}

\* domain.ResolveOCC.  If-None-Match: * is looked at first, so it wins over
\* an If-Match sent beside it.
ResolveOCC(ref, pre) ==
    CASE pre.ifMatch = None /\ pre.ifNoneMatch = None -> "need_precondition"
      [] pre.ifNoneMatch = Star ->
            IF ref = None THEN "accept" ELSE "precondition_failed"
      [] pre.ifNoneMatch = None /\ pre.ifMatch # None ->
            IF ref = None THEN "precondition_failed"
            ELSE IF ref.state # "active" THEN "gone"
            ELSE IF pre.ifMatch = Star THEN "force_accept"
            ELSE IF pre.ifMatch = ref.version THEN "accept"
            ELSE "conflict"

\* The outcomes evaluateOCC turns into "go on" (a nil error); all the others
\* become 409, 410, 412 or 428.
GoesOn(outcome) == outcome \in {"accept", "force_accept"}
=============================================================================
