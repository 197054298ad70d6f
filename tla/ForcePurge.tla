----------------------------- MODULE ForcePurge -----------------------------
(***************************************************************************)
(* sync-files-admin force-purge beside the running server and its batches  *)
(* (cmd/sync-files-admin/main.go): the command lists the versions of one   *)
(* file, takes each away, bytes and row, and then deletes the row of the   *)
(* file, whatever its state, which cascades to rows it did not list.       *)
(*                                                                         *)
(* Uploads to the file, its deletion and restore, and the batches go on    *)
(* meanwhile; nothing tells them of the command.  One administrator runs   *)
(* one command at a time, and may repeat it.                               *)
(***************************************************************************)
EXTENDS FileStore

CONSTANT Unwanted \* BOUND: the files that are ever force-purged

ASSUME UnwantedAssumption == Unwanted \subseteq Uploads

VARIABLES
    victim, \* the file of the command under way, or None
    listed, \* its listed versions that the loop has not come to
    taken,  \* the version whose bytes were removed, row to be deleted
    hit,    \* history: files a command was started for
    gone    \* history: files whose row a command deleted

purgeVars == <<victim, listed, taken, hit, gone>>
allVars == <<vars, purgeVars>>

PurgeInit == victim = None /\ listed = {} /\ taken = None /\ hit = {} /\ gone = {}

\* runForcePurge up to the loop.
PurgeList(f) ==
    /\ victim = None /\ f \in Unwanted /\ state[f] # "absent"
    /\ victim' = f /\ hit' = hit \cup {f}
    /\ listed' \in ListByFile(f)
    /\ UNCHANGED <<vars, taken, gone>>

\* The loop, newest version first: RemoveVersion; an error is only a warning.
PurgeRemove(v) ==
    /\ v \in listed /\ taken = None
    /\ \A w \in listed : number[w] <= number[v]
    /\ listed' = listed \ {v} /\ taken' = v
    /\ \/ store' = Removed(v) /\ UNCHANGED faults
       \/ faults < MaxFaults /\ faults' = faults + 1 /\ UNCHANGED store
    /\ UNCHANGED <<uploadVars, tableVars, tmp, dateVars, gcVars, pruneVars, victim, hit, gone>>

\* FileVersionsRepo.Delete; an error is only a warning.
PurgeRow ==
    /\ taken # None /\ taken' = None
    /\ \/ /\ versions' = versions \ {taken}
          /\ old' = old \ {taken} /\ recent' = recent \ {taken}
          /\ UNCHANGED faults
       \/ faults < MaxFaults /\ faults' = faults + 1 /\ UNCHANGED <<versions, old, recent>>
    /\ UNCHANGED <<uploadVars, state, current, diskVars, overdue, gcVars, pruneVars,
                   victim, listed, hit, gone>>

\* DELETE FROM files, which waits for a lock on the row.  The rows that its foreign
\* keys ON DELETE CASCADE take with it.
CascadeForgotten(f) == {} \* mutant: no ON DELETE CASCADE
Cascaded(f) == VersionsOf(f)

PurgeFile ==
    /\ victim # None /\ listed = {} /\ taken = None
    /\ ~Locked(victim)
    /\ state' = [state EXCEPT ![victim] = "absent"]
    /\ current' = [current EXCEPT ![victim] = None]
    /\ versions' = versions \ Cascaded(victim)
    /\ overdue' = overdue \ {victim}
    /\ old' = old \ Cascaded(victim) /\ recent' = recent \ Cascaded(victim)
    /\ victim' = None /\ gone' = gone \cup {victim}
    /\ UNCHANGED <<uploadVars, diskVars, gcVars, pruneVars, faults, listed, taken, hit>>

\* The command dies, or its last statement fails.
PurgeFail ==
    /\ victim # None /\ faults < MaxFaults
    /\ faults' = faults + 1
    /\ victim' = None /\ listed' = {} /\ taken' = None
    /\ UNCHANGED <<uploadVars, tableVars, diskVars, dateVars, gcVars, pruneVars, hit, gone>>

PurgeRun == (\E v \in Uploads : PurgeRemove(v)) \/ PurgeRow \/ PurgeFile

PurgeStep == (\E f \in Uploads : PurgeList(f)) \/ PurgeRun \/ PurgeFail

PurgeNext == PurgeStep \/ (Next /\ UNCHANGED purgeVars)

PurgeSpec == Init /\ PurgeInit /\ [][PurgeNext]_allVars

\* A command that was started runs until it ends; the rest is as in FileStore.
LivePurgeSpec == PurgeSpec /\ Fairness /\ WF_allVars(PurgeRun)
-----------------------------------------------------------------------------
PurgeTypeOK ==
    /\ TypeOK
    /\ victim \in Uploads \cup {None} /\ taken \in Uploads \cup {None}
    /\ listed \subseteq Uploads
    /\ hit \subseteq Uploads /\ gone \subseteq hit

\* A file that was force-purged is gone for good: no upload that was under way, no
\* restore and no batch brings its row back or leaves it a version.
GoneForGood ==
    \A f \in gone : state[f] = "absent" /\ current[f] = None /\ VersionsOf(f) = {}

\* Every other file keeps what it points to, and points to its highest number: the
\* command, with the keys that cascade and the numbers that fall, disturbs no file
\* but its own.
OthersUntouched ==
    \A f \in Uploads \ hit :
        current[f] # None =>
            /\ current[f] \in VersionsOf(f)
            /\ \A v \in VersionsOf(f) : number[v] <= number[current[f]]
            /\ current[f] \in store \cup claimed

\* The pointer of another file never goes back to an older number, nor to NULL; of
\* the file under erasure it may, since the rows of its highest numbers go first.
OthersAdvance ==
    [][\A f \in Uploads \ hit :
          current'[f] # current[f] =>
              /\ current'[f] # None
              /\ current[f] # None => number'[current'[f]] > number[current[f]]]_allVars

\* Bytes some client was told are saved outlive their row only under a file that
\* was force-purged, or is being so: a version committed after the list was made,
\* or too new for the replica that was asked, or whose removal failed.
\* cmd/sync-files-admin/main.go:81 promises that all of them go.
BytesOnlyUnderGone ==
    \A v \in store : pc[v] = "done" /\ v \notin versions => target[v] \in hit

\* The command comes to its end: no request holds the row of the file for ever.
PurgeEnds == []<>(victim = None)
=============================================================================
