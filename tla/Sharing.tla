------------------------------ MODULE Sharing ------------------------------
(***************************************************************************)
(* Public links (internal/http/handler_share.go) beside what the owner     *)
(* does to the files meanwhile: overwriting, deleting, restoring and       *)
(* downloading (handler_files.go), all over the replicated tables of       *)
(* Routing.  The table share_links is read and written on the primary      *)
(* only.                                                                   *)
(*                                                                         *)
(* Every handler is a sequence of queries, and other handlers, the replica *)
(* and the clock move between any two.                                     *)
(***************************************************************************)
EXTENDS Routing

CONSTANTS
    Requests, \* BOUND: requests under way at a time
    Links,    \* BOUND: links that can be made
    None

ASSUME NoneAssumption == None \notin Files \cup Links

VARIABLES
    linkFile, \* [Links -> the file_id of the row, None before it is inserted]
    inactive, \* links with revoked_at set or expires_at over
    req,      \* [Requests -> a request under way, or the last one answered]
    doomed,   \* history: links whose file was deleted, the delete being answered
    spared    \* history: links a failing RevokeByFile left as they were

linkVars == <<linkFile, inactive>>
ghostVars == <<doomed, spared>>
vars == <<routingVars, linkVars, req, ghostVars>>

\* Where a handler is.  "served", "missing" (no version row: 500) and "kept" (a
\* delete that found nothing to delete: 200) are answers; "idle" is any other.
Arrived == {"delete", "create", "download"}
Busy == Arrived \cup {"deleting", "revoking", "creating", "resolved", "unsharing", "fetching"}
Steps == Busy \cup {"idle", "served", "missing", "kept"}

NoRow == [state |-> "trashed", version |-> 0, changes |-> 0]

\* A request; known, links and late are history: what its browser had been told
\* of the file when it arrived, the links of the file when it deleted it, and
\* whether the link it came for had belonged to a deleted file already.
Request ==
    [step : Steps, by : Clients, until : Nat, file : Files \cup {None},
     link : Links \cup {None}, row : Row, known : Nat,
     links : SUBSET Links, late : BOOLEAN]

Answered(step) ==
    [step |-> step, by |-> Visitor, until |-> 0, file |-> None, link |-> None,
     row |-> NoRow, known |-> 0, links |-> {}, late |-> FALSE]

Init ==
    /\ RoutingInit
    /\ linkFile = [l \in Links |-> None] /\ inactive = {}
    /\ req = [r \in Requests |-> Answered("idle")]
    /\ doomed = {} /\ spared = {}

At(r, step) == req[r].step = step
Answer(r, step) == req' = [req EXCEPT ![r] = Answered(step)]

\* A request of the client c about the file f arrives.  Of all the answers below,
\* only that to a delete sets a cookie, so only a delete keeps its browser.
Arrive(r, c, f, l, step) ==
    /\ req[r].step \notin Busy
    /\ req' = [req EXCEPT ![r] =
                 [Answered(step) EXCEPT
                    !.by = IF step = "delete" THEN c ELSE Visitor, !.until = UntilOf(c), !.file = f, !.link = l,
                    !.known = IF c \in Sessions THEN told[c][f] ELSE 0,
                    !.late = l \in doomed]]

\* FilesRepo.FindByID, and the handler goes on at `step`.  Only one that streams
\* a version keeps the row and reads again.
RowRead(r) == Reader(req[r].until, req[r].file)
GoOn(r, step) ==
    req' = [req EXCEPT ![r] =
              IF step = "fetching"
              THEN [@ EXCEPT !.step = step, !.known = 0, !.row = RowRead(r)]
              ELSE [@ EXCEPT !.step = step, !.known = 0, !.until = 0]]
-----------------------------------------------------------------------------
(***************************************************************************)
(* The owner's requests.                                                   *)
(***************************************************************************)

OwnerArrives(r, s, f) ==
    /\ \E step \in Arrived : Arrive(r, s, f, None, step)
    /\ UNCHANGED <<routingVars, linkVars, ghostVars>>

\* uploadFileHandler as a whole: an overwrite commits and is answered.  Its own
\* steps are the subject of the module FileStore.
Upload(s, f) ==
    LET row == Changed([primary[f] EXCEPT !.version = @ + 1])
    IN  /\ primary[f].state = "active" /\ primary[f].changes < MaxChanges
        /\ Write(f, row)
        /\ cookie' = SetRAWCookie(s) /\ Confirm(s, f, row)
        /\ UNCHANGED <<clock, replica, linkVars, req, ghostVars>>

\* restoreFileHandler: one UPDATE on the primary, guarded by the state.
Restore(s, f) ==
    LET row == Changed([primary[f] EXCEPT !.state = "active"])
    IN  /\ primary[f].state = "trashed" /\ primary[f].changes < MaxChanges
        /\ Write(f, row)
        /\ cookie' = SetRAWCookie(s) /\ Confirm(s, f, row)
        /\ UNCHANGED <<clock, replica, linkVars, req, ghostVars>>

\* deleteFileHandler looks at the row first, and answers 200 without a cookie
\* when the file is not active there.
DeleteLooks(r) ==
    /\ At(r, "delete")
    /\ IF RowRead(r).state = "active" THEN GoOn(r, "deleting") ELSE Answer(r, "kept")
    /\ UNCHANGED <<routingVars, linkVars, ghostVars>>

\* SoftDelete: guarded by the state again, on the primary (500 if it changed).
SoftDelete(r) ==
    LET f == req[r].file
        row == Changed([primary[f] EXCEPT !.state = "trashed"])
    IN  /\ At(r, "deleting")
        /\ IF primary[f].state = "active"
           THEN /\ Write(f, row)
                /\ req' = [req EXCEPT ![r].step = "revoking", ![r].row = row,
                                      ![r].links = {l \in Links : linkFile[l] = f}]
           ELSE Answer(r, "idle") /\ UNCHANGED <<primary, binlog>>
        /\ UNCHANGED <<clock, replica, cookie, told, linkVars, ghostVars>>

\* ShareLinksRepo.RevokeByFile, a statement of its own.
NoneOf(f) == {} \* mutant: deleting leaves the links alone
RevokedWith(f) == {l \in Links : linkFile[l] = f}

\* Its error is ignored; either way the answer is 200 with the cookie.
RevokeByFile(r) ==
    LET q == req[r]
    IN  /\ At(r, "revoking")
        /\ \/ inactive' = inactive \cup RevokedWith(q.file) /\ UNCHANGED spared
           \/ spared' = spared \cup (q.links \ inactive) /\ UNCHANGED inactive
        /\ doomed' = doomed \cup q.links
        /\ cookie' = SetRAWCookie(q.by) /\ Confirm(q.by, q.file, q.row)
        /\ Answer(r, "idle")
        /\ UNCHANGED <<clock, primary, replica, binlog, linkFile>>
-----------------------------------------------------------------------------
(***************************************************************************)
(* Links.                                                                  *)
(***************************************************************************)

\* createShareLinkHandler: the file must be active in the row it reads; the
\* INSERT does not ask again.  The answer sets no cookie.
CreateLooks(r) ==
    /\ At(r, "create")
    /\ IF RowRead(r).state = "active" THEN GoOn(r, "creating") ELSE Answer(r, "idle")
    /\ UNCHANGED <<routingVars, linkVars, ghostVars>>

Insert(r, l) ==
    /\ At(r, "creating") /\ linkFile[l] = None
    /\ linkFile' = [linkFile EXCEPT ![l] = req[r].file]
    /\ Answer(r, "idle")
    /\ UNCHANGED <<routingVars, inactive, ghostVars>>

\* revokeShareLinkHandler, or the hour, day or week of the link is over.
Revoke(l) ==
    /\ linkFile[l] # None /\ l \notin inactive
    /\ inactive' = inactive \cup {l}
    /\ UNCHANGED <<routingVars, linkFile, req, ghostVars>>

\* ShareLink.IsActive.
IsActive(l) == l \notin inactive

\* resolveShareLink, on the primary.  An unknown or inactive link ends the
\* request with 404 or 410 and no effect.
Resolve(r, c, l) ==
    /\ linkFile[l] # None /\ IsActive(l)
    /\ Arrive(r, c, linkFile[l], l, "resolved")
    /\ UNCHANGED <<routingVars, linkVars, ghostVars>>

\* loadShareTarget reads the file where Reader says.
VisitLooks(r) ==
    /\ At(r, "resolved")
    /\ GoOn(r, IF RowRead(r).state = "active" THEN "fetching" ELSE "unsharing")
    /\ UNCHANGED <<routingVars, linkVars, ghostVars>>

\* It revokes the link of a file it found deleted (410).
Unshare(r) ==
    /\ At(r, "unsharing")
    /\ inactive' = inactive \cup {req[r].link}
    /\ Answer(r, "idle")
    /\ UNCHANGED <<routingVars, linkFile, ghostVars>>
-----------------------------------------------------------------------------
(***************************************************************************)
(* Downloads by the owner (loadFileForDownload) and through a link         *)
(* (loadShareTarget) go on alike.                                          *)
(***************************************************************************)

DownloadLooks(r) ==
    /\ At(r, "download")
    /\ IF RowRead(r).state = "active" THEN GoOn(r, "fetching") ELSE Answer(r, "idle")
    /\ UNCHANGED <<routingVars, linkVars, ghostVars>>

\* FileVersionsRepo.FindByID: the database that is read has the row of the
\* version if it has the change that made it current.
ReplicaHas(r) == replica[req[r].file].version >= req[r].row.version
    \* mutant: the table file_versions is always read on the replica
HasVersion(r) == RowRead(r).version >= req[r].row.version

\* With the version row the body is opened and streamed.
FindVersion(r) ==
    /\ At(r, "fetching")
    /\ Answer(r, IF HasVersion(r) THEN "served" ELSE "missing")
    /\ UNCHANGED <<routingVars, linkVars, ghostVars>>

\* A query fails, or the client goes away, or the server dies: what the handler
\* has committed stays, and the browser learns nothing.
Break(r) ==
    /\ req[r].step \in Busy
    /\ Answer(r, "idle")
    /\ UNCHANGED <<routingVars, linkVars, ghostVars>>
-----------------------------------------------------------------------------
Environment == (Replicate \/ Tick) /\ UNCHANGED <<linkVars, req, ghostVars>>

HandlerStep(r) ==
    \/ \E s \in Sessions, f \in Files : OwnerArrives(r, s, f)
    \/ DeleteLooks(r) \/ SoftDelete(r) \/ RevokeByFile(r)
    \/ CreateLooks(r) \/ (\E l \in Links : Insert(r, l))
    \/ \E c \in Clients, l \in Links : Resolve(r, c, l)
    \/ VisitLooks(r) \/ Unshare(r) \/ DownloadLooks(r) \/ FindVersion(r)
    \/ Break(r)

Next ==
    \/ Environment
    \/ \E r \in Requests : HandlerStep(r)
    \/ \E s \in Sessions, f \in Files : Upload(s, f) \/ Restore(s, f)
    \/ \E l \in Links : Revoke(l)

Spec == Init /\ [][Next]_vars
-----------------------------------------------------------------------------
(***************************************************************************)
(* Safety.                                                                 *)
(***************************************************************************)

TypeOK ==
    /\ RoutingTypeOK
    /\ linkFile \in [Links -> Files \cup {None}]
    /\ inactive \in SUBSET Links
    /\ req \in [Requests -> Request]
    /\ doomed \in SUBSET Links /\ spared \in SUBSET Links

\* The row a request is about to read is at least as new as what its browser
\* had been told of when it arrived, on whichever database the query lands and
\* however long the request has been under way.  It rests on the replica keeping
\* within a second less than the window.
Looking == Arrived \cup {"resolved"}
ReadYourWrites ==
    \A r \in Requests :
        req[r].step \in Looking => RowRead(r).changes >= req[r].known

\* A delete that answers 200 without deleting found the file deleted, or
\* somebody else has changed it since this browser last heard of it.
KeepsOnlyTheDeleted ==
    [][\A r \in Requests :
          At(r, "delete") /\ req'[r].step = "kept" =>
              LET row == primary[req[r].file]
              IN  row.state # "active" \/ row.changes > req[r].known]_vars

\* A visit that begins after the delete of the file was answered is not served
\* through a link made before, though the replica may still show the file and
\* though the file may have been restored; unless RevokeByFile failed.
DeletionEndsLinks ==
    [][\A r \in Requests :
          At(r, "fetching") /\ req'[r].step = "served" /\ req[r].late
              => req[r].link \in spared]_vars

\* A request that finds a row finds its version row, except when it came within
\* the window and the window is over: then the first query may have been
\* answered by the primary and the second one by the replica.
MissedOnlyAtWindowEnd ==
    [][\A r \in Requests :
          At(r, "fetching") /\ req'[r].step = "missing" =>
              req[r].until > 0 /\ clock >= req[r].until]_vars
-----------------------------------------------------------------------------
(***************************************************************************)
(* What the documents promise and the code does not do.                    *)
(***************************************************************************)

\* docs/05 section 2.1: a visit looks at the file on the primary, so it revokes
\* a link only of a file that is deleted.
OnlyDeletedFilesLoseLinks ==
    [][\A r \in Requests :
          At(r, "resolved") /\ req'[r].step = "unsharing"
              => primary[req[r].file].state # "active"]_vars

\* docs/07: deleting a file revokes its links in the same transaction.
DeletedLinksStayDead ==
    [][\A r \in Requests :
          At(r, "fetching") /\ req'[r].step = "served" => ~req[r].late]_vars
=============================================================================
