------------------------------ MODULE Accounts ------------------------------
(***************************************************************************)
(* Accounts: signup, login with lock-out, sessions and logout, and the     *)
(* set-up of the second factor (internal/http/handler_auth.go,             *)
(* handler_ui.go, handler_totp.go, middleware/auth.go and                  *)
(* internal/repo/mysql/users.go, sessions.go), statement by statement, for *)
(* one email address.  The JSON and the form handlers of signup and login  *)
(* do the same, so one action stands for both.                             *)
(*                                                                         *)
(* A login judges its client by the row it read at the start; other        *)
(* logins, and the settings of the second factor, change the row meanwhile.*)
(* Pages read the row through Reader, so maybe from the replica.           *)
(*                                                                         *)
(* A session UUID is fresh in the login that issues it, so an element of   *)
(* Logins names the request and its session, and also the browser that     *)
(* holds its cookie.                                                       *)
(***************************************************************************)
EXTENDS Integers, Sequences

CONSTANTS
    Signups,     \* requests POST /signup and /api/signup
    Logins,      \* requests POST /login and /api/login
    Settings,    \* requests POST /settings/security/totp/...
    Secrets,     \* TOTP secrets
    None,        \* no account, no secret, no code
    Threshold,   \* loginAttemptThreshold
    LockTime,    \* loginLockDuration, in ticks
    SessionTime, \* sessionDuration, in ticks
    End,         \* BOUND: the last tick
    MaxFaults    \* BOUND: failures in a behaviour

ASSUME TimeAssumption ==
    /\ Threshold \in Nat \ {0} /\ LockTime \in Nat \ {0}
    /\ SessionTime \in Nat /\ End \in Nat /\ MaxFaults \in Nat

ASSUME NoneAssumption ==
    None \notin Signups /\ None \notin Logins /\ None \notin Secrets

VARIABLES
    clock,    \* now, in ticks; the first is 1
    \* The row of users on the primary
    account,  \* the signup that inserted it, or None
    count,    \* failed_login_count
    until,    \* locked_until, 0 for NULL
    secret,   \* totp_secret_enc, None when totp_enabled is 0
    rowLock,  \* the login whose transaction holds the row FOR UPDATE
    \* The table sessions on the primary
    sessions, \* SUBSET Logins
    expires,  \* [Logins -> expires_at]
    \* Replication
    replica,  \* what the replica shows
    binlog,   \* later states of the primary, oldest first
    \* Requests
    signup,   \* [Signups -> where signupHandler is]
    pc,       \* [Logins -> where the login, then its browser, is]
    code,     \* [Logins -> the code it gave]
    read,     \* [Logins -> the count it read FOR UPDATE]
    step,     \* [Settings -> where the request is]
    by,       \* [Settings -> the login whose cookie it carries]
    chosen,   \* [Settings -> the secret it is about to store]
    jar,      \* [Logins -> the set-up cookie of the browser]
    \* History
    failures, \* failures counted since the counter was last cleared
    early,    \* logins under way when the row was last made stricter
    confirmed,\* secrets a code of which was given at the set-up
    spared,   \* sessions whose deletion at the logout failed
    faults

rowVars == <<account, count, until, secret, rowLock>>
sessionVars == <<sessions, expires>>
replicaVars == <<replica, binlog>>
loginVars == <<pc, code, read>>
settingVars == <<step, by, chosen, jar>>
historyVars == <<failures, early, confirmed, spared>>
vars == <<clock, rowVars, sessionVars, replicaVars, signup, loginVars,
          settingVars, historyVars, faults>>

Codes == Secrets \cup {None}
Rows == [account : Signups \cup {None}, secret : Codes, sessions : SUBSET Logins]

Judging == {"wrong", "counting", "right", "issued"}

Init ==
    /\ clock = 1
    /\ account = None /\ count = 0 /\ until = 0 /\ secret = None /\ rowLock = None
    /\ sessions = {} /\ expires = [l \in Logins |-> 0]
    /\ replica = [account |-> None, secret |-> None, sessions |-> {}]
    /\ binlog = <<>>
    /\ signup = [s \in Signups |-> "idle"]
    /\ pc = [l \in Logins |-> "idle"]
    /\ code = [l \in Logins |-> None]
    /\ read = [l \in Logins |-> 0]
    /\ step = [r \in Settings |-> "idle"]
    /\ by = [r \in Settings |-> None]
    /\ chosen = [r \in Settings |-> None]
    /\ jar = [l \in Logins |-> None]
    /\ failures = 0 /\ early = {} /\ confirmed = {} /\ spared = {}
    /\ faults = 0
-----------------------------------------------------------------------------
\* Commit of an account, a secret and sessions: the replica will see it later.
Log(a, x, ss) == binlog' = Append(binlog, [account |-> a, secret |-> x, sessions |-> ss])

\* UsersRepo.FindByEmail and SessionsRepo.FindActive ask the primary.
SecretOnReplica == replica.secret \* mutant: FindByEmail asks Reader
SecretAtLogin == secret
ActiveOnReplica(s) == s \in replica.sessions /\ clock < expires[s] \* mutant: FindActive asks Reader
FindActive(s) == s \in sessions /\ clock < expires[s]

\* requireUser, UsersRepo.FindByID: the row the page is built from, on the
\* primary within the read-after-write window of an upload, else on the replica.
requireUser == {replica, [account |-> account, secret |-> secret, sessions |-> sessions]}

\* crypto.VerifyTOTP, for a code made from the secret c about now.
AnyCode(x, c) == c # None \* mutant: the code is not compared
VerifyTOTP(x, c) == x # None /\ c = x

Locked == clock < until
-----------------------------------------------------------------------------
(***************************************************************************)
(* Signup: a look for the email, then the INSERT.                          *)
(***************************************************************************)
SignupLooks(s) ==
    /\ signup[s] = "idle"
    /\ signup' = [signup EXCEPT ![s] = IF account = None THEN "free" ELSE "refused"]
    /\ UNCHANGED <<clock, rowVars, sessionVars, replicaVars, loginVars, settingVars,
                   historyVars, faults>>

\* The key uniq_users_email refuses the second INSERT: 500.
NeverTaken == FALSE \* mutant: no UNIQUE key on email
EmailTaken == account # None

InsertUser(s) ==
    /\ signup[s] = "free"
    /\ IF EmailTaken
       THEN /\ signup' = [signup EXCEPT ![s] = "refused"]
            /\ UNCHANGED <<account, replicaVars>>
       ELSE /\ signup' = [signup EXCEPT ![s] = "told"]
            /\ account' = s
            /\ Log(s, secret, sessions)
            /\ UNCHANGED replica
    /\ UNCHANGED <<clock, count, until, secret, rowLock, sessionVars, loginVars,
                   settingVars, historyVars, faults>>
-----------------------------------------------------------------------------
(***************************************************************************)
(* Login.                                                                  *)
(***************************************************************************)
\* What the handler makes of the password and the code, by the row it reads.  An
\* unknown email, a locked account and a missing code are refused uncounted, which
\* changes nothing.
Right(c) == SecretAtLogin = None \/ VerifyTOTP(SecretAtLogin, c)

LoginLooks(l) ==
    /\ pc[l] = "idle" /\ account # None /\ ~Locked
    /\ \/ /\ \E c \in Codes : Right(c) /\ code' = [code EXCEPT ![l] = c]
          /\ pc' = [pc EXCEPT ![l] = "right"]
       \/ /\ pc' = [pc EXCEPT ![l] = "wrong"] \* the password, or else the code
          /\ UNCHANGED code
    /\ UNCHANGED <<clock, rowVars, sessionVars, replicaVars, signup, read, settingVars,
                   historyVars, faults>>

\* IncrementFailedLogin: SELECT ... FOR UPDATE ...
RowFree == rowLock = None
NoRowLock(l) == rowLock \* mutant: FOR UPDATE forgotten
TakeRow(l) == l

LockForCount(l) ==
    /\ pc[l] = "wrong" /\ RowFree
    /\ rowLock' = TakeRow(l)
    /\ read' = [read EXCEPT ![l] = count]
    /\ pc' = [pc EXCEPT ![l] = "counting"]
    /\ UNCHANGED <<clock, account, count, until, secret, sessionVars, replicaVars,
                   signup, code, settingVars, historyVars, faults>>

\* ... UPDATE and COMMIT.
LockSubtracted(n) == IF n >= Threshold THEN clock - LockTime ELSE 0 \* mutant: the wrong sign
LockUntil(n) == IF n >= Threshold THEN clock + LockTime ELSE 0

DropRow(l) == IF rowLock = l THEN None ELSE rowLock

\* The logins that will get in.
UnderWay == {l \in Logins : pc[l] \in {"right", "issued"}}

IncrementFailedLogin(l) ==
    /\ pc[l] = "counting"
    /\ count' = read[l] + 1
    /\ until' = LockUntil(read[l] + 1)
    /\ rowLock' = DropRow(l)
    /\ pc' = [pc EXCEPT ![l] = "idle"] /\ read' = [read EXCEPT ![l] = 0]
    /\ failures' = failures + 1
    /\ early' = IF until' > 0 /\ ~Locked THEN UnderWay ELSE early
    /\ UNCHANGED <<clock, account, secret, sessionVars, replicaVars, signup, code,
                   settingVars, confirmed, spared, faults>>

\* Sessions.Insert; its foreign key needs the row of the account.
InsertSession(l) ==
    /\ pc[l] = "right" /\ RowFree
    /\ sessions' = sessions \cup {l}
    /\ expires' = [expires EXCEPT ![l] = clock + SessionTime]
    /\ Log(account, secret, sessions')
    /\ pc' = [pc EXCEPT ![l] = "issued"]
    /\ UNCHANGED <<clock, rowVars, replica, signup, code, read, settingVars,
                   historyVars, faults>>

\* The login l is over.
Leave(l, where) ==
    /\ pc' = [pc EXCEPT ![l] = where]
    /\ code' = [code EXCEPT ![l] = None]
    /\ read' = [read EXCEPT ![l] = 0]
    /\ early' = early \ {l}

\* UpdateLastLogin, and the answer with the session cookie.
KeptUntil == until \* mutant: locked_until is not cleared
ClearedUntil == 0

UpdateLastLogin(l) ==
    /\ pc[l] = "issued" /\ RowFree
    /\ count' = 0 /\ until' = ClearedUntil
    /\ failures' = 0
    /\ Leave(l, "in")
    /\ UNCHANGED <<clock, account, secret, rowLock, sessionVars, replicaVars, signup,
                   settingVars, confirmed, spared, faults>>

\* An error of IncrementFailedLogin or of UpdateLastLogin is logged and dropped; any
\* other error, and a crash, ends the request, maybe after its session was inserted.
\* The transaction is rolled back.
LoginFails(l) ==
    /\ faults < MaxFaults
    /\ \/ pc[l] \in {"wrong", "counting", "right"} /\ Leave(l, "idle")
       \/ pc[l] = "issued" /\ Leave(l, "in")
       \/ pc[l] = "issued" /\ Leave(l, "lost")
    /\ rowLock' = DropRow(l)
    /\ faults' = faults + 1
    /\ UNCHANGED <<clock, account, count, until, secret, sessionVars, replicaVars,
                   signup, settingVars, failures, confirmed, spared>>

\* logoutHandler: an error of the DELETE is logged and dropped.
Logout(l) ==
    /\ pc[l] = "in"
    /\ pc' = [pc EXCEPT ![l] = "out"]
    /\ \/ /\ sessions' = sessions \ {l}
          /\ Log(account, secret, sessions')
          /\ UNCHANGED <<spared, faults>>
       \/ /\ faults < MaxFaults
          /\ faults' = faults + 1
          /\ spared' = spared \cup {l}
          /\ UNCHANGED <<sessions, binlog>>
    /\ UNCHANGED <<clock, rowVars, expires, replica, signup, code, read, settingVars,
                   failures, early, confirmed>>
-----------------------------------------------------------------------------
(***************************************************************************)
(* The second factor.  A request carries the cookie of a session, which it *)
(* may have left its browser with before a logout.                         *)
(***************************************************************************)
Sent(l) == pc[l] \in {"in", "out"}

\* RequireAuth turns the request r of the browser l away.
TurnedAway(r) ==
    \E l \in Logins :
        /\ step[r] = "idle" /\ Sent(l) /\ ~FindActive(l)
        /\ step' = [step EXCEPT ![r] = "refused"]
        /\ by' = [by EXCEPT ![r] = l]
        /\ UNCHANGED <<clock, rowVars, sessionVars, replicaVars, signup, loginVars,
                       chosen, jar, historyVars, faults>>

\* totpSetupPageHandler: every look at the page makes a secret, unless the row says
\* enabled; a user without a row on the replica gets a 500.
SetupPage(l) ==
    /\ Sent(l) /\ FindActive(l)
    /\ \E u \in requireUser, x \in Secrets :
        /\ u.account # None /\ u.secret = None
        /\ \A m \in Logins : jar[m] # x
        /\ x \notin confirmed
        /\ jar' = [jar EXCEPT ![l] = x]
    /\ UNCHANGED <<clock, rowVars, sessionVars, replicaVars, signup, loginVars, step, by,
                   chosen, historyVars, faults>>

\* totpEnableHandler up to the check of the code, which is of the secret c.
EnableLooks(r) ==
    \E l \in Logins, u \in requireUser, c \in Secrets :
        /\ step[r] = "idle" /\ Sent(l) /\ FindActive(l)
        /\ by' = [by EXCEPT ![r] = l]
        /\ IF u.account # None /\ u.secret = None /\ VerifyTOTP(jar[l], c)
           THEN /\ step' = [step EXCEPT ![r] = "enabling"]
                /\ chosen' = [chosen EXCEPT ![r] = jar[l]]
                /\ confirmed' = confirmed \cup {c}
           ELSE /\ step' = [step EXCEPT ![r] = "done"]
                /\ UNCHANGED <<chosen, confirmed>>
        /\ UNCHANGED <<clock, rowVars, sessionVars, replicaVars, signup, loginVars, jar,
                       failures, early, spared, faults>>

\* totpDisableHandler up to the check of the code; the password is right.
DisableLooks(r) ==
    \E l \in Logins, u \in requireUser, c \in Secrets :
        /\ step[r] = "idle" /\ Sent(l) /\ FindActive(l)
        /\ by' = [by EXCEPT ![r] = l]
        /\ step' = [step EXCEPT ![r] =
                       IF u.account # None /\ VerifyTOTP(u.secret, c)
                       THEN "disabling" ELSE "done"]
        /\ UNCHANGED <<clock, rowVars, sessionVars, replicaVars, signup, loginVars, jar,
                       chosen, historyVars, faults>>

\* SetTOTP, and the end of either handler.
SetTOTP(r) ==
    /\ RowFree
    /\ \/ /\ step[r] = "enabling"
          /\ secret' = chosen[r]
          /\ jar' = [jar EXCEPT ![by[r]] = None]
          /\ early' = UnderWay
       \/ /\ step[r] = "disabling"
          /\ secret' = None
          /\ UNCHANGED <<jar, early>>
    /\ Log(account, secret', sessions)
    /\ step' = [step EXCEPT ![r] = "done"]
    /\ UNCHANGED <<clock, account, count, until, rowLock, sessionVars, replica, signup,
                   loginVars, by, chosen, failures, confirmed, spared, faults>>

SettingFails(r) ==
    /\ step[r] \in {"enabling", "disabling"} /\ faults < MaxFaults
    /\ step' = [step EXCEPT ![r] = "done"]
    /\ faults' = faults + 1
    /\ UNCHANGED <<clock, rowVars, sessionVars, replicaVars, signup, loginVars, by,
                   chosen, jar, historyVars>>
-----------------------------------------------------------------------------
Replicate ==
    /\ binlog # <<>>
    /\ replica' = Head(binlog) /\ binlog' = Tail(binlog)
    /\ UNCHANGED <<clock, rowVars, sessionVars, signup, loginVars, settingVars,
                   historyVars, faults>>

Tick ==
    /\ clock < End
    /\ clock' = clock + 1
    /\ UNCHANGED <<rowVars, sessionVars, replicaVars, signup, loginVars, settingVars,
                   historyVars, faults>>

SignupStep(s) == SignupLooks(s) \/ InsertUser(s)

LoginStep(l) ==
    \/ LoginLooks(l) \/ LockForCount(l) \/ IncrementFailedLogin(l)
    \/ InsertSession(l) \/ UpdateLastLogin(l) \/ LoginFails(l) \/ Logout(l)

SettingStep(r) ==
    TurnedAway(r) \/ EnableLooks(r) \/ DisableLooks(r) \/ SetTOTP(r) \/ SettingFails(r)

\* Every request has been answered: what is left to do is up to clients.  A login or
\* a setting that waits for ever is a deadlock.
Quiet ==
    /\ \A l \in Logins : pc[l] \notin Judging
    /\ \A r \in Settings : step[r] \notin {"enabling", "disabling"}
    /\ UNCHANGED vars

Next ==
    \/ \E s \in Signups : SignupStep(s)
    \/ \E l \in Logins : LoginStep(l) \/ SetupPage(l)
    \/ \E r \in Settings : SettingStep(r)
    \/ Replicate \/ Tick \/ Quiet

Spec == Init /\ [][Next]_vars
-----------------------------------------------------------------------------
(***************************************************************************)
(* Properties.                                                             *)
(***************************************************************************)
\* Types of all variables.
TypeOK ==
    /\ clock \in Nat
    /\ account \in Signups \cup {None}
    /\ count \in Nat /\ until \in Nat /\ secret \in Codes
    /\ rowLock \in Logins \cup {None}
    /\ sessions \subseteq Logins /\ expires \in [Logins -> Nat]
    /\ replica \in Rows /\ binlog \in Seq(Rows)
    /\ signup \in [Signups -> {"idle", "free", "told", "refused"}]
    /\ pc \in [Logins -> Judging \cup {"idle", "in", "out", "lost"}]
    /\ code \in [Logins -> Codes] /\ read \in [Logins -> Nat]
    /\ step \in [Settings -> {"idle", "enabling", "disabling", "done", "refused"}]
    /\ by \in [Settings -> Logins \cup {None}]
    /\ chosen \in [Settings -> Codes] /\ jar \in [Logins -> Codes]
    /\ failures \in Nat /\ faults \in Nat
    /\ early \subseteq Logins /\ confirmed \subseteq Secrets /\ spared \subseteq Logins

\* Of two signups at once one is answered 201, and the recovery codes it shows are
\* those of the account: the INSERT decides, not the look before it.
OneAccount == \A s \in Signups : signup[s] = "told" => account = s

\* No failure is lost: concurrent logins that fail each add one to the counter
\* since it was last cleared, although each reads it before it writes it.
CountIsFailures == count = failures

\* The account has an end of lock exactly while the counter is at the threshold.
LockMatchesCount == until > 0 <=> count >= Threshold

\* A login that will get in and no longer satisfies the row, which was locked or
\* given another second factor meanwhile, read the row before that; so only such a
\* login ends a lock before its time.
VerdictsAreCurrent ==
    \A l \in Logins \ early : pc[l] \in {"right", "issued"} =>
        /\ ~Locked
        /\ secret = None \/ code[l] = secret

\* The second factor in force is one whose code the user has given, whatever set-up
\* pages were open: nobody is left with an account whose codes he cannot make.
SecretConfirmed == secret # None => secret \in confirmed

\* A failed login neither lifts the lock nor brings its end nearer, not even one
\* that read the counter before others reached the threshold.
FailuresNeverEaseLock == [][failures' > failures => until' >= until]_vars

\* RequireAuth looks the session of the request r up; it lets r in, or not.
LookedUp(r) == step[r] = "idle" /\ step'[r] # "idle"
LetIn(r) == LookedUp(r) /\ step'[r] # "refused"

\* A request is let in exactly while the row of its session is as the login wrote it:
\* issued, not ended by a logout (unless the DELETE failed), and within SessionTime of
\* the login.
AdmittedRightly ==
    \A r \in Settings : LookedUp(r) =>
        LET l == by'[r] IN
        LetIn(r) <=> /\ pc[l] = "in" \/ l \in spared
                     /\ clock < expires[l]

\* Once a request was turned away, no request with the same cookie is let in again.
TurnedAwayForGood ==
    \A r, s \in Settings : LetIn(r) /\ step[s] = "refused" => by'[r] # by[s]

\* What the browser was told of its session decides, whatever logins, logouts, the
\* clock and the lag of the replica do meanwhile.  The lifetime is the code's: docs/07
\* section 3.3 says that requests renew last_seen_at and, after 24 hours, expires_at,
\* but SessionsRepo.Touch has no caller, so that a session in daily use ends as well.
AdmittedAsTold == [][AdmittedRightly /\ TurnedAwayForGood]_vars
=============================================================================
