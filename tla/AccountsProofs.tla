--------------------------- MODULE AccountsProofs ---------------------------
(***************************************************************************)
(* The inductive invariant of Accounts, and its theorems, for any number   *)
(* of requests, any threshold and any lengths of a lock and of a session.  *)
(***************************************************************************)
EXTENDS Accounts, TLAPS

\* The row is locked exactly by the login that is counting, and its count is still
\* the one that this login read: nothing else writes the counter meanwhile.
RowHeld ==
    \A l \in Logins : /\ rowLock = l <=> pc[l] = "counting"
                      /\ pc[l] = "counting" => read[l] = count

\* No lock lasts longer than one that begins now.
LockBounded == until <= clock + LockTime

\* What is in force, or about to be, was confirmed.
ChosenConfirmed ==
    /\ SecretConfirmed
    /\ \A r \in Settings : step[r] = "enabling" => chosen[r] \in confirmed

\* The rows of the sessions whose cookie a browser has, or had until its logout.
SessionRows ==
    /\ \A l \in Logins : pc[l] \in {"issued", "in"} => l \in sessions
    /\ \A l \in Logins : pc[l] = "out" => (l \in sessions <=> l \in spared)
    /\ \A l \in spared : pc[l] = "out"

IInv ==
    /\ TypeOK
    /\ OneAccount
    /\ CountIsFailures /\ LockMatchesCount /\ LockBounded
    /\ RowHeld
    /\ VerdictsAreCurrent
    /\ ChosenConfirmed
    /\ SessionRows

-----------------------------------------------------------------------------
LEMMA InitIInv == Init => IInv
  BY TimeAssumption, NoneAssumption, SMTT(30)
  DEF Init, IInv, TypeOK, OneAccount, CountIsFailures, LockMatchesCount, LockBounded,
      RowHeld, VerdictsAreCurrent, ChosenConfirmed, SecretConfirmed, SessionRows, Codes,
      Rows, Judging, Locked

\* What a change of the replication log alone keeps.
LEMMA LogTyped ==
    ASSUME TypeOK, NEW a \in Signups \cup {None}, NEW x \in Codes, NEW ss \in SUBSET Logins,
           Log(a, x, ss)
    PROVE  binlog' \in Seq(Rows)
  <1>1. [account |-> a, secret |-> x, sessions |-> ss] \in Rows
    BY DEF Rows
  <1>2. binlog \in Seq(Rows)
    BY DEF TypeOK
  <1> QED BY <1>1, <1>2 DEF Log
-----------------------------------------------------------------------------
(***************************************************************************)
(* Every action keeps IInv: one lemma per action.                          *)
(***************************************************************************)
LEMMA SignupLooksKeeps ==
    ASSUME IInv, NEW s \in Signups, SignupLooks(s)
    PROVE  IInv'
  <1> USE TimeAssumption, NoneAssumption DEF IInv, SignupLooks
  <1> USE DEF rowVars, sessionVars, replicaVars, loginVars, settingVars, historyVars
  <1>1. TypeOK'
    BY DEF TypeOK, Codes, Judging, Rows
  <1>2. OneAccount'
    BY DEF TypeOK, OneAccount
  <1>3. (CountIsFailures /\ LockMatchesCount /\ LockBounded)'
    BY DEF TypeOK, RowHeld, CountIsFailures, LockMatchesCount, LockBounded
  <1>4. RowHeld'
    BY DEF TypeOK, RowHeld, Judging
  <1>5. VerdictsAreCurrent'
    BY DEF TypeOK, VerdictsAreCurrent, Locked, Judging
  <1>6. ChosenConfirmed'
    BY DEF TypeOK, ChosenConfirmed, SecretConfirmed
  <1>7. SessionRows'
    BY DEF TypeOK, SessionRows, Judging
  <1> QED BY <1>1, <1>2, <1>3, <1>4, <1>5, <1>6, <1>7

LEMMA InsertUserKeeps ==
    ASSUME IInv, NEW s \in Signups, InsertUser(s)
    PROVE  IInv'
  <1> USE TimeAssumption, NoneAssumption DEF IInv, InsertUser
  <1> USE DEF rowVars, sessionVars, replicaVars, loginVars, settingVars, historyVars
  <1>1. TypeOK'
    <2>1. binlog' \in Seq(Rows)
      <3>1. CASE EmailTaken
        BY <3>1 DEF TypeOK
      <3>2. CASE ~EmailTaken
        BY <3>2, LogTyped DEF TypeOK
      <3> QED BY <3>1, <3>2
    <2>2. account' \in Signups \cup {None} /\ replica' = replica
      BY DEF TypeOK, replicaVars
    <2>3. signup' \in [Signups -> {"idle", "free", "told", "refused"}]
      BY DEF TypeOK
    <2> QED BY <2>1, <2>2, <2>3 DEF TypeOK
  <1>2. OneAccount'
    BY DEF TypeOK, OneAccount, EmailTaken
  <1>3. (CountIsFailures /\ LockMatchesCount /\ LockBounded)'
    BY DEF TypeOK, RowHeld, CountIsFailures, LockMatchesCount, LockBounded
  <1>4. RowHeld'
    BY DEF TypeOK, RowHeld, Judging
  <1>5. VerdictsAreCurrent'
    BY DEF TypeOK, VerdictsAreCurrent, Locked, Judging
  <1>6. ChosenConfirmed'
    BY DEF TypeOK, ChosenConfirmed, SecretConfirmed
  <1>7. SessionRows'
    BY DEF TypeOK, SessionRows, Judging
  <1> QED BY <1>1, <1>2, <1>3, <1>4, <1>5, <1>6, <1>7

LEMMA LoginLooksKeeps ==
    ASSUME IInv, NEW l \in Logins, LoginLooks(l)
    PROVE  IInv'
  <1> USE TimeAssumption, NoneAssumption DEF IInv, LoginLooks
  <1> USE DEF rowVars, sessionVars, replicaVars, loginVars, settingVars, historyVars
  <1>1. TypeOK'
    <2>1. code \in [Logins -> Codes]
      BY DEF TypeOK
    <2>2. code' \in [Logins -> Codes]
      <3>1. CASE \E c \in Codes : code' = [code EXCEPT ![l] = c]
        BY <2>1, <3>1, Zenon
      <3>2. CASE code' = code
        BY <2>1, <3>2
      <3>3. (\E c \in Codes : code' = [code EXCEPT ![l] = c]) \/ code' = code
        OBVIOUS
      <3> QED BY <3>1, <3>2, <3>3
    <2>3. pc' \in [Logins -> Judging \cup {"idle", "in", "out", "lost"}]
      BY DEF TypeOK, Judging
    <2> QED BY <2>2, <2>3 DEF TypeOK
  <1>2. OneAccount'
    BY DEF TypeOK, OneAccount
  <1>3. (CountIsFailures /\ LockMatchesCount /\ LockBounded)'
    BY DEF TypeOK, RowHeld, CountIsFailures, LockMatchesCount, LockBounded
  <1>4. RowHeld'
    BY DEF TypeOK, RowHeld, Judging
  <1>5. VerdictsAreCurrent'
    <2> SUFFICES ASSUME NEW m \in Logins \ early, pc'[m] \in {"right", "issued"}
                 PROVE  ~Locked /\ (secret = None \/ code'[m] = secret)
      BY DEF VerdictsAreCurrent, Locked
    <2>1. CASE m = l
      BY <2>1 DEF TypeOK, Right, SecretAtLogin, VerifyTOTP
    <2>2. CASE m # l
      BY <2>2 DEF TypeOK, VerdictsAreCurrent
    <2> QED BY <2>1, <2>2
  <1>6. ChosenConfirmed'
    BY DEF TypeOK, ChosenConfirmed, SecretConfirmed
  <1>7. SessionRows'
    BY DEF TypeOK, SessionRows, Judging
  <1> QED BY <1>1, <1>2, <1>3, <1>4, <1>5, <1>6, <1>7

LEMMA LockForCountKeeps ==
    ASSUME IInv, NEW l \in Logins, LockForCount(l)
    PROVE  IInv'
  <1> USE TimeAssumption, NoneAssumption DEF IInv, LockForCount
  <1> USE DEF rowVars, sessionVars, replicaVars, loginVars, settingVars, historyVars
  <1>1. TypeOK'
    BY DEF TypeOK, RowFree, TakeRow, Codes, Judging, Rows
  <1>2. OneAccount'
    BY DEF TypeOK, OneAccount
  <1>3. (CountIsFailures /\ LockMatchesCount /\ LockBounded)'
    BY DEF TypeOK, RowHeld, CountIsFailures, LockMatchesCount, LockBounded
  <1>4. RowHeld'
    BY DEF TypeOK, RowHeld, RowFree, TakeRow, Judging
  <1>5. VerdictsAreCurrent'
    BY DEF TypeOK, VerdictsAreCurrent, Locked, Judging
  <1>6. ChosenConfirmed'
    BY DEF TypeOK, ChosenConfirmed, SecretConfirmed
  <1>7. SessionRows'
    BY DEF TypeOK, SessionRows, Judging
  <1> QED BY <1>1, <1>2, <1>3, <1>4, <1>5, <1>6, <1>7

LEMMA IncrementFailedLoginKeeps ==
    ASSUME IInv, NEW l \in Logins, IncrementFailedLogin(l)
    PROVE  IInv'
  <1> USE TimeAssumption, NoneAssumption DEF IInv, IncrementFailedLogin
  <1> USE DEF rowVars, sessionVars, replicaVars, loginVars, settingVars, historyVars
  <1>1. TypeOK'
    BY DEF TypeOK, LockUntil, DropRow, UnderWay, Codes, Judging, Rows
  <1>2. OneAccount'
    BY DEF TypeOK, OneAccount
  <1>3. (CountIsFailures /\ LockMatchesCount /\ LockBounded)'
    BY DEF TypeOK, RowHeld, CountIsFailures, LockMatchesCount, LockBounded,
       LockUntil
  <1>4. RowHeld'
    BY DEF TypeOK, RowHeld, DropRow, Judging
  <1>5. VerdictsAreCurrent'
    BY DEF TypeOK, VerdictsAreCurrent, LockUntil, UnderWay, Locked, Judging
  <1>6. ChosenConfirmed'
    BY DEF TypeOK, ChosenConfirmed, SecretConfirmed
  <1>7. SessionRows'
    BY DEF TypeOK, SessionRows, Judging
  <1> QED BY <1>1, <1>2, <1>3, <1>4, <1>5, <1>6, <1>7

LEMMA InsertSessionKeeps ==
    ASSUME IInv, NEW l \in Logins, InsertSession(l)
    PROVE  IInv'
  <1> USE TimeAssumption, NoneAssumption DEF IInv, InsertSession
  <1> USE DEF rowVars, sessionVars, replicaVars, loginVars, settingVars, historyVars
  <1>1. TypeOK'
    <2>1. sessions' \in SUBSET Logins /\ binlog' \in Seq(Rows)
      BY LogTyped DEF TypeOK
    <2> QED BY <2>1, SMTT(30) DEF TypeOK, Judging
  <1>2. OneAccount'
    BY DEF TypeOK, OneAccount
  <1>3. (CountIsFailures /\ LockMatchesCount /\ LockBounded)'
    BY DEF TypeOK, RowHeld, CountIsFailures, LockMatchesCount, LockBounded
  <1>4. RowHeld'
    BY DEF TypeOK, RowHeld, RowFree, Judging
  <1>5. VerdictsAreCurrent'
    BY DEF TypeOK, VerdictsAreCurrent, Locked, Judging
  <1>6. ChosenConfirmed'
    BY DEF TypeOK, ChosenConfirmed, SecretConfirmed
  <1>7. SessionRows'
    BY DEF TypeOK, SessionRows, Judging
  <1> QED BY <1>1, <1>2, <1>3, <1>4, <1>5, <1>6, <1>7

LEMMA UpdateLastLoginKeeps ==
    ASSUME IInv, NEW l \in Logins, UpdateLastLogin(l)
    PROVE  IInv'
  <1> USE TimeAssumption, NoneAssumption DEF IInv, UpdateLastLogin
  <1> USE DEF rowVars, sessionVars, replicaVars, loginVars, settingVars, historyVars
  <1>1. TypeOK'
    BY DEF TypeOK, RowFree, ClearedUntil, Leave, Codes, Judging, Rows
  <1>2. OneAccount'
    BY DEF TypeOK, OneAccount
  <1>3. (CountIsFailures /\ LockMatchesCount /\ LockBounded)'
    BY DEF TypeOK, RowHeld, CountIsFailures, LockMatchesCount, LockBounded,
       ClearedUntil, Leave
  <1>4. RowHeld'
    BY DEF TypeOK, RowHeld, RowFree, Leave, Judging
  <1>5. VerdictsAreCurrent'
    BY DEF TypeOK, VerdictsAreCurrent, ClearedUntil, Leave, Locked, Judging
  <1>6. ChosenConfirmed'
    BY DEF TypeOK, ChosenConfirmed, SecretConfirmed
  <1>7. SessionRows'
    BY DEF TypeOK, SessionRows, Leave
  <1> QED BY <1>1, <1>2, <1>3, <1>4, <1>5, <1>6, <1>7

LEMMA LoginFailsKeeps ==
    ASSUME IInv, NEW l \in Logins, LoginFails(l)
    PROVE  IInv'
  <1> USE TimeAssumption, NoneAssumption DEF IInv
  <1>1. PICK w \in {"idle", "in", "lost"} :
            /\ Leave(l, w)
            /\ pc[l] \in Judging
            /\ w = "idle" <=> pc[l] # "issued"
    BY DEF LoginFails, Judging
  <1>2. /\ rowLock' = DropRow(l) /\ faults' = faults + 1
        /\ UNCHANGED <<clock, account, count, until, secret, sessions, expires, replica,
                       binlog, signup, step, by, chosen, jar, failures, confirmed, spared>>
    BY DEF LoginFails, sessionVars, replicaVars, settingVars
  <1>3. /\ pc' = [pc EXCEPT ![l] = w] /\ read' = [read EXCEPT ![l] = 0]
        /\ code' = [code EXCEPT ![l] = None] /\ early' = early \ {l}
    BY <1>1 DEF Leave
  <1>4. TypeOK'
    BY <1>2, <1>3 DEF TypeOK, DropRow, Codes
  <1>5. OneAccount' /\ ChosenConfirmed'
    BY <1>2 DEF OneAccount, ChosenConfirmed, SecretConfirmed
  <1>6. (CountIsFailures /\ LockMatchesCount /\ LockBounded)'
    BY <1>2 DEF CountIsFailures, LockMatchesCount, LockBounded
  <1>7. RowHeld'
    BY <1>2, <1>3 DEF RowHeld, TypeOK, DropRow
  <1>8. VerdictsAreCurrent'
    BY <1>2, <1>3 DEF VerdictsAreCurrent, TypeOK, Locked
  <1>9. SessionRows'
    BY <1>1, <1>2, <1>3 DEF SessionRows, TypeOK, Judging
  <1> QED BY <1>4, <1>5, <1>6, <1>7, <1>8, <1>9

LEMMA LogoutKeeps ==
    ASSUME IInv, NEW l \in Logins, Logout(l)
    PROVE  IInv'
  <1> USE TimeAssumption, NoneAssumption DEF IInv, Logout
  <1> USE DEF rowVars, sessionVars, replicaVars, loginVars, settingVars, historyVars
  <1>1. TypeOK'
    <2>1. binlog' \in Seq(Rows)
      <3>1. sessions \ {l} \in SUBSET Logins
        BY DEF TypeOK
      <3> QED BY <3>1, LogTyped DEF TypeOK
    <2> QED BY <2>1, SMTT(30) DEF TypeOK, Judging
  <1>2. OneAccount'
    BY DEF TypeOK, OneAccount
  <1>3. (CountIsFailures /\ LockMatchesCount /\ LockBounded)'
    BY DEF TypeOK, RowHeld, CountIsFailures, LockMatchesCount, LockBounded
  <1>4. RowHeld'
    BY DEF TypeOK, RowHeld, Judging
  <1>5. VerdictsAreCurrent'
    BY DEF TypeOK, VerdictsAreCurrent, Locked, Judging
  <1>6. ChosenConfirmed'
    BY DEF TypeOK, ChosenConfirmed, SecretConfirmed
  <1>7. SessionRows'
    BY DEF TypeOK, SessionRows, Judging
  <1> QED BY <1>1, <1>2, <1>3, <1>4, <1>5, <1>6, <1>7

LEMMA TurnedAwayKeeps ==
    ASSUME IInv, NEW r \in Settings, TurnedAway(r)
    PROVE  IInv'
  <1> USE TimeAssumption, NoneAssumption DEF IInv, TurnedAway
  <1> USE DEF rowVars, sessionVars, replicaVars, loginVars, settingVars, historyVars
  <1>1. TypeOK'
    BY DEF TypeOK, Codes, Judging, Rows
  <1>2. OneAccount'
    BY DEF TypeOK, OneAccount
  <1>3. (CountIsFailures /\ LockMatchesCount /\ LockBounded)'
    BY DEF TypeOK, RowHeld, CountIsFailures, LockMatchesCount, LockBounded
  <1>4. RowHeld'
    BY DEF TypeOK, RowHeld, Judging
  <1>5. VerdictsAreCurrent'
    BY DEF TypeOK, VerdictsAreCurrent, Locked, Judging
  <1>6. ChosenConfirmed'
    BY DEF TypeOK, ChosenConfirmed, SecretConfirmed
  <1>7. SessionRows'
    BY DEF TypeOK, SessionRows, Judging
  <1> QED BY <1>1, <1>2, <1>3, <1>4, <1>5, <1>6, <1>7

LEMMA SetupPageKeeps ==
    ASSUME IInv, NEW l \in Logins, SetupPage(l)
    PROVE  IInv'
  <1> USE TimeAssumption, NoneAssumption DEF IInv, SetupPage
  <1> USE DEF rowVars, sessionVars, replicaVars, loginVars, settingVars, historyVars
  <1>1. TypeOK'
    BY DEF TypeOK, Codes, Judging, Rows
  <1>2. OneAccount'
    BY DEF TypeOK, OneAccount
  <1>3. (CountIsFailures /\ LockMatchesCount /\ LockBounded)'
    BY DEF TypeOK, RowHeld, CountIsFailures, LockMatchesCount, LockBounded
  <1>4. RowHeld'
    BY DEF TypeOK, RowHeld, Judging
  <1>5. VerdictsAreCurrent'
    BY DEF TypeOK, VerdictsAreCurrent, Locked, Judging
  <1>6. ChosenConfirmed'
    BY DEF TypeOK, ChosenConfirmed, SecretConfirmed
  <1>7. SessionRows'
    BY DEF TypeOK, SessionRows, Judging
  <1> QED BY <1>1, <1>2, <1>3, <1>4, <1>5, <1>6, <1>7

LEMMA EnableLooksKeeps ==
    ASSUME IInv, NEW r \in Settings, EnableLooks(r)
    PROVE  IInv'
  <1> USE TimeAssumption, NoneAssumption DEF IInv
  <1>1. PICK l \in Logins, c \in Secrets :
            /\ by' = [by EXCEPT ![r] = l]
            /\ \/ /\ VerifyTOTP(jar[l], c)
                  /\ step' = [step EXCEPT ![r] = "enabling"]
                  /\ chosen' = [chosen EXCEPT ![r] = jar[l]]
                  /\ confirmed' = confirmed \cup {c}
               \/ /\ step' = [step EXCEPT ![r] = "done"]
                  /\ UNCHANGED <<chosen, confirmed>>
    BY DEF EnableLooks
  <1>2. UNCHANGED <<clock, rowVars, sessionVars, replicaVars, signup, loginVars, jar,
                    failures, early, spared, faults>>
    BY DEF EnableLooks
  <1>3. UNCHANGED <<clock, account, count, until, secret, rowLock, sessions, expires,
                    replica, binlog, signup, pc, code, read, jar, failures, early, spared,
                    faults>>
    BY <1>2 DEF rowVars, sessionVars, replicaVars, loginVars
  <1>4. TypeOK'
    <2>1. jar[l] \in Codes
      BY DEF TypeOK
    <2>2. chosen' \in [Settings -> Codes] /\ confirmed' \subseteq Secrets
      BY <1>1, <2>1 DEF TypeOK
    <2>3. /\ step' \in [Settings -> {"idle", "enabling", "disabling", "done", "refused"}]
          /\ by' \in [Settings -> Logins \cup {None}]
      BY <1>1 DEF TypeOK
    <2> QED BY <1>3, <2>2, <2>3 DEF TypeOK
  <1>5. ChosenConfirmed'
    BY <1>1, <1>3 DEF ChosenConfirmed, SecretConfirmed, TypeOK, VerifyTOTP
  <1>6. (OneAccount /\ RowHeld /\ SessionRows)'
    BY <1>3 DEF OneAccount, RowHeld, SessionRows
  <1>7. (CountIsFailures /\ LockMatchesCount /\ LockBounded)'
    BY <1>3 DEF CountIsFailures, LockMatchesCount, LockBounded
  <1>8. VerdictsAreCurrent'
    BY <1>3 DEF VerdictsAreCurrent, Locked
  <1> QED BY <1>4, <1>5, <1>6, <1>7, <1>8

LEMMA DisableLooksKeeps ==
    ASSUME IInv, NEW r \in Settings, DisableLooks(r)
    PROVE  IInv'
  <1> USE TimeAssumption, NoneAssumption DEF IInv, DisableLooks
  <1> USE DEF rowVars, sessionVars, replicaVars, loginVars, settingVars, historyVars
  <1>1. TypeOK'
    BY DEF TypeOK, VerifyTOTP, Codes, Judging, Rows
  <1>2. OneAccount'
    BY DEF TypeOK, OneAccount
  <1>3. (CountIsFailures /\ LockMatchesCount /\ LockBounded)'
    BY DEF TypeOK, RowHeld, CountIsFailures, LockMatchesCount, LockBounded
  <1>4. RowHeld'
    BY DEF TypeOK, RowHeld, Judging
  <1>5. VerdictsAreCurrent'
    BY DEF TypeOK, VerdictsAreCurrent, Locked, Judging
  <1>6. ChosenConfirmed'
    BY DEF TypeOK, ChosenConfirmed, SecretConfirmed
  <1>7. SessionRows'
    BY DEF TypeOK, SessionRows, Judging
  <1> QED BY <1>1, <1>2, <1>3, <1>4, <1>5, <1>6, <1>7

LEMMA SetTOTPKeeps ==
    ASSUME IInv, NEW r \in Settings, SetTOTP(r)
    PROVE  IInv'
  <1> USE TimeAssumption, NoneAssumption DEF IInv, SetTOTP
  <1> USE DEF rowVars, sessionVars, replicaVars, loginVars, settingVars, historyVars
  <1>1. TypeOK'
    <2>1. secret' \in Codes
      BY DEF TypeOK, Codes
    <2>2. binlog' \in Seq(Rows)
      BY <2>1, LogTyped DEF TypeOK
    <2>3. jar' \in [Logins -> Codes] /\ early' \subseteq Logins
      BY DEF TypeOK, UnderWay, Codes
    <2>4. step' \in [Settings -> {"idle", "enabling", "disabling", "done", "refused"}]
      BY DEF TypeOK
    <2> QED BY <2>1, <2>2, <2>3, <2>4 DEF TypeOK
  <1>2. OneAccount'
    BY DEF TypeOK, OneAccount
  <1>3. (CountIsFailures /\ LockMatchesCount /\ LockBounded)'
    BY DEF TypeOK, RowHeld, CountIsFailures, LockMatchesCount, LockBounded
  <1>4. RowHeld'
    BY DEF TypeOK, RowHeld, RowFree, Judging
  <1>5. VerdictsAreCurrent'
    BY DEF TypeOK, VerdictsAreCurrent, UnderWay, Locked, Judging
  <1>6. ChosenConfirmed'
    BY DEF TypeOK, ChosenConfirmed, SecretConfirmed
  <1>7. SessionRows'
    BY DEF TypeOK, SessionRows, Judging
  <1> QED BY <1>1, <1>2, <1>3, <1>4, <1>5, <1>6, <1>7

LEMMA SettingFailsKeeps ==
    ASSUME IInv, NEW r \in Settings, SettingFails(r)
    PROVE  IInv'
  <1> USE TimeAssumption, NoneAssumption DEF IInv, SettingFails
  <1> USE DEF rowVars, sessionVars, replicaVars, loginVars, settingVars, historyVars
  <1>1. TypeOK'
    BY DEF TypeOK, Codes, Judging, Rows
  <1>2. OneAccount'
    BY DEF TypeOK, OneAccount
  <1>3. (CountIsFailures /\ LockMatchesCount /\ LockBounded)'
    BY DEF TypeOK, RowHeld, CountIsFailures, LockMatchesCount, LockBounded
  <1>4. RowHeld'
    BY DEF TypeOK, RowHeld, Judging
  <1>5. VerdictsAreCurrent'
    BY DEF TypeOK, VerdictsAreCurrent, Locked, Judging
  <1>6. ChosenConfirmed'
    BY DEF TypeOK, ChosenConfirmed, SecretConfirmed
  <1>7. SessionRows'
    BY DEF TypeOK, SessionRows, Judging
  <1> QED BY <1>1, <1>2, <1>3, <1>4, <1>5, <1>6, <1>7

LEMMA ReplicateKeeps ==
    ASSUME IInv, Replicate
    PROVE  IInv'
  <1> USE TimeAssumption, NoneAssumption DEF IInv, Replicate
  <1> USE DEF rowVars, sessionVars, replicaVars, loginVars, settingVars, historyVars
  <1>1. TypeOK'
    <2>1. Head(binlog) \in Rows /\ Tail(binlog) \in Seq(Rows)
      BY DEF TypeOK
    <2> QED BY <2>1, SMTT(30) DEF TypeOK
  <1>2. OneAccount'
    BY DEF TypeOK, OneAccount
  <1>3. (CountIsFailures /\ LockMatchesCount /\ LockBounded)'
    BY DEF TypeOK, RowHeld, CountIsFailures, LockMatchesCount, LockBounded
  <1>4. RowHeld'
    BY DEF TypeOK, RowHeld, Judging
  <1>5. VerdictsAreCurrent'
    BY DEF TypeOK, VerdictsAreCurrent, Locked, Judging
  <1>6. ChosenConfirmed'
    BY DEF TypeOK, ChosenConfirmed, SecretConfirmed
  <1>7. SessionRows'
    BY DEF TypeOK, SessionRows, Judging
  <1> QED BY <1>1, <1>2, <1>3, <1>4, <1>5, <1>6, <1>7

LEMMA TickKeeps ==
    ASSUME IInv, Tick
    PROVE  IInv'
  <1> USE TimeAssumption, NoneAssumption DEF IInv, Tick
  <1> USE DEF rowVars, sessionVars, replicaVars, loginVars, settingVars, historyVars
  <1>1. TypeOK'
    BY DEF TypeOK, Codes, Judging, Rows
  <1>2. OneAccount'
    BY DEF TypeOK, OneAccount
  <1>3. (CountIsFailures /\ LockMatchesCount /\ LockBounded)'
    BY DEF TypeOK, RowHeld, CountIsFailures, LockMatchesCount, LockBounded
  <1>4. RowHeld'
    BY DEF TypeOK, RowHeld, Judging
  <1>5. VerdictsAreCurrent'
    BY DEF TypeOK, VerdictsAreCurrent, Locked, Judging
  <1>6. ChosenConfirmed'
    BY DEF TypeOK, ChosenConfirmed, SecretConfirmed
  <1>7. SessionRows'
    BY DEF TypeOK, SessionRows, Judging
  <1> QED BY <1>1, <1>2, <1>3, <1>4, <1>5, <1>6, <1>7

-----------------------------------------------------------------------------
LEMMA NextIInv == IInv /\ [Next]_vars => IInv'
  <1> SUFFICES ASSUME IInv, [Next]_vars PROVE IInv'
    OBVIOUS
  <1>1. CASE \E s \in Signups : SignupStep(s)
    BY <1>1, SignupLooksKeeps, InsertUserKeeps DEF SignupStep
  <1>2. CASE \E l \in Logins : LoginStep(l)
    BY <1>2, LoginLooksKeeps, LockForCountKeeps, IncrementFailedLoginKeeps,
       InsertSessionKeeps, UpdateLastLoginKeeps, LoginFailsKeeps, LogoutKeeps
    DEF LoginStep
  <1>3. CASE \E l \in Logins : SetupPage(l)
    BY <1>3, SetupPageKeeps
  <1>4. CASE \E r \in Settings : SettingStep(r)
    BY <1>4, TurnedAwayKeeps, EnableLooksKeeps, DisableLooksKeeps, SetTOTPKeeps,
       SettingFailsKeeps DEF SettingStep
  <1>5. CASE Replicate
    BY <1>5, ReplicateKeeps
  <1>6. CASE Tick
    BY <1>6, TickKeeps
  <1>7. CASE UNCHANGED vars
    BY <1>7 DEF IInv, TypeOK, OneAccount, CountIsFailures, LockMatchesCount, LockBounded,
        RowHeld, VerdictsAreCurrent, Locked, ChosenConfirmed, SecretConfirmed,
        SessionRows, vars, rowVars, sessionVars, replicaVars, loginVars, settingVars,
        historyVars
  <1>8. CASE Quiet
    BY <1>7, <1>8 DEF Quiet
  <1> QED BY <1>1, <1>2, <1>3, <1>4, <1>5, <1>6, <1>7, <1>8 DEF Next

THEOREM Invariance == Spec => []IInv
  BY InitIInv, NextIInv, PTL DEF Spec
-----------------------------------------------------------------------------
(***************************************************************************)
(* The theorems, one for each property of the run accounts.                *)
(***************************************************************************)
\* Every variable keeps its type.
THEOREM TypeCorrect == Spec => []TypeOK
  <1>1. IInv => TypeOK BY DEF IInv
  <1> QED BY <1>1, Invariance, PTL

\* Two signups of one email never both succeed.
THEOREM SignupIsUnique == Spec => []OneAccount
  <1>1. IInv => OneAccount BY DEF IInv
  <1> QED BY <1>1, Invariance, PTL

\* The counter of users.failed_login_count misses no failure.
THEOREM NoFailureLost == Spec => []CountIsFailures
  <1>1. IInv => CountIsFailures BY DEF IInv
  <1> QED BY <1>1, Invariance, PTL

\* locked_until is set exactly from the threshold on.
THEOREM LockAtThreshold == Spec => []LockMatchesCount
  <1>1. IInv => LockMatchesCount BY DEF IInv
  <1> QED BY <1>1, Invariance, PTL

\* A login that gets in satisfied the row at its start, and satisfies it still unless
\* the row was made stricter while the login was under way.
THEOREM VerdictsStand == Spec => []VerdictsAreCurrent
  <1>1. IInv => VerdictsAreCurrent BY DEF IInv
  <1> QED BY <1>1, Invariance, PTL

\* The second factor in force was confirmed by a code of its secret.
THEOREM FactorIsConfirmed == Spec => []SecretConfirmed
  <1>1. IInv => SecretConfirmed BY DEF IInv, ChosenConfirmed
  <1> QED BY <1>1, Invariance, PTL

\* Only IncrementFailedLogin counts a failure.
LEMMA FailuresGrow ==
    ASSUME IInv, [Next]_vars, failures' > failures
    PROVE  \E l \in Logins : IncrementFailedLogin(l)
  <1>1. failures \in Nat
    BY DEF IInv, TypeOK
  <1>2. failures' # failures /\ failures' # 0
    BY <1>1
  <1> QED
    BY <1>2 DEF Next, SignupStep, vars, historyVars, SignupLooks, InsertUser, LoginStep, LoginLooks,
       LockForCount, InsertSession, UpdateLastLogin, LoginFails, Logout, SetupPage,
       SettingStep, TurnedAway, EnableLooks, DisableLooks, SetTOTP, SettingFails,
       Replicate, Tick, Quiet

\* Failed logins only ever put the end of the lock off.
THEOREM LocksOnlyGrow == Spec => FailuresNeverEaseLock
  <1>1. ASSUME IInv, [Next]_vars, failures' > failures
        PROVE  until' >= until
    <2>1. PICK l \in Logins : IncrementFailedLogin(l)
      BY <1>1, FailuresGrow
    <2>2. read[l] = count /\ until' = LockUntil(count + 1)
      BY <1>1, <2>1 DEF IInv, RowHeld, IncrementFailedLogin
    <2>3. /\ count \in Nat /\ until \in Nat /\ clock \in Nat
          /\ until > 0 => count >= Threshold
          /\ until <= clock + LockTime
      BY <1>1 DEF IInv, TypeOK, LockMatchesCount, LockBounded
    <2> QED BY <2>2, <2>3, TimeAssumption DEF LockUntil
  <1> QED BY <1>1, Invariance, PTL DEF Spec, FailuresNeverEaseLock

\* Which steps take a request out of "idle", and what FindActive told them.
LEMMA Admissions ==
    ASSUME IInv, [Next]_vars, NEW r \in Settings, step[r] = "idle", step'[r] # "idle"
    PROVE  \E l \in Logins : /\ by'[r] = l /\ Sent(l)
                             /\ (step'[r] # "refused") <=> FindActive(l)
  <1>1. TurnedAway(r) \/ EnableLooks(r) \/ DisableLooks(r)
    <2>1. step' # step
      OBVIOUS
    <2>2. PICK q \in Settings : SettingStep(q)
      BY <2>1 DEF Next, SignupStep, vars, settingVars, SignupLooks, InsertUser, LoginStep, LoginLooks,
         LockForCount, IncrementFailedLogin, InsertSession, UpdateLastLogin, LoginFails,
         Logout, SetupPage, Replicate, Tick, Quiet
    <2>3. q = r
      BY <2>2 DEF IInv, TypeOK, SettingStep, TurnedAway, EnableLooks, DisableLooks,
         SetTOTP, SettingFails
    <2> QED BY <2>2, <2>3 DEF SettingStep, SetTOTP, SettingFails
  <1>2. CASE TurnedAway(r)
    BY <1>2 DEF TurnedAway, IInv, TypeOK
  <1>3. CASE EnableLooks(r)
    BY <1>3 DEF EnableLooks, IInv, TypeOK
  <1>4. CASE DisableLooks(r)
    BY <1>4 DEF DisableLooks, IInv, TypeOK
  <1> QED BY <1>1, <1>2, <1>3, <1>4

\* A request that was turned away carries the cookie of a session that has ended.
EndedSessions ==
    \A s \in Settings :
        step[s] = "refused" => by[s] \in Logins /\ Sent(by[s]) /\ ~FindActive(by[s])

\* A session that has ended stays so: only a login that no browser has a cookie of
\* inserts a row, and the clock does not go back.
LEMMA EndsForGood ==
    ASSUME IInv, [Next]_vars, NEW l \in Logins, Sent(l), ~FindActive(l)
    PROVE  Sent(l)' /\ ~FindActive(l)'
  <1>1. CASE \E m \in Logins : InsertSession(m)
    BY <1>1 DEF InsertSession, Sent, FindActive, IInv, TypeOK
  <1>2. CASE \E m \in Logins : Logout(m)
    BY <1>2 DEF Logout, Sent, FindActive, IInv, TypeOK
  <1>3. CASE \E m \in Logins : UpdateLastLogin(m) \/ LoginFails(m)
    BY <1>3 DEF UpdateLastLogin, LoginFails, Leave, sessionVars, Sent, FindActive, IInv,
       TypeOK
  <1>4. CASE \E m \in Logins : LoginLooks(m) \/ LockForCount(m) \/ IncrementFailedLogin(m)
    BY <1>4 DEF LoginLooks, LockForCount, IncrementFailedLogin, sessionVars, Sent,
       FindActive, IInv, TypeOK
  <1>5. CASE Tick
    BY <1>5 DEF Tick, loginVars, sessionVars, Sent, FindActive, IInv, TypeOK
  <1>6. CASE UNCHANGED <<clock, sessionVars, loginVars>>
    BY <1>6 DEF loginVars, sessionVars, Sent, FindActive
  <1> QED
    BY <1>1, <1>2, <1>3, <1>4, <1>5, <1>6 DEF Next, vars, LoginStep, SignupStep,
       SignupLooks, InsertUser, SetupPage, SettingStep, TurnedAway, EnableLooks,
       DisableLooks, SetTOTP, SettingFails, Replicate, Quiet

\* Only TurnedAway refuses, and a request that was refused stays as it is.
LEMMA Refusals ==
    ASSUME IInv, [Next]_vars, NEW s \in Settings, step'[s] = "refused"
    PROVE  \/ step[s] = "refused" /\ by'[s] = by[s]
           \/ by'[s] \in Logins /\ Sent(by'[s]) /\ ~FindActive(by'[s])
  <1>1. CASE step[s] = "idle"
    BY <1>1, Admissions
  <1>2. CASE step[s] # "idle"
    <2>1. CASE \E q \in Settings : SettingStep(q)
      BY <1>2, <2>1 DEF IInv, TypeOK, SettingStep, TurnedAway, EnableLooks, DisableLooks,
         SetTOTP, SettingFails
    <2>2. CASE UNCHANGED <<step, by>>
      BY <2>2
    <2> QED
      BY <2>1, <2>2 DEF Next, vars, settingVars, SignupStep, SignupLooks, InsertUser,
         LoginStep, LoginLooks, LockForCount, IncrementFailedLogin, InsertSession,
         UpdateLastLogin, LoginFails, Logout, SetupPage, Replicate, Tick, Quiet
  <1> QED BY <1>1, <1>2

LEMMA EndedInvariance == Spec => []EndedSessions
  <1>1. Init => EndedSessions
    BY DEF Init, EndedSessions
  <1>2. ASSUME IInv, EndedSessions, [Next]_vars
        PROVE  EndedSessions'
    <2> SUFFICES ASSUME NEW s \in Settings, step'[s] = "refused"
                 PROVE  (by[s] \in Logins /\ Sent(by[s]) /\ ~FindActive(by[s]))'
      BY DEF EndedSessions
    <2>1. by'[s] \in Logins /\ Sent(by'[s]) /\ ~FindActive(by'[s])
      BY <1>2, Refusals DEF EndedSessions
    <2>2. PICK l \in Logins : l = by'[s]
      BY <2>1
    <2>3. Sent(l)' /\ ~FindActive(l)'
      BY <1>2, <2>1, <2>2, EndsForGood
    <2> QED BY <2>2, <2>3 DEF Sent, FindActive
  <1> QED BY <1>1, <1>2, Invariance, PTL DEF Spec

\* A session is let in from its login to its logout or its end, and never after.
THEOREM SessionsAsTold == Spec => AdmittedAsTold
  <1>1. ASSUME IInv, [Next]_vars, NEW r \in Settings, LookedUp(r)
        PROVE  LetIn(r) <=> /\ pc[by'[r]] = "in" \/ by'[r] \in spared
                            /\ clock < expires[by'[r]]
    <2>1. PICK l \in Logins : /\ by'[r] = l /\ Sent(l)
                              /\ (step'[r] # "refused") <=> FindActive(l)
      BY <1>1, Admissions DEF LookedUp
    <2>2. l \in sessions <=> pc[l] = "in" \/ l \in spared
      BY <1>1, <2>1 DEF IInv, SessionRows, Sent
    <2> QED BY <1>1, <2>1, <2>2 DEF FindActive, LetIn
  <1>2. IInv /\ [Next]_vars => AdmittedRightly
    BY <1>1 DEF AdmittedRightly
  <1>3. ASSUME IInv, EndedSessions, [Next]_vars
        PROVE  TurnedAwayForGood
    <2> SUFFICES ASSUME NEW r \in Settings, NEW s \in Settings, LetIn(r),
                        step[s] = "refused"
                 PROVE  by'[r] # by[s]
      BY DEF TurnedAwayForGood
    <2>1. FindActive(by'[r])
      BY <1>3, Admissions DEF LetIn, LookedUp
    <2>2. ~FindActive(by[s])
      BY <1>3 DEF EndedSessions
    <2> QED BY <2>1, <2>2
  <1> QED BY <1>2, <1>3, Invariance, EndedInvariance, PTL DEF Spec, AdmittedAsTold
=============================================================================
