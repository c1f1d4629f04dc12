------------------------ MODULE SessionProofs ------------------------
(***************************************************************************)
(* Proofs about a session: whom it is authenticated as, and what passes    *)
(* between it and its client.  First Authenticator, for any users,         *)
(* sessions and times: its type invariant, that the CHECK on               *)
(* failed_attempts never fires, and that the lockout holds while           *)
(* timestamps fit in 32 bits.  Then Dialogue, for any lines typed, socket  *)
(* buffer and lengths of reads and replies: the client asks for what the   *)
(* server checks, shows the reply to its own command, and sees its login   *)
(* once.                                                                   *)
(***************************************************************************)
EXTENDS Authenticator, Dialogue, TLAPS

-----------------------------------------------------------------------------
(***************************************************************************)
(* What the operators of the table and the records do.                     *)
(***************************************************************************)
\* Reading a timestamp back gives an integer, and the timestamp itself when it
\* fits in 32 bits.
LEMMA Int32Type == \A x \in Nat : Int32(x) \in Int
  BY IntMaxAssumption DEF Int32

LEMMA Int32Exact == \A x \in Nat : x < IntMax => Int32(x) = x
  BY IntMaxAssumption DEF Int32

\* The rows of a new user and of no user.
LEMMA RowTypes ==
    \A r \in {NewRow, NoRow} :
        /\ r \in UserRow
        /\ r.failed_attempts = 0 /\ r.last_failed_timestamp = 0
  <1>1. /\ NewRow \in UserRow
        /\ NewRow.failed_attempts = 0 /\ NewRow.last_failed_timestamp = 0
    BY DEF NewRow, UserRow, MaxFailedAttempts
  <1> QED
    BY <1>1, Zenon DEF NoRow, UserRow

\* What each update does to a row.
LEMMA ResetRow ==
    \A r \in UserRow : LET q == [r EXCEPT !.failed_attempts = 0] IN
        /\ q \in UserRow
        /\ q.failed_attempts = 0
        /\ q.last_failed_timestamp = r.last_failed_timestamp
        /\ q.exists = r.exists
  BY DEF UserRow, MaxFailedAttempts

LEMMA LockRow ==
    \A r \in UserRow, b \in BOOLEAN : LET q == [r EXCEPT !.is_locked = b] IN
        /\ q \in UserRow
        /\ q.failed_attempts = r.failed_attempts
        /\ q.last_failed_timestamp = r.last_failed_timestamp
        /\ q.exists = r.exists
  BY DEF UserRow

\* The last failures after one more.
LEMMA NoFailuresType ==
    /\ NoFailures \in Failures
    /\ NoFailures.first = -BlockTime /\ NoFailures.second = -BlockTime /\ NoFailures.third = -BlockTime
  BY AuthenticatorAssumption DEF NoFailures, Failures

LEMMA LaterFailure ==
    ASSUME NEW f \in Failures, NEW t \in Nat
    PROVE  /\ Later(f, t) \in Failures
           /\ Later(f, t).first = f.second /\ Later(f, t).second = f.third /\ Later(f, t).third = t
  BY DEF Later, Failures

\* The records a session goes through.
LEMMA NewSessionType == NewSession \in SessionRecord /\ NewSession.pc = "idle"
  BY DEF NewSession, SessionRecord, NoData

LEMMA SuccessRecord ==
    \A u \in Users : LET q == [NewSession EXCEPT !.user = u, !.authenticated = TRUE] IN
        q \in SessionRecord /\ q.pc = "idle"
  BY NewSessionType, Zenon DEF SessionRecord

LEMMA GotoRecord ==
    \A r \in SessionRecord, p \in {"idle", "verify", "command"} :
        LET q == [r EXCEPT !.pc = p] IN
        /\ q \in SessionRecord
        /\ q.pc = p /\ q.user = r.user /\ q.currentTime = r.currentTime
  BY DEF SessionRecord

LoginData == [failedAttempts : 0..3, lastFailedTimestamp : Int]

-----------------------------------------------------------------------------
(***************************************************************************)
(* The failed_attempts a login read stay what the row holds until it       *)
(* writes them, because only the session that holds the mutex is inside    *)
(* authenticate.                                                           *)
(***************************************************************************)
MutexHeld == \A s \in Sessions : InAuthenticate(s) => mutex = s

AttemptsFresh ==
    \A s \in Sessions : At(s, "clock") =>
        session[s].data.failedAttempts = users[session[s].user].failed_attempts

\* Only a user that exists logs in, and one that does not has no failures.
MissingRows ==
    /\ \A u \in Users : ~users[u].exists => users[u].failed_attempts = 0 /\ recent[u] = NoFailures
    /\ \A s \in Sessions : InAuthenticate(s) => users[session[s].user].exists

AttemptsInv == TypeOK /\ MissingRows /\ MutexHeld /\ AttemptsFresh /\ AttemptsWithinCheck

\* The types without the clock and the observers, as the lemmas need them.
Typed == users \in [Users -> UserRow] /\ session \in [Sessions -> SessionRecord]

LEMMA TypeOKTyped == TypeOK => Typed
  BY DEF TypeOK, Typed, UsersTypeOK

\* What each step of a login changes.
LEMMA ReadEffect ==
    ASSUME Typed, NEW s \in Sessions, NEW u \in Users, ReadLoginData(s, u)
    PROVE  /\ session' \in [Sessions -> SessionRecord]
           /\ \A x \in Sessions \ {s} : session'[x] = session[x]
           /\ session'[s].pc = "clock" /\ session'[s].user = u
           /\ session'[s].data = getUserLoginData(u)
  <1>1. getUserLoginData(u) \in LoginData
    BY Int32Type DEF Typed, getUserLoginData, LoginData, UserRow, MaxFailedAttempts
  <1> DEFINE q == [session[s] EXCEPT !.pc = "clock", !.user = u, !.data = getUserLoginData(u)]
  <1>2. q \in SessionRecord /\ q.pc = "clock" /\ q.user = u /\ q.data = getUserLoginData(u)
    <2>1. session[s] \in SessionRecord
      BY DEF Typed
    <2> QED
      BY <1>1, <2>1, Zenon DEF SessionRecord, LoginData
  <1>3. session' = [session EXCEPT ![s] = q]
    BY DEF ReadLoginData
  <1> HIDE DEF q
  <1> QED
    BY <1>2, <1>3 DEF Typed

LEMMA ClockEffect ==
    ASSUME Typed, now \in Nat, NEW s \in Sessions, ReadClock(s)
    PROVE  /\ session' \in [Sessions -> SessionRecord]
           /\ \A x \in Sessions \ {s} : session'[x] = session[x]
           /\ session'[s].pc = (IF session[s].data.failedAttempts >= 3 THEN "reset" ELSE "verify")
           /\ session'[s].user = session[s].user
           /\ session'[s].currentTime = now
  <1> DEFINE p == IF session[s].data.failedAttempts >= 3 THEN "reset" ELSE "verify"
             q == [session[s] EXCEPT !.currentTime = now, !.pc = p]
  <1>1. q \in SessionRecord /\ q.pc = p /\ q.user = session[s].user /\ q.currentTime = now
    <2>1. p \in {"reset", "verify"}
      OBVIOUS
    <2>2. session[s] \in SessionRecord
      BY DEF Typed
    <2> HIDE DEF p
    <2> QED
      BY <2>1, <2>2, Zenon DEF SessionRecord
  <1>2. session' = [session EXCEPT ![s] = q]
    BY DEF ReadClock
  <1> HIDE DEF q
  <1> QED
    BY <1>1, <1>2 DEF Typed

LEMMA ResetEffect ==
    ASSUME Typed, NEW s \in Sessions, session[s].user \in Users, ResetAttempts(s)
    PROVE  LET u == session[s].user IN
           /\ session' \in [Sessions -> SessionRecord]
           /\ \A x \in Sessions \ {s} : session'[x] = session[x]
           /\ session'[s].pc = "verify" /\ session'[s].user = u
           /\ session'[s].currentTime = session[s].currentTime
           /\ users' \in [Users -> UserRow]
           /\ \A v \in Users \ {u} : users'[v] = users[v]
           /\ users'[u].failed_attempts = 0
           /\ users'[u].last_failed_timestamp = users[u].last_failed_timestamp
           /\ users'[u].exists = users[u].exists
  BY GotoRecord, ResetRow, Zenon DEF Typed, ResetAttempts, Goto, resetLoginAttempts

LEMMA SucceedEffect ==
    ASSUME Typed, NEW s \in Sessions, session[s].user \in Users, Succeed(s)
    PROVE  LET u == session[s].user IN
           /\ session' \in [Sessions -> SessionRecord]
           /\ \A x \in Sessions \ {s} : session'[x] = session[x]
           /\ session'[s].pc = "idle"
           /\ users' \in [Users -> UserRow]
           /\ \A v \in Users \ {u} : users'[v] = users[v]
           /\ users'[u].failed_attempts = 0
           /\ users'[u].last_failed_timestamp = users[u].last_failed_timestamp
           /\ users'[u].exists = users[u].exists
  BY SuccessRecord, ResetRow, Zenon DEF Typed, Succeed, resetLoginAttempts

LEMMA FailEffect ==
    ASSUME Typed, NEW s \in Sessions, session[s].user \in Users, Fail(s)
    PROVE  LET u == session[s].user
               t == session[s].currentTime IN
           /\ session' \in [Sessions -> SessionRecord]
           /\ \A x \in Sessions \ {s} : session'[x] = session[x]
           /\ session'[s].pc = "idle"
           /\ users' \in [Users -> UserRow]
           /\ \A v \in Users \ {u} : users'[v] = users[v]
           /\ users'[u].failed_attempts = users[u].failed_attempts + 1
           /\ users'[u].last_failed_timestamp = t /\ t \in Nat
           /\ users'[u].exists = users[u].exists
  <1> DEFINE u == session[s].user
             t == session[s].currentTime
             n == users[u].failed_attempts + 1
  <1>0. u \in Users
    OBVIOUS
  <1>1. t \in Nat /\ n \in 0..MaxFailedAttempts
    <2>1. session[s] \in SessionRecord /\ users[u] \in UserRow
      BY DEF Typed
    <2>2. users[u].failed_attempts < MaxFailedAttempts
      BY DEF Fail, incrementLoginAttempts
    <2> QED
      BY <2>1, <2>2 DEF SessionRecord, UserRow, MaxFailedAttempts
  <1>2. users' = [users EXCEPT ![u] = [users[u] EXCEPT !.failed_attempts = n, !.last_failed_timestamp = t]]
    BY DEF Fail, incrementLoginAttempts
  <1>3. session' = [session EXCEPT ![s] = NewSession]
    BY DEF Fail, Return
  <1> HIDE DEF n, t, u
  <1> DEFINE q == [users[u] EXCEPT !.failed_attempts = n, !.last_failed_timestamp = t]
  <1>5. /\ q \in UserRow
        /\ q.failed_attempts = n /\ q.last_failed_timestamp = t
        /\ q.exists = users[u].exists
    <2>1. users[u] \in UserRow
      BY <1>0 DEF Typed
    <2> QED
      BY <1>1, <2>1, Zenon DEF UserRow
  <1>2a. users' = [users EXCEPT ![u] = q]
    BY <1>2
  <1> HIDE DEF q
  <1>4. /\ users' \in [Users -> UserRow]
        /\ \A v \in Users \ {u} : users'[v] = users[v]
        /\ users'[u].failed_attempts = n
        /\ users'[u].last_failed_timestamp = t
        /\ users'[u].exists = users[u].exists
    BY <1>0, <1>2a, <1>5 DEF Typed
  <1> QED
    BY <1>1, <1>3, <1>4, NewSessionType DEF Typed, n, t, u

\* A call that returns without writing, and a command, leave an idle or busy
\* session outside authenticate; the table keeps its attempts.
LEMMA LeaveEffect ==
    ASSUME Typed, NEW s \in Sessions,
           RefuseBlocked(s) \/ StorageError(s) \/ StartCommand(s) \/ FinishCommand(s) \/ Disconnect(s)
    PROVE  /\ session' \in [Sessions -> SessionRecord]
           /\ \A x \in Sessions \ {s} : session'[x] = session[x]
           /\ session'[s].pc \in {"idle", "command"}
           /\ UNCHANGED <<users, now, recent>>
           /\ mutex' = mutex \/ (mutex' = NoSession /\ InAuthenticate(s))
  <1>1. CASE RefuseBlocked(s) \/ StorageError(s)
    BY <1>1, NewSessionType DEF Typed, RefuseBlocked, StorageError, Return, InAuthenticate, At
  <1>2. CASE StartCommand(s) \/ FinishCommand(s)
    <2>1. PICK p \in {"idle", "command"} : Goto(s, p) /\ UNCHANGED <<users, now, mutex, recent>>
      BY <1>2 DEF StartCommand, FinishCommand
    <2>2. session' = [session EXCEPT ![s] = [session[s] EXCEPT !.pc = p]]
      BY <2>1 DEF Goto
    <2>3. [session[s] EXCEPT !.pc = p] \in SessionRecord /\ [session[s] EXCEPT !.pc = p].pc = p
      <3>1. session[s] \in SessionRecord
        BY DEF Typed
      <3> QED
        BY <3>1 DEF SessionRecord
    <2> QED
      BY <2>1, <2>2, <2>3 DEF Typed
  <1>3. CASE Disconnect(s)
    BY <1>3, NewSessionType DEF Typed, Disconnect
  <1> QED
    BY <1>1, <1>2, <1>3

LEMMA TableEffect ==
    ASSUME Typed, NEW u \in Users, NEW b \in BOOLEAN, RegisterUser(u) \/ SetLockStatus(u, b)
    PROVE  /\ users' \in [Users -> UserRow]
           /\ \A v \in Users : users[v].exists =>
                /\ users'[v].failed_attempts = users[v].failed_attempts
                /\ users'[v].last_failed_timestamp = users[v].last_failed_timestamp
                /\ users'[v].exists
           /\ \A v \in Users : ~users[v].exists => users'[v] = users[v] \/ users'[v] = NewRow
           /\ UNCHANGED <<now, mutex, session, recent>>
  <1>1. CASE RegisterUser(u)
    BY <1>1, RowTypes DEF Typed, RegisterUser, createUser
  <1>2. CASE SetLockStatus(u, b)
    BY <1>2, LockRow DEF Typed, SetLockStatus, setClientLockStatus
  <1> QED
    BY <1>1, <1>2

-----------------------------------------------------------------------------
LEMMA AttemptsInvInit == Init => AttemptsInv
  <1> SUFFICES ASSUME Init PROVE AttemptsInv
    OBVIOUS
  <1>1. users \in [Users -> UserRow]
    BY RowTypes DEF Init
  <1>2. session \in [Sessions -> SessionRecord] /\ \A s \in Sessions : session[s].pc = "idle"
    BY NewSessionType DEF Init
  <1>3. now \in 0..MaxTime
    BY AuthenticatorAssumption DEF Init
  <1>4. recent \in [Users -> Failures]
    BY NoFailuresType DEF Init
  <1>5. TypeOK
    BY <1>1, <1>2, <1>3, <1>4 DEF Init, TypeOK, UsersTypeOK, InAuthenticate
  <1>6. MissingRows
    BY <1>2, RowTypes DEF Init, MissingRows, InAuthenticate
  <1> QED
    BY <1>2, <1>5, <1>6 DEF AttemptsInv, MutexHeld, AttemptsFresh, AttemptsWithinCheck, InAuthenticate, At

LEMMA TypeNext == TypeOK /\ [Next]_vars => TypeOK'
  <1> SUFFICES ASSUME TypeOK, [Next]_vars PROVE TypeOK'
    OBVIOUS
  <1>0. /\ Typed /\ now \in Nat
        /\ \A s \in Sessions : InAuthenticate(s) => session[s].user \in Users
    BY TypeOKTyped, AuthenticatorAssumption DEF TypeOK
  <1> USE DEF InAuthenticate, At
  <1>1. CASE Tick
    BY <1>1, AuthenticatorAssumption DEF Tick, TypeOK, UsersTypeOK
  <1>2. ASSUME NEW s \in Sessions, NEW u \in Users, ReadLoginData(s, u) PROVE TypeOK'
    <2>1. /\ session' \in [Sessions -> SessionRecord]
          /\ \A x \in Sessions \ {s} : session'[x] = session[x]
          /\ session'[s].user = u
      BY <1>0, <1>2, ReadEffect
    <2>2. mutex' = s /\ UNCHANGED <<users, now, recent>>
      BY <1>2 DEF ReadLoginData
    <2> QED
      BY <1>0, <2>1, <2>2 DEF TypeOK, UsersTypeOK
  <1>3. ASSUME NEW s \in Sessions, ReadClock(s) PROVE TypeOK'
    BY <1>0, <1>3, ClockEffect, ZenonT(60) DEF ReadClock, TypeOK, UsersTypeOK
  <1>4. ASSUME NEW s \in Sessions, ResetAttempts(s) PROVE TypeOK'
    BY <1>0, <1>4, ResetEffect, ZenonT(60) DEF ResetAttempts, TypeOK, UsersTypeOK
  <1>5. ASSUME NEW s \in Sessions, Succeed(s) PROVE TypeOK'
    <2>1. recent' \in [Users -> Failures]
      BY <1>0, <1>5, NoFailuresType DEF Succeed, TypeOK
    <2> QED
      BY <1>0, <1>5, <2>1, SucceedEffect, ZenonT(60) DEF Succeed, TypeOK, UsersTypeOK
  <1>6. ASSUME NEW s \in Sessions, Fail(s) PROVE TypeOK'
    <2>1. session[s].user \in Users
      BY <1>0, <1>6 DEF Fail
    <2>2. recent' \in [Users -> Failures]
      <3>1. session[s].currentTime \in Nat /\ recent[session[s].user] \in Failures
        BY <1>0, <1>6, <2>1, FailEffect, Zenon DEF TypeOK
      <3>2. Later(recent[session[s].user], session[s].currentTime) \in Failures
        BY <3>1, LaterFailure
      <3> QED
        BY <1>6, <2>1, <3>2 DEF Fail, TypeOK
    <2> QED
      BY <1>0, <1>6, <2>1, <2>2, FailEffect, Zenon DEF Fail, Return, TypeOK, UsersTypeOK
  <1>7. ASSUME NEW s \in Sessions,
               RefuseBlocked(s) \/ StorageError(s) \/ StartCommand(s) \/ FinishCommand(s) \/ Disconnect(s)
        PROVE  TypeOK'
    BY <1>0, <1>7, LeaveEffect DEF TypeOK, UsersTypeOK
  <1>8. ASSUME NEW u \in Users, NEW b \in BOOLEAN, RegisterUser(u) \/ SetLockStatus(u, b) PROVE TypeOK'
    BY <1>0, <1>8, TableEffect, Zenon DEF TypeOK, UsersTypeOK
  <1>9. CASE Crash
    BY <1>9, NewSessionType DEF Crash, TypeOK, UsersTypeOK
  <1>10. CASE UNCHANGED vars
    BY <1>10 DEF vars, TypeOK, UsersTypeOK
  <1> QED
    BY <1>1, <1>2, <1>3, <1>4, <1>5, <1>6, <1>7, <1>8, <1>9, <1>10, Zenon DEF Next, SessionStep

LEMMA MissingRowsNext == TypeOK /\ MissingRows /\ [Next]_vars => MissingRows'
  <1> SUFFICES ASSUME TypeOK, MissingRows, [Next]_vars PROVE MissingRows'
    OBVIOUS
  <1>0. /\ Typed /\ now \in Nat /\ recent \in [Users -> Failures]
        /\ \A s \in Sessions : InAuthenticate(s) => session[s].user \in Users
    BY TypeOKTyped, AuthenticatorAssumption DEF TypeOK
  <1> USE DEF MissingRows, InAuthenticate, At
  <1>1. CASE Tick
    BY <1>1 DEF Tick
  <1>2. ASSUME NEW s \in Sessions, NEW u \in Users, ReadLoginData(s, u) PROVE MissingRows'
    <2>1. /\ \A x \in Sessions \ {s} : session'[x] = session[x]
          /\ session'[s].user = u
      BY <1>0, <1>2, ReadEffect
    <2>2. users[u].exists /\ UNCHANGED <<users, recent>>
      BY <1>2 DEF ReadLoginData
    <2> QED
      BY <2>1, <2>2, Zenon
  <1>3. ASSUME NEW s \in Sessions, ReadClock(s) PROVE MissingRows'
    BY <1>0, <1>3, ClockEffect, ZenonT(60) DEF ReadClock
  <1>4. ASSUME NEW s \in Sessions, ResetAttempts(s) PROVE MissingRows'
    <2> DEFINE u == session[s].user
    <2>1. u \in Users /\ users[u].exists /\ recent' = recent
      BY <1>0, <1>4 DEF ResetAttempts
    <2>2. /\ \A x \in Sessions \ {s} : session'[x] = session[x]
          /\ session'[s].user = u
          /\ \A v \in Users \ {u} : users'[v] = users[v]
          /\ users'[u].exists
      BY <1>0, <1>4, <2>1, ResetEffect, Zenon
    <2> HIDE DEF u
    <2>3. \A v \in Users : users'[v].exists = users[v].exists \/ v = u
      BY <2>2
    <2>4. \A x \in Sessions \ {s} : InAuthenticate(x)' => users'[session'[x].user].exists
      BY <1>0, <2>1, <2>2, <2>3
    <2>5. users'[session'[s].user].exists
      BY <2>2
    <2>6. \A v \in Users : ~users'[v].exists => users'[v].failed_attempts = 0 /\ recent'[v] = NoFailures
      BY <2>1, <2>2
    <2> QED
      BY <2>4, <2>5, <2>6
  <1>5. ASSUME NEW s \in Sessions, Succeed(s) \/ Fail(s) PROVE MissingRows'
    <2> DEFINE u == session[s].user
    <2>1. u \in Users /\ users[u].exists
      BY <1>0, <1>5, Zenon DEF Succeed, Fail
    <2>2. /\ \A x \in Sessions \ {s} : session'[x] = session[x]
          /\ session'[s].pc = "idle"
          /\ \A v \in Users \ {u} : users'[v] = users[v]
          /\ users'[u].exists
      BY <1>0, <1>5, <2>1, SucceedEffect, FailEffect
    <2>3. \A v \in Users \ {u} : recent'[v] = recent[v]
      BY <1>0, <1>5, <2>1, Zenon DEF Succeed, Fail
    <2> HIDE DEF u
    <2> QED
      BY <1>0, <2>1, <2>2, <2>3
  <1>6. ASSUME NEW s \in Sessions,
               RefuseBlocked(s) \/ StorageError(s) \/ StartCommand(s) \/ FinishCommand(s) \/ Disconnect(s)
        PROVE  MissingRows'
    BY <1>0, <1>6, LeaveEffect, Zenon
  <1>7. ASSUME NEW u \in Users, NEW b \in BOOLEAN, RegisterUser(u) \/ SetLockStatus(u, b) PROVE MissingRows'
    BY <1>0, <1>7, TableEffect, RowTypes
  <1>8. CASE Crash
    BY <1>8, NewSessionType DEF Crash
  <1>9. CASE UNCHANGED vars
    BY <1>9, Zenon DEF vars
  <1> QED
    BY <1>1, <1>2, <1>3, <1>4, <1>5, <1>6, <1>7, <1>8, <1>9, Zenon DEF Next, SessionStep

\* One step per action: others are outside authenticate while the session that
\* holds the mutex writes, and nobody else writes failed_attempts.
LEMMA AttemptsInvNext == AttemptsInv /\ [Next]_vars => AttemptsInv'
  <1> SUFFICES ASSUME AttemptsInv, [Next]_vars PROVE AttemptsInv'
    OBVIOUS
  <1>0. /\ TypeOK /\ TypeOK' /\ Typed /\ now \in Nat
        /\ \A s \in Sessions : InAuthenticate(s) => session[s].user \in Users
    BY TypeNext, TypeOKTyped, AuthenticatorAssumption DEF TypeOK, AttemptsInv
  <1>b. MissingRows /\ MissingRows'
    BY MissingRowsNext DEF AttemptsInv
  <1>a. MutexHeld /\ AttemptsFresh /\ AttemptsWithinCheck
    BY DEF AttemptsInv
  <1> SUFFICES MutexHeld' /\ AttemptsFresh' /\ AttemptsWithinCheck'
    BY <1>0, <1>b DEF AttemptsInv
  <1> USE DEF MutexHeld, AttemptsFresh, AttemptsWithinCheck, InAuthenticate, At
  <1>1. CASE Tick
    BY <1>a, <1>1, Zenon DEF Tick
  <1>2. ASSUME NEW s \in Sessions, NEW u \in Users, ReadLoginData(s, u)
        PROVE  MutexHeld' /\ AttemptsFresh' /\ AttemptsWithinCheck'
    <2>1. /\ \A x \in Sessions \ {s} : session'[x] = session[x]
          /\ session'[s].pc = "clock" /\ session'[s].user = u
          /\ session'[s].data = getUserLoginData(u)
      BY <1>0, <1>2, ReadEffect
    <2>4. getUserLoginData(u).failedAttempts = users[u].failed_attempts
      BY DEF getUserLoginData
    <2>2. mutex = NoSession /\ mutex' = s /\ users' = users
      BY <1>2 DEF ReadLoginData
    <2>3. \A x \in Sessions \ {s} : ~InAuthenticate(x)
      BY <1>a, <2>2, AuthenticatorAssumption
    <2> QED
      BY <2>1, <2>2, <2>3, <2>4, Zenon
  <1>3. ASSUME NEW s \in Sessions, ReadClock(s)
        PROVE  MutexHeld' /\ AttemptsFresh' /\ AttemptsWithinCheck'
    <2>1. /\ \A x \in Sessions \ {s} : session'[x] = session[x]
          /\ session'[s].pc = (IF session[s].data.failedAttempts >= 3 THEN "reset" ELSE "verify")
          /\ session'[s].user = session[s].user
      BY <1>0, <1>3, ClockEffect
    <2>2. At(s, "clock") /\ mutex' = mutex /\ users' = users
      BY <1>3 DEF ReadClock
    <2>3. session[s].data.failedAttempts = users[session[s].user].failed_attempts
      BY <1>a, <2>2
    <2>4. session[s].data.failedAttempts \in 0..3
      BY <1>0, Zenon DEF Typed, SessionRecord
    <2> QED
      BY <1>a, <2>1, <2>2, <2>3, <2>4 DEF MaxFailedAttempts
  <1>4. ASSUME NEW s \in Sessions, ResetAttempts(s)
        PROVE  MutexHeld' /\ AttemptsFresh' /\ AttemptsWithinCheck'
    <2>1. /\ \A x \in Sessions \ {s} : session'[x] = session[x]
          /\ session'[s].pc = "verify" /\ session'[s].user = session[s].user
          /\ users'[session[s].user].failed_attempts = 0
      BY <1>0, <1>4, ResetEffect, Zenon DEF ResetAttempts
    <2>2. At(s, "reset") /\ mutex' = mutex
      BY <1>4 DEF ResetAttempts
    <2>3. \A x \in Sessions \ {s} : ~InAuthenticate(x)
      BY <1>a, <2>2
    <2> QED
      BY <1>a, <2>1, <2>2, <2>3 DEF MaxFailedAttempts
  <1>5. ASSUME NEW s \in Sessions, Succeed(s) \/ Fail(s)
        PROVE  MutexHeld' /\ AttemptsFresh' /\ AttemptsWithinCheck'
    <2>1. /\ \A x \in Sessions \ {s} : session'[x] = session[x]
          /\ session'[s].pc = "idle"
      BY <1>0, <1>5, SucceedEffect, FailEffect, Zenon DEF Succeed, Fail
    <2>2. \A x \in Sessions \ {s} : ~InAuthenticate(x)
      BY <1>a, <1>5 DEF Succeed, Fail
    <2> QED
      BY <2>1, <2>2
  <1>6. ASSUME NEW s \in Sessions,
               RefuseBlocked(s) \/ StorageError(s) \/ StartCommand(s) \/ FinishCommand(s) \/ Disconnect(s)
        PROVE  MutexHeld' /\ AttemptsFresh' /\ AttemptsWithinCheck'
    <2>1. /\ \A x \in Sessions \ {s} : session'[x] = session[x]
          /\ session'[s].pc \in {"idle", "command"}
          /\ users' = users
          /\ mutex' = mutex \/ InAuthenticate(s)
      BY <1>0, <1>6, LeaveEffect, Zenon
    <2> QED
      BY <1>a, <2>1, ZenonT(60)
  <1>7. ASSUME NEW u \in Users, NEW b \in BOOLEAN, RegisterUser(u) \/ SetLockStatus(u, b)
        PROVE  MutexHeld' /\ AttemptsFresh' /\ AttemptsWithinCheck'
    <2>1. \A v \in Users : users'[v].failed_attempts = users[v].failed_attempts
      <3>1. CASE RegisterUser(u)
        <4>1. users' = [users EXCEPT ![u] = NewRow] /\ ~users[u].exists
          BY <3>1 DEF RegisterUser, createUser
        <4> QED
          BY <1>0, <1>b, <4>1, RowTypes DEF Typed, MissingRows
      <3>2. CASE SetLockStatus(u, b)
        BY <1>0, <3>2, LockRow DEF Typed, SetLockStatus, setClientLockStatus
      <3> QED
        BY <1>7, <3>1, <3>2, Zenon
    <2>2. session' = session /\ mutex' = mutex
      BY <1>7 DEF RegisterUser, SetLockStatus
    <2> QED
      BY <1>0, <1>a, <2>1, <2>2, Zenon
  <1>8. CASE Crash
    BY <1>8, NewSessionType DEF Crash
  <1>9. CASE UNCHANGED vars
    BY <1>a, <1>9 DEF vars
  <1> QED
    BY <1>1, <1>2, <1>3, <1>4, <1>5, <1>6, <1>7, <1>8, <1>9, Zenon DEF Next, SessionStep

(***************************************************************************)
(* The type invariant, for any users, sessions, clock and block time.      *)
(***************************************************************************)
THEOREM TypeCorrect == Spec => []TypeOK
  <1>1. AttemptsInv => TypeOK
    BY DEF AttemptsInv
  <1> QED
    BY <1>1, AttemptsInvInit, AttemptsInvNext, PTL DEF Spec

(***************************************************************************)
(* updateLoginAttempts never meets the CHECK on failed_attempts, however   *)
(* many sessions log in at once and wherever the storage throws.           *)
(***************************************************************************)
THEOREM CheckNeverFires == Spec => []AttemptsWithinCheck
  <1>1. AttemptsInv => AttemptsWithinCheck
    BY DEF AttemptsInv
  <1> QED
    BY <1>1, AttemptsInvInit, AttemptsInvNext, PTL DEF Spec

-----------------------------------------------------------------------------
(***************************************************************************)
(* The lockout.  The failures of a user since its last success form runs:  *)
(* failed_attempts counts the failures of the current run, and a run       *)
(* starts a block time or more after the end of the one before.            *)
(***************************************************************************)
Ordered(f, t) == f.first <= f.second /\ f.second <= f.third /\ f.third <= t

\* A new run may start at t.
MayStart(f, t) == t - f.third >= BlockTime

\* a failures belong to the current run.
RunStart(f, a) ==
    /\ a = 1 => f.third - f.second >= BlockTime
    /\ a = 2 => f.second - f.first >= BlockTime

Runs(u) ==
    LET f == recent[u]
        a == users[u].failed_attempts
    IN
    /\ Ordered(f, now)
    /\ RunStart(f, a)
    /\ a > 0 => users[u].last_failed_timestamp = f.third
    /\ a = 0 => MayStart(f, now)

Caller(s) ==
    LET u == session[s].user
        f == recent[u]
        t == session[s].currentTime
    IN
    /\ At(s, "clock") => session[s].data.lastFailedTimestamp = Int32(users[u].last_failed_timestamp)
    /\ session[s].pc \in {"reset", "verify"} => t <= now /\ Ordered(f, t)
    /\ At(s, "reset") => MayStart(f, t)
    /\ At(s, "verify") /\ users[u].failed_attempts = 0 => MayStart(f, t)

LockoutInv ==
    /\ AttemptsInv
    /\ \A u \in Users : Runs(u)
    /\ \A s \in Sessions : Caller(s)

\* Failures stay in order, and a run that may start still may, as time passes.
LEMMA TimePasses ==
    ASSUME NEW f \in Failures, NEW t \in Int, NEW r \in Int, t <= r
    PROVE  /\ Ordered(f, t) => Ordered(f, r)
           /\ MayStart(f, t) => MayStart(f, r)
  BY AuthenticatorAssumption DEF Failures, Ordered, MayStart

\* One more failure continues the run, or starts one when it may.
LEMMA OneMoreFailure ==
    ASSUME NEW f \in Failures, NEW t \in Nat, NEW a \in 0..2,
           Ordered(f, t), RunStart(f, a), a = 0 => MayStart(f, t)
    PROVE  Ordered(Later(f, t), t) /\ RunStart(Later(f, t), a + 1)
  <1> DEFINE q == Later(f, t)
  <1>1. q \in Failures /\ q.first = f.second /\ q.second = f.third /\ q.third = t
    BY LaterFailure
  <1> HIDE DEF q
  <1>2. f.first \in Int /\ f.second \in Int /\ f.third \in Int
    BY Zenon DEF Failures
  <1> QED
    BY <1>1, <1>2, AuthenticatorAssumption DEF Ordered, RunStart, MayStart, q

\* What a caller knows of the row and of the failures of its user.
LEMMA CallerTypes ==
    ASSUME AttemptsInv, NEW s \in Sessions, InAuthenticate(s)
    PROVE  LET u == session[s].user IN
           /\ u \in Users /\ users[u] \in UserRow /\ users[u].exists
           /\ users[u].failed_attempts \in 0..3 /\ users[u].last_failed_timestamp \in Nat
           /\ recent[u] \in Failures
           /\ session[s].currentTime \in Nat /\ session[s].data \in LoginData
           /\ At(s, "verify") => users[u].failed_attempts \in 0..2
           /\ \A x \in Sessions \ {s} : ~InAuthenticate(x)
  <1> DEFINE u == session[s].user
  <1>1. TypeOK /\ MutexHeld /\ MissingRows /\ AttemptsWithinCheck
    BY DEF AttemptsInv
  <1>2. u \in Users /\ session[s] \in SessionRecord
    BY <1>1 DEF TypeOK
  <1>3. users[u] \in UserRow /\ users[u].exists /\ recent[u] \in Failures
    BY <1>1, <1>2, Zenon DEF TypeOK, UsersTypeOK, MissingRows
  <1>4. users[u].failed_attempts \in 0..3 /\ users[u].last_failed_timestamp \in Nat
    BY <1>3 DEF UserRow, MaxFailedAttempts
  <1>5. session[s].currentTime \in Nat /\ session[s].data \in LoginData
    BY <1>2, Zenon DEF SessionRecord, LoginData
  <1>6. At(s, "verify") => users[u].failed_attempts \in 0..2
    BY <1>1, <1>4 DEF AttemptsWithinCheck, MaxFailedAttempts
  <1>7. \A x \in Sessions \ {s} : ~InAuthenticate(x)
    BY <1>1, Zenon DEF MutexHeld
  <1> QED
    BY <1>2, <1>3, <1>4, <1>5, <1>6, <1>7

\* Three failures closer than a block time belong to one run.
LEMMA LockoutInvImplies == LockoutInv => LockoutHolds
  <1> SUFFICES ASSUME LockoutInv, NEW s \in Sessions, At(s, "verify"),
                      recent[session[s].user].third - recent[session[s].user].first < BlockTime
               PROVE  session[s].currentTime - recent[session[s].user].third >= BlockTime
    BY Zenon DEF LockoutHolds
  <1> DEFINE u == session[s].user
             f == recent[u]
             a == users[u].failed_attempts
  <1>1. u \in Users /\ f \in Failures /\ a \in 0..2
    BY CallerTypes, Zenon DEF LockoutInv, InAuthenticate, At
  <1>2. RunStart(f, a) /\ Ordered(f, now)
    BY <1>1, Zenon DEF LockoutInv, Runs
  <1>3. a = 0 => MayStart(f, session[s].currentTime)
    BY DEF LockoutInv, Caller
  <1>4. f.third - f.first < BlockTime
    OBVIOUS
  <1> HIDE DEF f, a
  <1>5. a = 0
    BY <1>1, <1>2, <1>4, AuthenticatorAssumption DEF RunStart, Ordered, Failures
  <1> QED
    BY <1>3, <1>5, Zenon DEF MayStart, f

LEMMA LockoutInvInit == Init => LockoutInv
  <1> SUFFICES ASSUME Init PROVE LockoutInv
    OBVIOUS
  <1>1. AttemptsInv
    BY AttemptsInvInit
  <1>2. ASSUME NEW u \in Users PROVE Runs(u)
    <2>1. recent[u] = NoFailures /\ users[u].failed_attempts = 0 /\ now = 0
      BY RowTypes DEF Init
    <2> QED
      BY <2>1, NoFailuresType, AuthenticatorAssumption DEF Runs, Ordered, RunStart, MayStart
  <1>3. ASSUME NEW s \in Sessions PROVE Caller(s)
    BY NewSessionType DEF Init, Caller, At
  <1> QED
    BY <1>1, <1>2, <1>3 DEF LockoutInv

LEMMA LockoutInvNext ==
    ASSUME MaxTime < IntMax
    PROVE  LockoutInv /\ [Next]_vars => LockoutInv'
  <1> SUFFICES ASSUME LockoutInv, [Next]_vars
               PROVE  (\A u \in Users : Runs(u)') /\ (\A s \in Sessions : Caller(s)')
    BY AttemptsInvNext DEF LockoutInv
  <1>0. /\ AttemptsInv /\ AttemptsInv' /\ Typed
        /\ now \in Nat /\ now <= MaxTime /\ recent \in [Users -> Failures]
        /\ \A u \in Users : Runs(u)
        /\ \A s \in Sessions : Caller(s)
    BY AttemptsInvNext, TypeOKTyped, AuthenticatorAssumption DEF LockoutInv, AttemptsInv, TypeOK
  <1>row. \A u \in Users : users[u].failed_attempts \in 0..3
    BY <1>0 DEF Typed, UserRow, MaxFailedAttempts
  <1>1. CASE Tick
    <2>1. now' = now + 1 /\ UNCHANGED <<users, mutex, session, recent>>
      BY <1>1, ZenonT(60) DEF Tick
    <2>2. ASSUME NEW u \in Users PROVE Runs(u)'
      <3>1. Runs(u) /\ recent[u] \in Failures
        BY <1>0, Zenon
      <3>2. now \in Int /\ now' \in Int /\ now <= now'
        BY <1>0, <2>1
      <3>3. /\ Ordered(recent[u], now) => Ordered(recent[u], now')
            /\ MayStart(recent[u], now) => MayStart(recent[u], now')
        BY <3>1, <3>2, TimePasses, Zenon
      <3> QED
        BY <2>1, <3>1, <3>3, Zenon DEF Runs
    <2>3. ASSUME NEW s \in Sessions PROVE Caller(s)'
      <3>1. CASE InAuthenticate(s)
        <4>1. Caller(s) /\ session[s].currentTime \in Nat
          BY <1>0, <3>1, CallerTypes, Zenon
        <4>2. session[s].currentTime <= now => session[s].currentTime <= now'
          BY <1>0, <2>1, <4>1
        <4> QED
          BY <2>1, <4>1, <4>2, Zenon DEF Caller, At
      <3>2. CASE ~InAuthenticate(s)
        BY <2>1, <3>2 DEF Caller, InAuthenticate, At
      <3> QED
        BY <3>1, <3>2, ZenonT(60)
    <2> QED
      BY <2>2, <2>3
  <1>2. ASSUME NEW s \in Sessions, NEW u \in Users, ReadLoginData(s, u)
        PROVE  (\A v \in Users : Runs(v)') /\ (\A x \in Sessions : Caller(x)')
    <2>1. /\ \A x \in Sessions \ {s} : session'[x] = session[x]
          /\ session'[s].pc = "clock" /\ session'[s].user = u
          /\ session'[s].data = getUserLoginData(u)
      BY <1>0, <1>2, ReadEffect
    <2>2. UNCHANGED <<users, now, recent>>
      BY <1>2 DEF ReadLoginData
    <2>3. getUserLoginData(u).lastFailedTimestamp = Int32(users[u].last_failed_timestamp)
      BY Zenon DEF getUserLoginData
    <2>4. Caller(s)'
      BY <2>1, <2>2, <2>3, Zenon DEF Caller, At, Int32
    <2>5. \A x \in Sessions \ {s} : Caller(x)'
      BY <1>0, <2>1, <2>2, ZenonT(60) DEF Caller, At, Int32
    <2>6. \A v \in Users : Runs(v)'
      BY <1>0, <2>2 DEF Runs
    <2> QED
      BY <2>4, <2>5, <2>6, Zenon
  <1>3. ASSUME NEW s \in Sessions, ReadClock(s)
        PROVE  (\A v \in Users : Runs(v)') /\ (\A x \in Sessions : Caller(x)')
    <2> DEFINE u == session[s].user
               f == recent[u]
    <2>1. /\ \A x \in Sessions \ {s} : session'[x] = session[x]
          /\ session'[s].pc = (IF session[s].data.failedAttempts >= 3 THEN "reset" ELSE "verify")
          /\ session'[s].user = u
          /\ session'[s].currentTime = now
      BY <1>0, <1>3, ClockEffect
    <2>2. /\ UNCHANGED <<users, now, recent>>
          /\ At(s, "clock") /\ ~Blocked(session[s].data, now)
      BY <1>3 DEF ReadClock
    <2>3. InAuthenticate(s)
      BY <2>2, Zenon DEF InAuthenticate, At
    <2>4. /\ u \in Users /\ f \in Failures /\ Runs(u)
          /\ users[u].failed_attempts \in 0..3 /\ users[u].last_failed_timestamp \in Nat
      BY <1>0, <2>3, CallerTypes, Zenon
    <2>5. /\ session[s].data.failedAttempts = users[u].failed_attempts
          /\ session[s].data.lastFailedTimestamp = Int32(users[u].last_failed_timestamp)
      BY <1>0, <2>2, ZenonT(60) DEF AttemptsInv, AttemptsFresh, Caller
    <2>6. users[u].failed_attempts >= 3 => MayStart(f, now)
      <3> SUFFICES ASSUME users[u].failed_attempts >= 3 PROVE MayStart(f, now)
        BY SMTT(30)
      <3>1. users[u].last_failed_timestamp = f.third /\ f.third <= now /\ f.third \in Int
        BY <2>4, SMTT(30) DEF Runs, Ordered, Failures
      <3>2. f.third < IntMax
        BY <1>0, <3>1, AuthenticatorAssumption, IntMaxAssumption
      <3>3. session[s].data.lastFailedTimestamp = f.third
        BY <2>4, <2>5, <3>1, <3>2, Int32Exact, Zenon
      <3> HIDE DEF f
      <3> QED
        BY <1>0, <2>2, <2>5, <3>1, <3>3, AuthenticatorAssumption, SMTT(30) DEF Blocked, MayStart
    <2>7. Ordered(f, now) /\ (users[u].failed_attempts = 0 => MayStart(f, now))
      BY <2>4, ZenonT(60) DEF Runs
    <2>8. Caller(s)'
      <3> HIDE DEF u
      <3> QED
        BY <1>0, <2>1, <2>2, <2>5, <2>6, <2>7 DEF Caller, At
    <2>9. \A x \in Sessions \ {s} : Caller(x)'
      BY <1>0, <2>1, <2>2, ZenonT(60) DEF Caller, At, Int32
    <2>10. \A v \in Users : Runs(v)'
      BY <1>0, <2>2, Zenon DEF Runs
    <2> QED
      BY <2>8, <2>9, <2>10, Zenon
  <1>4. ASSUME NEW s \in Sessions, ResetAttempts(s)
        PROVE  (\A v \in Users : Runs(v)') /\ (\A x \in Sessions : Caller(x)')
    <2> DEFINE u == session[s].user
               f == recent[u]
               t == session[s].currentTime
    <2>1. InAuthenticate(s) /\ At(s, "reset") /\ UNCHANGED <<now, recent>>
      BY <1>4, Zenon DEF ResetAttempts, InAuthenticate, At
    <2>2. /\ u \in Users /\ f \in Failures /\ t \in Nat /\ Runs(u)
          /\ \A x \in Sessions \ {s} : ~InAuthenticate(x)
      BY <1>0, <2>1, CallerTypes, Zenon
    <2>3. /\ \A x \in Sessions \ {s} : session'[x] = session[x]
          /\ session'[s].pc = "verify" /\ session'[s].user = u /\ session'[s].currentTime = t
          /\ \A v \in Users \ {u} : users'[v] = users[v]
          /\ users'[u].failed_attempts = 0
      BY <1>0, <1>4, <2>2, ResetEffect, Zenon
    <2>4. t <= now /\ Ordered(f, t) /\ MayStart(f, t)
      BY <1>0, <2>1, Zenon DEF Caller, At
    <2>5. Ordered(f, now) /\ MayStart(f, now)
      BY <1>0, <2>2, <2>4, TimePasses, SMTT(30)
    <2>6. \A v \in Users : v = u => Runs(v)'
      BY <2>1, <2>3, <2>5 DEF Runs, RunStart
    <2>7. \A v \in Users \ {u} : Runs(v)'
      BY <1>0, <2>1, <2>3, ZenonT(60) DEF Runs
    <2>8. Caller(s)'
      BY <2>1, <2>3, <2>4, Zenon DEF Caller, At
    <2>9. \A x \in Sessions \ {s} : Caller(x)'
      BY <2>2, <2>3 DEF Caller, InAuthenticate, At
    <2> QED
      BY <2>6, <2>7, <2>8, <2>9, Zenon
  <1>5. ASSUME NEW s \in Sessions, Succeed(s)
        PROVE  (\A v \in Users : Runs(v)') /\ (\A x \in Sessions : Caller(x)')
    <2> DEFINE u == session[s].user
    <2>1. /\ InAuthenticate(s) /\ now' = now
          /\ recent' = [recent EXCEPT ![u] = NoFailures]
      BY <1>5, Zenon DEF Succeed, InAuthenticate, At
    <2>2. u \in Users /\ \A x \in Sessions \ {s} : ~InAuthenticate(x)
      BY <1>0, <2>1, CallerTypes, ZenonT(60)
    <2>3. /\ \A x \in Sessions \ {s} : session'[x] = session[x]
          /\ session'[s].pc = "idle"
          /\ \A v \in Users \ {u} : users'[v] = users[v]
          /\ users'[u].failed_attempts = 0
      BY <1>0, <1>5, <2>2, SucceedEffect
    <2> HIDE DEF u
    <2>4. recent'[u] = NoFailures /\ \A v \in Users \ {u} : recent'[v] = recent[v]
      BY <1>0, <2>1, <2>2, Zenon
    <2>5. \A v \in Users : v = u => Runs(v)'
      BY <1>0, <2>1, <2>3, <2>4, NoFailuresType, AuthenticatorAssumption
         DEF Runs, Ordered, RunStart, MayStart
    <2>6. \A v \in Users \ {u} : Runs(v)'
      BY <1>0, <2>1, <2>3, <2>4, Zenon DEF Runs
    <2>7. \A x \in Sessions : Caller(x)'
      BY <2>2, <2>3, Zenon DEF Caller, InAuthenticate, At
    <2> QED
      BY <2>5, <2>6, <2>7
  <1>6. ASSUME NEW s \in Sessions, Fail(s)
        PROVE  (\A v \in Users : Runs(v)') /\ (\A x \in Sessions : Caller(x)')
    <2> DEFINE u == session[s].user
               f == recent[u]
               t == session[s].currentTime
               a == users[u].failed_attempts
    <2>1. /\ InAuthenticate(s) /\ At(s, "verify") /\ now' = now
          /\ recent' = [recent EXCEPT ![u] = Later(f, t)]
      BY <1>6, Zenon DEF Fail, InAuthenticate, At
    <2>2. /\ u \in Users /\ f \in Failures /\ t \in Nat /\ a \in 0..2 /\ Runs(u)
          /\ \A x \in Sessions \ {s} : ~InAuthenticate(x)
      BY <1>0, <2>1, CallerTypes, ZenonT(60)
    <2>3. /\ \A x \in Sessions \ {s} : session'[x] = session[x]
          /\ session'[s].pc = "idle"
          /\ \A v \in Users \ {u} : users'[v] = users[v]
          /\ users'[u].failed_attempts = a + 1
          /\ users'[u].last_failed_timestamp = t
      BY <1>0, <1>6, <2>2, FailEffect, Zenon
    <2>4. t <= now /\ Ordered(f, t) /\ RunStart(f, a) /\ (a = 0 => MayStart(f, t))
      BY <1>0, <2>1, <2>2, Zenon DEF Caller, At, Runs
    <2> HIDE DEF u, f, t, a
    <2>5. /\ Ordered(Later(f, t), t) /\ RunStart(Later(f, t), a + 1)
          /\ Later(f, t) \in Failures /\ Later(f, t).third = t
      BY <2>2, <2>4, OneMoreFailure, LaterFailure, Zenon
    <2>6. Ordered(Later(f, t), now)
      BY <1>0, <2>2, <2>4, <2>5, TimePasses
    <2>7. recent'[u] = Later(f, t) /\ \A v \in Users \ {u} : recent'[v] = recent[v]
      BY <1>0, <2>1, <2>2, ZenonT(60)
    <2>8. \A v \in Users : v = u => Runs(v)'
      BY <2>1, <2>2, <2>3, <2>5, <2>6, <2>7 DEF Runs
    <2>9. \A v \in Users \ {u} : Runs(v)'
      BY <1>0, <2>1, <2>3, <2>7, ZenonT(60) DEF Runs
    <2>10. \A x \in Sessions : Caller(x)'
      BY <2>2, <2>3, Zenon DEF Caller, InAuthenticate, At
    <2> QED
      BY <2>8, <2>9, <2>10
  <1>7. ASSUME NEW s \in Sessions,
               RefuseBlocked(s) \/ StorageError(s) \/ StartCommand(s) \/ FinishCommand(s) \/ Disconnect(s)
        PROVE  (\A v \in Users : Runs(v)') /\ (\A x \in Sessions : Caller(x)')
    <2>1. /\ \A x \in Sessions \ {s} : session'[x] = session[x]
          /\ session'[s].pc \in {"idle", "command"}
          /\ UNCHANGED <<users, now, recent>>
      BY <1>0, <1>7, LeaveEffect, Zenon
    <2> QED
      BY <1>0, <2>1 DEF Runs, Caller, At, Int32
  <1>8. ASSUME NEW u \in Users, NEW b \in BOOLEAN, RegisterUser(u) \/ SetLockStatus(u, b)
        PROVE  (\A v \in Users : Runs(v)') /\ (\A x \in Sessions : Caller(x)')
    <2>1. /\ \A v \in Users : users[v].exists =>
                /\ users'[v].failed_attempts = users[v].failed_attempts
                /\ users'[v].last_failed_timestamp = users[v].last_failed_timestamp
          /\ \A v \in Users : ~users[v].exists => users'[v] = users[v] \/ users'[v] = NewRow
          /\ UNCHANGED <<now, mutex, session, recent>>
      BY <1>0, <1>8, TableEffect
    <2>2. ASSUME NEW v \in Users PROVE Runs(v)'
      <3>1. CASE users[v].exists
        BY <1>0, <2>1, <3>1, Zenon DEF Runs
      <3>2. CASE ~users[v].exists
        <4>1. recent[v] = NoFailures /\ users'[v].failed_attempts = 0
          BY <1>0, <2>1, <3>2, RowTypes, Zenon DEF AttemptsInv, MissingRows
        <4> QED
          BY <1>0, <2>1, <4>1, NoFailuresType, AuthenticatorAssumption
             DEF Runs, Ordered, RunStart, MayStart
      <3> QED
        BY <3>1, <3>2, Zenon
    <2>3. ASSUME NEW x \in Sessions PROVE Caller(x)'
      <3>1. CASE InAuthenticate(x)
        BY <1>0, <2>1, <3>1, CallerTypes, Zenon DEF Caller, At, Int32
      <3>2. CASE ~InAuthenticate(x)
        BY <2>1, <3>2, Zenon DEF Caller, InAuthenticate, At
      <3> QED
        BY <3>1, <3>2
    <2> QED
      BY <2>2, <2>3, Zenon
  <1>9. CASE Crash
    BY <1>0, <1>9, NewSessionType, Zenon DEF Crash, Runs, Caller, At
  <1>10. CASE UNCHANGED vars
    BY <1>0, <1>10, Zenon DEF vars, Runs, Caller, At, Int32
  <1> QED
    BY <1>1, <1>2, <1>3, <1>4, <1>5, <1>6, <1>7, <1>8, <1>9, <1>10, Zenon DEF Next, SessionStep

(***************************************************************************)
(* While timestamps fit in 32 bits, three close failures block the account *)
(* of the user for the block time: concurrent logins, storage errors,      *)
(* locks, unlocks and restarts cannot shorten it.                          *)
(***************************************************************************)
THEOREM Lockout ==
    ASSUME MaxTime < IntMax
    PROVE  Spec => []LockoutHolds
  BY LockoutInvInit, LockoutInvNext, LockoutInvImplies, PTL DEF Spec

-----------------------------------------------------------------------------
\* A step leaves each session its user or takes it away, except the one that
\* passes the test of the lock.
LEMMA UserStep ==
    ASSUME TypeOK, [Next]_vars, NEW x \in Sessions
    PROVE  \/ session'[x].user = session[x].user \/ session'[x].user = NoUser
           \/ \E u \in Users : session'[x].user = u /\ ~users[u].is_locked
  <1>0. /\ Typed /\ now \in Nat
        /\ \A s \in Sessions : InAuthenticate(s) => session[s].user \in Users
    BY TypeOKTyped, AuthenticatorAssumption DEF TypeOK
  <1>1. ASSUME NEW s \in Sessions, NEW u \in Users, ReadLoginData(s, u)
        PROVE  IF x = s THEN session'[x].user = u /\ ~users[u].is_locked ELSE session'[x] = session[x]
    <2>1. ~users[u].is_locked
      BY <1>1, Zenon DEF ReadLoginData
    <2> QED
      BY <1>0, <1>1, <2>1, ReadEffect
  <1>2. ASSUME NEW s \in Sessions, ReadClock(s) PROVE session'[x].user = session[x].user
    BY <1>0, <1>2, ClockEffect, Zenon
  <1>3. ASSUME NEW s \in Sessions, ResetAttempts(s) PROVE session'[x].user = session[x].user
    <2>1. session[s].user \in Users
      BY <1>0, <1>3, Zenon DEF ResetAttempts, At, InAuthenticate
    <2> QED
      BY <1>0, <1>3, <2>1, ResetEffect, Zenon
  <1>4. NewSession.user = NoUser
    BY DEF NewSession
  <1>5. ASSUME NEW s \in Sessions, Succeed(s) PROVE session'[x].user = session[x].user
    <2> DEFINE q == [NewSession EXCEPT !.user = session[s].user, !.authenticated = TRUE]
    <2>1. session' = [session EXCEPT ![s] = q]
      BY <1>5 DEF Succeed
    <2>2. q.user = session[s].user
      BY DEF NewSession
    <2> HIDE DEF q
    <2> QED
      BY <1>0, <2>1, <2>2 DEF Typed
  <1>6. ASSUME NEW s \in Sessions, RefuseBlocked(s) \/ StorageError(s) \/ Fail(s) \/ Disconnect(s)
        PROVE  session'[x].user = session[x].user \/ session'[x].user = NoUser
    <2>1. session' = [session EXCEPT ![s] = NewSession]
      BY <1>6 DEF RefuseBlocked, StorageError, Fail, Disconnect, Return
    <2> QED
      BY <1>0, <1>4, <2>1, Zenon DEF Typed
  <1>7. ASSUME NEW s \in Sessions, StartCommand(s) \/ FinishCommand(s)
        PROVE  session'[x].user = session[x].user
    <2>1. \E p \in {"idle", "command"} : session' = [session EXCEPT ![s] = [session[s] EXCEPT !.pc = p]]
      BY <1>7, Zenon DEF StartCommand, FinishCommand, Goto
    <2> QED
      BY <1>0, <2>1, GotoRecord DEF Typed
  <1>8. CASE Crash
    BY <1>4, <1>8 DEF Crash
  <1>9. ASSUME UNCHANGED session PROVE session'[x].user = session[x].user
    BY <1>9
  <1> QED
    BY <1>1, <1>2, <1>3, <1>5, <1>6, <1>7, <1>8, <1>9, Zenon
       DEF Next, SessionStep, Tick, RegisterUser, SetLockStatus, vars

(***************************************************************************)
(* A locked account is closed to newcomers: no login that looks at the     *)
(* lock while it is set gets through, for any users and sessions.          *)
(***************************************************************************)
THEOREM KeepsOut == Spec => LockKeepsOut
  <1> DEFINE Kept(u) == users[u].is_locked /\ users[u].is_locked' => ActingFor(u)' \subseteq ActingFor(u)
  <1>1. ASSUME TypeOK, [Next]_vars, NEW u \in Users PROVE Kept(u)
    <2> SUFFICES ASSUME users[u].is_locked, NEW x \in Sessions, session'[x].user = u
                 PROVE  session[x].user = u
      BY Zenon DEF ActingFor
    <2>1. u # NoUser
      BY AuthenticatorAssumption, Zenon
    <2> QED
      BY <1>1, <2>1, UserStep, Zenon
  <1>2. TypeOK /\ [Next]_vars => [\A u \in Users : Kept(u)]_vars
    BY <1>1
  <1> QED
    BY <1>2, TypeCorrect, PTL DEF Spec, LockKeepsOut

-----------------------------------------------------------------------------
(* A client and its session (Dialogue).                                    *)

Somebody == Roles \cup {NotLoggedIn}
Fields == {"category", "item", "quantity", "hostname", "password", "new_client_id",
           "new_client_password", "client_to_unlock", "secret_phrase"}

\* A request has the fields that the handler of its command asks for.
Complete(request) ==
    /\ request.command = "update_stock" => {"category", "item", "quantity"} \subseteq request.fields
    /\ request.command = "get_stock" => {"category", "item"} \subseteq request.fields
    /\ request.command = "login" => {"hostname", "password"} \subseteq request.fields
    /\ request.command = "unlock_client" => {"secret_phrase", "client_to_unlock"} \subseteq request.fields
    /\ request.command = "register_user" =>
          {"new_client_id", "new_client_password"} \subseteq request.fields
Asked == {request \in [command : Words, fields : SUBSET Fields] : Complete(request)}

\* The replies of the session; none says that a field is missing.
Whys == {"done", "refused", "denied", "internal", "auth", "json", "unknown", "welcome"}
Datas == {"none", "map", "object", "array"}
Statuses == {"success", "error"}
PlainReplies == [status : Statuses, why : Whys, data : Datas, id : BOOLEAN]
PlainResults == {x \in [reply : PlainReplies, keep : BOOLEAN] : ~x.reply.id}

\* A result without an identity is a plain one.
LEMMA ResultType ==
    ASSUME NEW status \in Statuses, NEW reason \in Whys, NEW data \in Datas, NEW keep \in BOOLEAN
    PROVE  Result(status, reason, data, keep) \in PlainResults
<1>1. [status |-> status, why |-> reason, data |-> data, id |-> FALSE] \in PlainReplies
  BY Zenon DEF PlainReplies
<1>2. Result(status, reason, data, keep) \in [reply : PlainReplies, keep : BOOLEAN]
  BY <1>1, Zenon DEF Result
<1>3. ~Result(status, reason, data, keep).reply.id
  BY DEF Result
<1> QED BY <1>2, <1>3 DEF PlainResults

\* The results the handlers of Commands build are plain.
LEMMA PlainKinds ==
    /\ \A data \in Datas : Success(data) \in PlainResults
    /\ \A reason \in Whys : Error(reason) \in PlainResults
    /\ Internal \in PlainResults
    /\ Result("success", "done", "none", FALSE) \in PlainResults
    /\ Result("success", "unknown", "none", TRUE) \in PlainResults
<1>1. "success" \in Statuses /\ "error" \in Statuses /\ "done" \in Whys /\ "internal" \in Whys
      /\ "unknown" \in Whys /\ "none" \in Datas
  BY DEF Statuses, Whys, Datas
<1> QED BY <1>1, ResultType, Zenon DEF Success, Error, Internal

\* commandProcessor answers a complete request without asking for a field.
LEMMA CommandAnswers ==
    ASSUME NEW request \in Asked, NEW who \in Somebody
    PROVE  processCommand(request, who) \subseteq PlainResults
<1>1. Complete(request)
  BY DEF Asked
<1>2. /\ {"refused", "denied", "auth"} \subseteq Whys
      /\ {"none", "map", "object", "array"} \subseteq Datas
  BY DEF Whys, Datas
<1>3. /\ Success("none") \in PlainResults /\ Success("map") \in PlainResults
      /\ Success("object") \in PlainResults /\ Success("array") \in PlainResults
      /\ Error("refused") \in PlainResults /\ Error("denied") \in PlainResults
      /\ Internal \in PlainResults
      /\ Result("success", "done", "none", FALSE) \in PlainResults
      /\ Result("success", "unknown", "none", TRUE) \in PlainResults
  BY <1>2, PlainKinds, Zenon
<1>4. /\ handleStatusCommand \subseteq PlainResults
      /\ handleEndCommand \subseteq PlainResults
      /\ handleGetInventoryCommand \subseteq PlainResults
      /\ handleGetHistoryCommand \subseteq PlainResults
  BY <1>3, Zenon DEF handleStatusCommand, handleEndCommand, handleGetInventoryCommand,
     handleGetHistoryCommand
<1>5. request.command = "update_stock" => handleUpdateStockCommand(request, who) \subseteq PlainResults
  BY <1>1, <1>3, Zenon DEF handleUpdateStockCommand, Complete
<1>6. request.command = "get_stock" => handleGetStockCommand(request) \subseteq PlainResults
  BY <1>1, <1>3, Zenon DEF handleGetStockCommand, Complete
<1>7. request.command = "unlock_client" => handleUnlockClientCommand(request, who) \subseteq PlainResults
  BY <1>1, <1>3, Zenon DEF handleUnlockClientCommand, Complete
<1>8. request.command = "register_user" => handleRegisterUser(request, who) \subseteq PlainResults
  BY <1>1, <1>3, Zenon DEF handleRegisterUser, Complete
<1>9. {Result("success", "unknown", "none", TRUE)} \subseteq PlainResults
  BY <1>3, Zenon
<1> QED BY <1>4, <1>5, <1>6, <1>7, <1>8, <1>9, Zenon DEF processCommand

\* What one message can lead to: the session stays as it is, or it logs in.
Outcomes == [result : [reply : PlainReplies, keep : BOOLEAN], role : Somebody]
Stays(x, who) == x \in Outcomes /\ x.role = who /\ ~x.result.reply.id
LogsIn(x) ==
    /\ x \in Outcomes /\ x.role # NotLoggedIn /\ x.result.keep
    /\ x.result.reply.id /\ x.result.reply.status = "success" /\ x.result.reply.data = "none"

\* Outcomes that keep the session's role leave it as it is.
LEMMA KeepingStays ==
    ASSUME NEW results \in SUBSET PlainResults, NEW who \in Somebody,
           NEW x \in Keeping(results, who)
    PROVE  Stays(x, who)
<1>1. PICK r \in results : x = [result |-> r, role |-> who]
  BY DEF Keeping
<1>2. r \in [reply : PlainReplies, keep : BOOLEAN] /\ ~r.reply.id
  BY DEF PlainResults
<1>3. x \in Outcomes
  BY <1>1, <1>2, Zenon DEF Outcomes
<1>4. x.role = who /\ x.result = r
  BY <1>1
<1> QED BY <1>2, <1>3, <1>4 DEF Stays

\* The outcome of a good login sets the role and carries an identity.
LEMMA LoggedInOutcome ==
    ASSUME NEW who \in Roles
    PROVE  LogsIn(LoggedIn(who))
<1> DEFINE plain == Success("none")
           r == [plain EXCEPT !.reply.id = TRUE]
           x == LoggedIn(who)
<1>1. plain = [reply |-> [status |-> "success", why |-> "done", data |-> "none", id |-> FALSE], keep |-> TRUE]
  BY Zenon DEF Success, Result
<1>2. plain \in [reply : PlainReplies, keep : BOOLEAN]
  BY PlainKinds DEF PlainResults, Datas
<1> HIDE DEF plain
<1>3. r \in [reply : PlainReplies, keep : BOOLEAN]
  BY <1>2, Zenon DEF PlainReplies
<1>4. r.keep /\ r.reply.id /\ r.reply.status = "success" /\ r.reply.data = "none"
  BY <1>1
<1>5. x = [result |-> r, role |-> who]
  BY Zenon DEF LoggedIn, plain
<1> HIDE DEF r, x
<1>6. x \in Outcomes /\ x.result = r /\ x.role = who
  <2>1. who \in Somebody
    BY DEF Somebody
  <2> QED BY <1>3, <1>5, <2>1 DEF Outcomes
<1>7. who # NotLoggedIn
  BY DEF Roles, NotLoggedIn
<1> QED BY <1>4, <1>6, <1>7 DEF LogsIn, x

\* processMessage serves a login once: before it nothing else is served, after
\* it no reply carries an identity.
LEMMA MessageAnswers ==
    ASSUME NEW request \in Asked, NEW who \in Somebody,
           NEW x \in processMessage(request, who)
    PROVE  \/ Stays(x, who)
           \/ who = NotLoggedIn /\ request.command = "login" /\ LogsIn(x)
<1>1. Error("refused") \in PlainResults /\ Error("auth") \in PlainResults /\ Internal \in PlainResults
  BY PlainKinds DEF Whys
<1>2. CASE who = NotLoggedIn /\ request.command = "login"
  <2>1. {"hostname", "password"} \subseteq request.fields
    BY <1>2 DEF Asked, Complete
  <2>2. x \in {LoggedIn(r) : r \in Roles} \cup Keeping({Error("refused"), Internal}, who)
    BY <1>2, <2>1, Zenon DEF processMessage, LoginResults
  <2>3. CASE x \in {LoggedIn(r) : r \in Roles}
    BY <2>3, <1>2, LoggedInOutcome, Zenon
  <2>4. CASE x \in Keeping({Error("refused"), Internal}, who)
    <3>1. {Error("refused"), Internal} \in SUBSET PlainResults
      BY <1>1, Zenon
    <3> QED BY <2>4, <3>1, KeepingStays, Zenon
  <2> QED BY <2>2, <2>3, <2>4, Zenon
<1>3. CASE who = NotLoggedIn /\ request.command # "login"
  <2>1. x \in Keeping({Error("auth")}, who)
    BY <1>3, Zenon DEF processMessage
  <2>2. {Error("auth")} \in SUBSET PlainResults
    BY <1>1, Zenon
  <2> QED BY <2>1, <2>2, KeepingStays, Zenon
<1>4. CASE who # NotLoggedIn
  <2>1. x \in Keeping(processCommand(request, who), who)
    BY <1>4, Zenon DEF processMessage
  <2>2. processCommand(request, who) \in SUBSET PlainResults
    BY CommandAnswers, Zenon
  <2> QED BY <2>1, <2>2, KeepingStays, Zenon
<1> QED BY <1>2, <1>3, <1>4, Zenon

\* Text that does not parse is answered and changes nothing.
LEMMA JsonAnswers ==
    ASSUME NEW who \in Somebody, NEW x \in InvalidJson(who)
    PROVE  Stays(x, who)
<1>1. Error("json") \in PlainResults
  BY PlainKinds DEF Whys
<1>2. {Error("json")} \in SUBSET PlainResults
  BY <1>1, Zenon
<1> QED BY <1>2, KeepingStays, Zenon DEF InvalidJson

\* input_handler.c builds the payload that the handler of the command asks for.
LEMMA BuildComplete ==
    ASSUME NEW l \in Lines, NEW built \in build_json_from_input(l), built.status = "SUCCESS"
    PROVE  built.request \in Asked /\ built.request.command = l.word
<1>1. l.word \in Words
  BY DEF Lines
<1>2. ASSUME NEW fields \in SUBSET Fields, NEW needed, built \in Build(l, fields, needed)
      PROVE  built.request = [command |-> l.word, fields |-> fields]
  <2>1. built \in {Syntax, OutOfMemory}
        \/ built = [status |-> "SUCCESS", request |-> [command |-> l.word, fields |-> fields]]
    BY <1>2, Zenon DEF Build, Request
  <2>2. Syntax.status = "SYNTAX" /\ OutOfMemory.status = "MEMORY"
    BY SMTT(30) DEF Syntax, OutOfMemory
  <2> QED BY <2>1, <2>2
<1>3. ASSUME NEW fields \in SUBSET Fields, NEW needed, built \in Build(l, fields, needed),
             Complete([command |-> l.word, fields |-> fields])
      PROVE  built.request \in Asked /\ built.request.command = l.word
  <2>1. [command |-> l.word, fields |-> fields] \in [command : Words, fields : SUBSET Fields]
    BY <1>1, Zenon
  <2> QED BY <1>2, <1>3, <2>1 DEF Asked
<1>4. CASE l.word = Blank
  <2>1. built = [status |-> "CRASH"]
    BY <1>4, SMTT(30) DEF build_json_from_input, Blank
  <2> QED BY <2>1
<1>5. CASE l.word = "update_stock"
  <2>1. built \in build_json_for_update_stock(l)
    BY <1>5 DEF build_json_from_input, Blank
  <2>2. built \in Build(l, {"category", "item", "quantity"}, 3)
    BY <2>1, SMTT(30) DEF build_json_for_update_stock, OutOfMemory, Syntax
  <2> QED BY <1>3, <1>5, <2>2 DEF Complete, Fields
<1>6. CASE l.word = "get_stock"
  <2>1. built \in Build(l, {"category", "item"}, 2)
    BY <1>6 DEF build_json_from_input, build_json_for_get_stock, Blank
  <2> QED BY <1>3, <1>6, <2>1 DEF Complete, Fields
<1>7. CASE l.word = "login"
  <2>1. built \in Build(l, {"hostname", "password"}, 2)
    BY <1>7 DEF build_json_from_input, build_json_for_login, Blank
  <2> QED BY <1>3, <1>7, <2>1 DEF Complete, Fields
<1>8. CASE l.word = "unlock_client"
  <2>1. built \in Build(l, {"client_to_unlock", "secret_phrase"}, 2)
    BY <1>8, SMTT(30) DEF build_json_from_input, build_json_for_unlock_client, Blank
  <2> QED BY <1>3, <1>8, <2>1 DEF Complete, Fields
<1>9. CASE l.word = "register_user"
  <2>1. built \in Build(l, {"new_client_id", "new_client_password"}, 2)
    BY <1>9, SMTT(30) DEF build_json_from_input, build_json_for_register_user, Blank
  <2> QED BY <1>3, <1>9, <2>1 DEF Complete, Fields
<1>10. CASE l.word \notin {Blank, "update_stock", "get_stock", "login", "unlock_client", "register_user"}
  <2>1. built \in Build(l, {}, 0)
    BY <1>10 DEF build_json_from_input, build_json_for_single_command
  <2> QED BY <1>3, <1>10, <2>1 DEF Complete
<1> QED BY <1>4, <1>5, <1>6, <1>7, <1>8, <1>9, <1>10

-----------------------------------------------------------------------------
(* Pieces and reads.                                                       *)

Units == [unit : {"head", "tail"}, n : Nat] \cup [unit : {"whole"}, n : Nat, request : Asked]
Replies == [to : Nat, status : Statuses, why : Whys, data : Datas, id : BOOLEAN]
Piece == [reply : Replies, part : Nat, of : Nat]

\* The types of the dialogue; by the types of the pieces no reply that is under
\* way says that a field is missing.
DialogueTypes ==
    /\ requests \in Seq(Units) /\ stream \in Seq(Piece) /\ Len(stream) <= Capacity
    /\ pending \in Seq(Seq(Piece) \ {<<>>})
    /\ role \in Somebody /\ line \in Lines /\ sent \in Nat /\ oversized \in BOOLEAN
    /\ open \in {"new", "open", "closed"}

\* A reply of a size is that many pieces, in order.
LEMMA PiecesEffect ==
    ASSUME NEW reply \in Replies, NEW size \in Nat \ {0}
    PROVE  /\ Pieces(reply, size) \in Seq(Piece) \ {<<>>}
           /\ Len(Pieces(reply, size)) = size
           /\ \A i \in 1..size : Pieces(reply, size)[i] = [reply |-> reply, part |-> i, of |-> size]
<1> DEFINE f == [i \in 1..size |-> [reply |-> reply, part |-> i, of |-> size]]
<1>1. \A i \in 1..size : [reply |-> reply, part |-> i, of |-> size] \in Piece
  BY DEF Piece
<1>2. f \in Seq(Piece) /\ Len(f) = size
  BY <1>1
<1>3. \A i \in 1..size : f[i] = [reply |-> reply, part |-> i, of |-> size]
  BY Zenon
<1>4. f = Pieces(reply, size)
  BY Zenon DEF Pieces
<1> HIDE DEF f
<1>5. f # <<>>
  BY <1>2, Zenon
<1> QED BY <1>2, <1>3, <1>4, <1>5

\* A write appends the first pieces of a message, at most as many as fit.
LEMMA WriteEffect ==
    ASSUME Capacity \in Nat, stream \in Seq(Piece), Len(stream) <= Capacity,
           NEW m \in Seq(Piece)
    PROVE  LET s == stream \o Fits(m) IN
           /\ s \in Seq(Piece) /\ Len(s) <= Capacity /\ Len(s) <= Len(stream) + Len(m)
           /\ \A i \in 1..Len(stream) : s[i] = stream[i]
           /\ \A i \in DOMAIN s : i > Len(stream) =>
                 i - Len(stream) \in DOMAIN m /\ s[i] = m[i - Len(stream)]
           /\ Len(m) <= Free => Len(s) = Len(stream) + Len(m)
           /\ Len(m) <= Free /\ stream = <<>> => s = m
<1> DEFINE fits == Fits(m)
<1>1. Free \in Nat /\ Free = Capacity - Len(stream)
  BY DEF Free
<1>2. /\ fits \in Seq(Piece) /\ Len(fits) <= Free /\ Len(fits) <= Len(m)
      /\ \A i \in DOMAIN fits : i \in DOMAIN m /\ fits[i] = m[i]
      /\ Len(m) <= Free => fits = m
  <2>1. CASE Len(m) <= Free
    <3>1. fits = m
      BY <2>1 DEF Fits
    <3> HIDE DEF fits
    <3> QED BY <2>1, <3>1
  <2>2. CASE ~(Len(m) <= Free)
    <3>1. fits = SubSeq(m, 1, Free)
      BY <2>2, Zenon DEF Fits
    <3> HIDE DEF fits
    <3> QED BY <2>2, <3>1, <1>1, SMTT(30)
  <2> QED BY <2>1, <2>2
<1> HIDE DEF fits
<1> DEFINE s == stream \o fits
<1>3. /\ s \in Seq(Piece) /\ Len(s) = Len(stream) + Len(fits)
      /\ \A i \in 1..Len(stream) : s[i] = stream[i]
      /\ \A i \in DOMAIN s : i > Len(stream) =>
            i - Len(stream) \in DOMAIN fits /\ s[i] = fits[i - Len(stream)]
  BY <1>2
<1>4. stream = <<>> => s = fits
  BY <1>2
<1> HIDE DEF s
<1>5. s \in Seq(Piece) /\ Len(s) <= Capacity /\ Len(s) <= Len(stream) + Len(m)
  BY <1>1, <1>2, <1>3
<1>6. \A i \in DOMAIN s : i > Len(stream) =>
         i - Len(stream) \in DOMAIN m /\ s[i] = m[i - Len(stream)]
  BY <1>2, <1>3, Zenon
<1>7. /\ Len(m) <= Free => Len(s) = Len(stream) + Len(m)
      /\ Len(m) <= Free /\ stream = <<>> => s = m
  BY <1>2, <1>3, <1>4, Zenon
<1> QED BY <1>3, <1>5, <1>6, <1>7, SMTT(30) DEF s, fits

\* What a write leaves of a message.
LEMMA RestEffect ==
    ASSUME Free \in Nat, NEW m \in Seq(Piece)
    PROVE  /\ Rest(m) \in Seq(Piece)
           /\ Rest(m) # <<>> => Len(m) > Free
           /\ \A i \in DOMAIN Rest(m) : i + Free \in DOMAIN m /\ Rest(m)[i] = m[i + Free]
<1>1. Rest(m) = SubSeq(m, Free + 1, Len(m))
  BY DEF Rest
<1> QED BY <1>1

\* A read takes pieces from the front.
LEMMA ReadPiece ==
    ASSUME stream \in Seq(Piece), NEW n \in Reads
    PROVE  LET read == SubSeq(stream, 1, n)
               left == SubSeq(stream, n + 1, Len(stream)) IN
           /\ n \in 1..Len(stream)
           /\ read \in Seq(Piece) /\ Len(read) = n /\ \A i \in 1..n : read[i] = stream[i]
           /\ left \in Seq(Piece) /\ Len(left) = Len(stream) - n
           /\ \A i \in DOMAIN left : n + i \in DOMAIN stream /\ left[i] = stream[n + i]
<1>1. n \in 1..Len(stream)
  BY DEF Reads
<1> QED BY <1>1

\* What cJSON_Parse makes of a read is the first reply or nothing of use.
LEMMA TextKinds ==
    ASSUME NEW read \in Seq(Piece), read # <<>>, NEW text \in Texts(read)
    PROVE  /\ text.json \in {"null", "value", "reply"}
           /\ text.json = "reply" => text.reply = read[1].reply
           /\ read[1].part = 1 /\ read[1].of = 1 => text.json = "reply"
<1>1. Head(read) = read[1] /\ 1 \in 1..Len(read) /\ read[1] \in Piece
  OBVIOUS
<1>2. text \in {NullText, BareValue, ReplyText(read[1].reply)}
  BY <1>1, Zenon DEF Texts
<1>3. NullText.json = "null" /\ BareValue.json = "value"
  BY DEF NullText, BareValue
<1>4. ReplyText(read[1].reply).json = "reply" /\ ReplyText(read[1].reply).reply = read[1].reply
  BY DEF ReplyText
<1>5. ASSUME read[1].part = 1, read[1].of = 1 PROVE text.json = "reply"
  <2>1. SubSeq(read, 1, 1) = Pieces(read[1].reply, 1)
    <3>1. read[1] = [reply |-> read[1].reply, part |-> 1, of |-> 1]
      BY <1>1, <1>5 DEF Piece
    <3>2. read[1].reply \in Replies
      BY <1>1 DEF Piece
    <3>3. Pieces(read[1].reply, 1) \in Seq(Piece) /\ Len(Pieces(read[1].reply, 1)) = 1
          /\ Pieces(read[1].reply, 1)[1] = read[1]
      <4>1. 1 \in Nat \ {0} /\ 1 \in 1..1
        OBVIOUS
      <4>2. /\ Pieces(read[1].reply, 1) \in Seq(Piece) \ {<<>>} /\ Len(Pieces(read[1].reply, 1)) = 1
            /\ \A i \in 1..1 : Pieces(read[1].reply, 1)[i] = [reply |-> read[1].reply, part |-> i, of |-> 1]
        BY ONLY <3>2, <4>1, PiecesEffect, ZenonT(60)
      <4> QED BY ONLY <3>1, <4>1, <4>2, Zenon
    <3> QED BY <3>3, <1>1
  <2>2. text \in {ReplyText(read[1].reply)}
    BY <1>1, <1>5, <2>1, Zenon DEF Texts
  <2> QED BY <2>2, <1>4
<1> QED BY <1>2, <1>3, <1>4, <1>5, Zenon

\* The client takes a reply for a login (TRANSACTION_LOGIN_SUCCESS) when it is a
\* success that carries an identity and the command was login, and then only.
LEMMA LoginShown ==
    ASSUME NEW text, NEW word, text.json \in {"null", "value", "reply"}
    PROVE  /\ print_readable_response(text, word) = "login" =>
                 text.json = "reply" /\ text.reply.id
           /\ text.json = "reply" /\ text.reply.id /\ text.reply.status = "success"
                 /\ word = "login" => print_readable_response(text, word) = "login"
           /\ text.json = "reply" => print_readable_response(text, word) # "unparsed"
BY Zenon DEF print_readable_response, print_inventory_response, print_get_stock_response,
       print_get_history_response, handle_login_response, PrintReport, Succeeded

-----------------------------------------------------------------------------
(* The steps of the session.                                               *)

\* What is known of a unit of the request stream.
LEMMA UnitFields ==
    ASSUME NEW u \in Units
    PROVE  u.n \in Nat /\ (u.unit = "whole" => u.request \in Asked)
BY DEF Units

\* One run of the session: it reads n units, the outcome is x, the reply has
\* that many pieces.
RunStep(n, x, size, reply) ==
    /\ role' = x.role
    /\ requests' = SubSeq(requests, n + 1, Len(requests))
    /\ oversized' = (oversized \/ size > 1)
    /\ \/ /\ x.result.keep /\ Free = 0 /\ stream' = stream /\ open' = open
          /\ pending' = Append(pending, Pieces(reply, size))
       \/ /\ x.result.keep /\ Free # 0 /\ pending' = pending /\ open' = open
          /\ stream' = stream \o Fits(Pieces(reply, size))
       \/ /\ ~x.result.keep /\ open' = "closed" /\ pending' = <<>>
          /\ \/ stream' = stream \o Fits(Pieces(reply, size))
             \/ requests' # <<>> /\ stream' = <<>>
    /\ UNCHANGED <<pc, line, sent, logins, answer>>

\* The reply of a run goes to the newest request read; it carries an identity
\* when the run logs the session in, and then it is one piece.
LEMMA RunEffect ==
    ASSUME DialogueAssumption, DialogueTypes, Run
    PROVE  \E n \in 1..Len(requests), x \in Outcomes, size \in Nat \ {0}, reply \in Replies :
              /\ RunStep(n, x, size, reply)
              /\ \/ Stays(x, role)
                 \/ /\ role = NotLoggedIn /\ LogsIn(x) /\ n = 1 /\ size = 1
                    /\ requests[1].unit = "whole" /\ requests[1].request.command = "login"
              /\ reply.to = requests[n].n /\ reply.id = x.result.reply.id
              /\ reply.status = x.result.reply.status
<1>1. PICK n \in ReadLengths : \E x \in ReadResults(n) : \E size \in Sizes(x.result.reply) :
         RunStep(n, x, size, Answering(x.result.reply, n))
  BY ZenonT(60) DEF Run, WriteReply, clientVars, RunStep
<1>2. PICK x \in ReadResults(n) : \E size \in Sizes(x.result.reply) :
         RunStep(n, x, size, Answering(x.result.reply, n))
  BY <1>1, Zenon
<1>3. PICK size \in Sizes(x.result.reply) : RunStep(n, x, size, Answering(x.result.reply, n))
  BY <1>2, Zenon
<1>4. requests \in Seq(Units) /\ requests # <<>> /\ role \in Somebody
  BY Zenon DEF Run, DialogueTypes
<1>5. Head(requests) = requests[1] /\ 1 \in 1..Len(requests) /\ requests[1] \in Units
  BY <1>4
<1>6. n \in 1..Len(requests)
  <2>1. n \in {1} \/ n \in 1..Len(requests)
    BY <1>1, Zenon DEF ReadLengths
  <2> QED BY <2>1, <1>5
<1>7. \/ Stays(x, role)
      \/ /\ role = NotLoggedIn /\ LogsIn(x) /\ n = 1
         /\ requests[1].unit = "whole" /\ requests[1].request.command = "login"
  <2>1. CASE n = 1 /\ requests[1].unit = "whole"
    <3>1. x \in processMessage(requests[1].request, role)
      BY <2>1, <1>5, <1>3, Zenon DEF ReadResults
    <3>2. requests[1].request \in Asked
      BY <1>5, <2>1, UnitFields
    <3> QED BY <3>1, <3>2, <1>4, <2>1, MessageAnswers, Zenon
  <2>2. CASE ~(n = 1 /\ requests[1].unit = "whole")
    <3>1. x \in InvalidJson(role)
      BY <2>2, <1>5, <1>3, Zenon DEF ReadResults
    <3> QED BY <3>1, <1>4, JsonAnswers, Zenon
  <2> QED BY <2>1, <2>2, Zenon
<1>8. x \in Outcomes
  BY <1>7, Zenon DEF Stays, LogsIn
<1>9. x.result.reply \in PlainReplies
  BY <1>8 DEF Outcomes
<1>10. size \in Nat \ {0} /\ (x.result.reply.data = "none" => size = 1)
  <2>1. MaxReply \in Nat
    BY DEF DialogueAssumption
  <2>2. size \in IF x.result.reply.data \in {"map", "array"} THEN 1..MaxReply ELSE {1}
    BY Zenon DEF Sizes
  <2> QED BY <2>1, <2>2
<1> DEFINE reply == Answering(x.result.reply, n)
<1>11. reply \in Replies /\ reply.to = requests[n].n /\ reply.id = x.result.reply.id
       /\ reply.status = x.result.reply.status
  <2>1. requests[n].n \in Nat
    BY <1>4, <1>6, UnitFields
  <2>2. reply = [to |-> requests[n].n, status |-> x.result.reply.status, why |-> x.result.reply.why,
                 data |-> x.result.reply.data, id |-> x.result.reply.id]
    BY Zenon DEF Answering
  <2>3. /\ x.result.reply.status \in Statuses /\ x.result.reply.why \in Whys
        /\ x.result.reply.data \in Datas /\ x.result.reply.id \in BOOLEAN
    BY <1>9 DEF PlainReplies
  <2> HIDE DEF reply
  <2>4. reply \in Replies
    BY ONLY <2>1, <2>2, <2>3, Zenon DEF Replies
  <2> QED BY <2>2, <2>4
<1>12. LogsIn(x) => size = 1
  BY <1>10, Zenon DEF LogsIn
<1> HIDE DEF reply
<1> QED BY <1>3, <1>6, <1>7, <1>8, <1>10, <1>11, <1>12, Zenon DEF reply

-----------------------------------------------------------------------------
(* The steps of the client.                                                *)

\* A request is written, or the write fails on a connection that is closed.
LEMMA SendEffect ==
    ASSUME DialogueTypes, NEW request \in Asked, NEW long \in BOOLEAN, Send(request, long)
    PROVE  /\ requests' \in Seq(Units) /\ sent' \in Nat /\ oversized' = (oversized \/ long)
           /\ \/ /\ pc' = "recv" /\ sent' = sent + 1
                 /\ open = "closed" => requests' = requests
                 /\ open # "closed" /\ ~long => requests' = Append(requests, [unit |-> "whole", n |-> sent + 1, request |-> request])
              \/ pc' = "left"
<1> DEFINE whole == [unit |-> "whole", n |-> sent + 1, request |-> request]
           head == [unit |-> "head", n |-> sent + 1]
           tail == [unit |-> "tail", n |-> sent + 1]
<1>1. requests \in Seq(Units) /\ sent \in Nat /\ sent + 1 \in Nat
  BY DEF DialogueTypes
<1>2. whole \in Units /\ head \in Units /\ tail \in Units
  BY <1>1, Zenon DEF Units
<1>3. /\ \/ /\ pc' = "recv" /\ sent' = sent + 1
            /\ requests' = IF open = "closed" THEN requests
                           ELSE requests \o IF long THEN <<head, tail>> ELSE <<whole>>
         \/ pc' = "left" /\ UNCHANGED <<requests, sent>>
      /\ oversized' = (oversized \/ long)
  BY Zenon DEF Send
<1> HIDE DEF whole, head, tail
<1>4. requests \o <<head, tail>> \in Seq(Units) /\ requests \o <<whole>> \in Seq(Units)
      /\ requests \o <<whole>> = Append(requests, whole)
  BY <1>1, <1>2
<1> QED BY <1>1, <1>3, <1>4, Zenon DEF whole

\* A line is sent as a request with the fields its command needs, or it is not
\* sent at all.
LEMMA LineEffect ==
    ASSUME DialogueAssumption, NEW l \in InputLines, TypeLine(l)
    PROVE  /\ pc = "input" /\ (pc' = "input" => answer' = answer)
           /\ UNCHANGED <<logins, stream, open, role, pending>>
           /\ line' \in Lines /\ (pc' = "recv" => line' = l)
           /\ \/ \E request \in Asked, long \in BOOLEAN :
                    Send(request, long) /\ (request.command = "login" => l.word = "login")
              \/ UNCHANGED <<sent, requests, oversized>> /\ pc' \in {"input", "left", "crashed"}
<1>1. l \in Lines
  BY DEF DialogueAssumption
<1>2. /\ pc = "input" /\ (pc' = "input" => answer' = answer)
      /\ UNCHANGED <<logins, stream, open, role, pending>>
  BY DEF TypeLine, serverVars
<1>3. line' = IF pc' \in {"recv", "crashed"} THEN l ELSE NoLine
  BY DEF TypeLine
<1>4. NoLine \in Lines
  BY DEF NoLine, Lines, Words, Empty
<1>5. line' \in Lines /\ (pc' = "recv" => line' = l)
  BY <1>1, <1>3, <1>4
<1>6. CASE process_user_input(l) = "QUIT" /\ Send(Request("end", {}), FALSE)
  <2>1. Request("end", {}) \in Asked /\ Request("end", {}).command = "end"
    BY Zenon DEF Request, Asked, Complete, Words
  <2>2. Request("end", {}).command # "login" /\ FALSE \in BOOLEAN
    BY <2>1
  <2> QED BY <1>2, <1>5, <1>6, <2>1, <2>2, Zenon
<1>7. CASE UNCHANGED <<pc, sent, requests, oversized>>
  BY <1>2, <1>5, <1>7
<1>8. ASSUME NEW built \in build_json_from_input(l), built.status = "SUCCESS",
             NEW long \in {FALSE, l.args > 0}, Send(built.request, long)
      PROVE  \E request \in Asked, lengthy \in BOOLEAN :
                Send(request, lengthy) /\ (request.command = "login" => l.word = "login")
  <2>1. built.request \in Asked /\ built.request.command = l.word
    BY <1>1, <1>8, BuildComplete, Zenon
  <2>2. long \in BOOLEAN
    <3>1. (l.args > 0) \in BOOLEAN /\ FALSE \in BOOLEAN
      OBVIOUS
    <3> QED BY ONLY <3>1, long \in {FALSE, l.args > 0}, Zenon
  <2> QED BY <1>8, <2>1, <2>2, Zenon
<1>9. ASSUME NEW built \in build_json_from_input(l), built.status # "SUCCESS",
             pc' = CASE built.status = "SYNTAX" -> "input"
                       [] built.status = "MEMORY" -> "left"
                       [] OTHER -> "crashed"
      PROVE  pc' \in {"input", "left", "crashed"}
  BY <1>9
<1> QED BY <1>2, <1>5, <1>6, <1>7, <1>8, <1>9, Zenon DEF TypeLine

\* One transaction of the client: it reads n pieces and makes text of them.
ReceiveStep(n, text) ==
    /\ stream' = SubSeq(stream, n + 1, Len(stream))
    /\ answer' = [to |-> IF text.json = "reply" THEN text.reply.to ELSE 0,
                  display |-> print_readable_response(text, line.word)]
    /\ logins' = IF print_readable_response(text, line.word) = "login" THEN logins + 1 ELSE logins
    /\ pc' \in {"crashed", "left", "input"}

\* The text is the first reply in the stream, or it is none.
FirstReply(text) ==
    /\ text.json \in {"null", "value", "reply"}
    /\ text.json = "reply" => text.reply = stream[1].reply
    /\ stream[1].part = 1 /\ stream[1].of = 1 => text.json = "reply"

\* Receive reads from the front and takes the first reply, if any.
LEMMA ReceiveEffect ==
    ASSUME DialogueTypes, Receive
    PROVE  /\ pc = "recv" /\ line' \in Lines
           /\ UNCHANGED <<sent, requests, open, role, pending, oversized>>
           /\ \E n \in Reads : \E text : ReceiveStep(n, text) /\ FirstReply(text)
<1>1. stream \in Seq(Piece) /\ line \in Lines
  BY DEF DialogueTypes
<1>2. PICK n \in Reads : \E text \in Texts(SubSeq(stream, 1, n)) : ReceiveStep(n, text)
  BY Zenon DEF Receive, Taken, ReceiveStep
<1> DEFINE read == SubSeq(stream, 1, n)
<1>3. PICK text \in Texts(read) : ReceiveStep(n, text)
  BY <1>2, Zenon
<1>4. read \in Seq(Piece) /\ read # <<>> /\ read[1] = stream[1]
  BY <1>1, ReadPiece, SMTT(30)
<1> HIDE DEF read
<1>5. FirstReply(text)
  BY <1>4, TextKinds, Zenon DEF FirstReply
<1>6. pc = "recv" /\ UNCHANGED <<sent, requests, open, role, pending, oversized>>
  BY DEF Receive, serverVars
<1>7. line' \in Lines
  BY <1>1 DEF Receive, NoLine, Lines, Words, Empty
<1> QED BY <1>3, <1>5, <1>6, <1>7, Zenon

-----------------------------------------------------------------------------
(* The types, and that no field is missing.                                *)

\* A run of the session keeps the types.
LEMMA RunTypes ==
    ASSUME DialogueAssumption, DialogueTypes, Run
    PROVE  DialogueTypes'
<1>1. PICK n \in 1..Len(requests), x \in Outcomes, size \in Nat \ {0}, reply \in Replies :
         RunStep(n, x, size, reply)
  BY RunEffect, ZenonT(60)
<1> DEFINE m == Pieces(reply, size)
           s == stream \o Fits(m)
<1>2. m \in Seq(Piece) \ {<<>>}
  BY PiecesEffect, Zenon
<1> HIDE DEF m
<1>3. /\ requests \in Seq(Units) /\ stream \in Seq(Piece) /\ Len(stream) <= Capacity
      /\ pending \in Seq(Seq(Piece) \ {<<>>}) /\ oversized \in BOOLEAN /\ open \in {"new", "open", "closed"}
      /\ Capacity \in Nat
  BY Zenon DEF DialogueTypes, DialogueAssumption
<1>4. s \in Seq(Piece) /\ Len(s) <= Capacity
  BY <1>2, <1>3, WriteEffect
<1> HIDE DEF s
<1>5. requests' \in Seq(Units)
  <2>1. requests' = SubSeq(requests, n + 1, Len(requests))
    BY <1>1, Zenon DEF RunStep
  <2> QED BY <2>1, <1>3
<1>6. stream' \in {stream, s, <<>>}
  BY <1>1 DEF RunStep, s, m
<1>7. stream' \in Seq(Piece) /\ Len(stream') <= Capacity
  <2>1. <<>> \in Seq(Piece) /\ Len(<<>>) <= Capacity
    BY <1>3
  <2> QED BY <1>3, <1>4, <1>6, <2>1, Zenon
<1>8. pending' \in {pending, <<>>, Append(pending, m)}
  BY <1>1 DEF RunStep, m
<1>9. pending' \in Seq(Seq(Piece) \ {<<>>})
  <2>1. /\ <<>> \in Seq(Seq(Piece) \ {<<>>})
        /\ Append(pending, m) \in Seq(Seq(Piece) \ {<<>>})
    BY <1>2, <1>3
  <2> QED BY <1>3, <1>8, <2>1, Zenon
<1>10. role' \in Somebody
  BY <1>1, Zenon DEF RunStep, Outcomes
<1>11. oversized' \in BOOLEAN /\ open' \in {"new", "open", "closed"} /\ UNCHANGED <<line, sent>>
  BY <1>1, <1>3 DEF RunStep
<1> QED BY <1>5, <1>7, <1>9, <1>10, <1>11, Zenon DEF DialogueTypes

\* What a pending message leaves: it is sent and gone, or its rest takes the
\* place of the next message.
LEMMA PendingEffect ==
    ASSUME DialogueAssumption, DialogueTypes, trySendPendingMessage
    PROVE  LET m == pending[1]
               rest == Rest(m) IN
           /\ Free \in Nat \ {0} /\ open = "open" /\ Len(pending) > 0 /\ m \in Seq(Piece) \ {<<>>}
           /\ stream' = stream \o Fits(m)
           /\ \/ pending' = Tail(pending)
              \/ pending' = <<>>
              \/ /\ rest # <<>> /\ Len(pending) > 1
                 /\ pending' = <<rest>> \o SubSeq(pending, 3, Len(pending))
           /\ open' \in {open, "closed"}
           /\ UNCHANGED <<pc, line, sent, logins, answer, requests, role, oversized>>
<1>1. pending \in Seq(Seq(Piece) \ {<<>>}) /\ pending # <<>> /\ Free > 0 /\ open = "open"
  BY DEF DialogueTypes, trySendPendingMessage
<1>2. Head(pending) = pending[1] /\ pending[1] \in Seq(Piece) \ {<<>>} /\ Len(pending) > 0
  BY <1>1
<1>3. Free \in Nat \ {0}
  BY <1>1 DEF DialogueTypes, DialogueAssumption, Free
<1> QED BY <1>1, <1>2, <1>3, Zenon DEF trySendPendingMessage, clientVars

\* trySendPendingMessage keeps the types.
LEMMA PendingTypes ==
    ASSUME DialogueAssumption, DialogueTypes, trySendPendingMessage
    PROVE  DialogueTypes'
<1> DEFINE m == pending[1]
           rest == Rest(m)
           s == stream \o Fits(m)
<1>1. /\ Free \in Nat \ {0} /\ open = "open" /\ Len(pending) > 0 /\ m \in Seq(Piece) \ {<<>>}
      /\ stream' = s
      /\ \/ pending' = Tail(pending)
         \/ pending' = <<>>
         \/ /\ rest # <<>> /\ Len(pending) > 1
            /\ pending' = <<rest>> \o SubSeq(pending, 3, Len(pending))
      /\ open' \in {open, "closed"}
      /\ UNCHANGED <<pc, line, sent, logins, answer, requests, role, oversized>>
  BY PendingEffect, Zenon
<1> HIDE DEF m
<1>2. stream \in Seq(Piece) /\ Len(stream) <= Capacity /\ Capacity \in Nat /\ pending \in Seq(Seq(Piece) \ {<<>>})
  BY Zenon DEF DialogueTypes, DialogueAssumption
<1>3. s \in Seq(Piece) /\ Len(s) <= Capacity
  BY <1>1, <1>2, WriteEffect, Zenon
<1>4. rest \in Seq(Piece)
  BY <1>1, RestEffect, Zenon
<1> HIDE DEF rest, s
<1>5. pending' \in Seq(Seq(Piece) \ {<<>>})
  <2>1. CASE pending' = Tail(pending)
    BY <1>1, <1>2, <2>1
  <2>2. CASE pending' = <<>>
    BY <2>2
  <2>3. CASE rest # <<>> /\ Len(pending) > 1 /\ pending' = <<rest>> \o SubSeq(pending, 3, Len(pending))
    <3>1. SubSeq(pending, 3, Len(pending)) \in Seq(Seq(Piece) \ {<<>>}) /\ <<rest>> \in Seq(Seq(Piece) \ {<<>>})
      BY <1>2, <1>4, <2>3
    <3> QED BY <2>3, <3>1
  <2> QED BY <1>1, <2>1, <2>2, <2>3
<1> QED BY <1>1, <1>3, <1>5 DEF DialogueTypes

\* The welcome is one piece and carries no identity.
LEMMA WelcomePiece ==
    LET m == Pieces(Welcome, 1) IN
    m \in Seq(Piece) /\ Len(m) = 1 /\ ~m[1].reply.id
<1>1. Welcome \in Replies /\ ~Welcome.id
  BY DEF Welcome, Replies, Statuses, Whys, Datas
<1>2. 1 \in Nat \ {0} /\ 1 \in 1..1
  OBVIOUS
<1>3. /\ Pieces(Welcome, 1) \in Seq(Piece) \ {<<>>} /\ Len(Pieces(Welcome, 1)) = 1
      /\ \A i \in 1..1 : Pieces(Welcome, 1)[i] = [reply |-> Welcome, part |-> i, of |-> 1]
  BY ONLY <1>1, <1>2, PiecesEffect, ZenonT(60)
<1>4. Pieces(Welcome, 1)[1] = [reply |-> Welcome, part |-> 1, of |-> 1]
  BY <1>2, <1>3, Zenon
<1>5. ~Pieces(Welcome, 1)[1].reply.id
  BY <1>1, <1>4
<1> QED BY <1>3, <1>5, Zenon

\* Every step of the client and of the session keeps the types.
LEMMA TypesStep ==
    ASSUME DialogueAssumption, DialogueTypes, [DialogueNext]_dialogueVars
    PROVE  DialogueTypes'
<1> USE DEF serverVars, clientVars
<1>1. CASE sendWelcomeMessage
  <2>1. stream' \in Seq(Piece) /\ Len(stream') <= Capacity
    <3>1. stream' = Pieces(Welcome, 1)
      BY <1>1 DEF sendWelcomeMessage
    <3>2. stream' \in Seq(Piece) /\ Len(stream') = 1
      BY <3>1, WelcomePiece, Zenon
    <3> QED BY <3>2 DEF DialogueAssumption
  <2> QED BY <1>1, <2>1, Zenon DEF sendWelcomeMessage, DialogueTypes
<1>2. CASE RunEnds
  BY <1>2 DEF RunEnds, DialogueTypes
<1>3. CASE start_communication
  <2>1. PICK n \in Reads : stream' = SubSeq(stream, n + 1, Len(stream))
    BY <1>3, Zenon DEF start_communication, Taken
  <2>2. stream' \in Seq(Piece) /\ Len(stream') <= Capacity
    <3>1. stream \in Seq(Piece) /\ Len(stream) <= Capacity /\ Capacity \in Nat
      BY Zenon DEF DialogueTypes, DialogueAssumption
    <3>2. stream' \in Seq(Piece) /\ Len(stream') = Len(stream) - n /\ n \in 1..Len(stream)
      BY <2>1, <3>1, ReadPiece, Zenon
    <3> QED BY <3>1, <3>2
  <2> QED BY <1>3, <2>2 DEF start_communication, DialogueTypes
<1>4. ASSUME NEW l \in InputLines, TypeLine(l) PROVE DialogueTypes'
  <2>1. UNCHANGED <<stream, open, role, pending>> /\ line' \in Lines
    BY <1>4, LineEffect, Zenon
  <2>2. CASE \E request \in Asked, long \in BOOLEAN : Send(request, long)
    <3>1. PICK request \in Asked, long \in BOOLEAN : Send(request, long)
      BY <2>2, Zenon
    <3>2. requests' \in Seq(Units) /\ sent' \in Nat /\ oversized' = (oversized \/ long)
      BY <3>1, SendEffect, Zenon
    <3>3. oversized' \in BOOLEAN
      BY <3>2, Zenon DEF DialogueTypes
    <3> QED BY <2>1, <3>2, <3>3, Zenon DEF DialogueTypes
  <2>3. CASE UNCHANGED <<sent, requests, oversized>>
    BY <2>1, <2>3, Zenon DEF DialogueTypes
  <2> QED BY <1>4, <2>2, <2>3, LineEffect, Zenon
<1>5. CASE EndOfInput \/ ReceiveEnd \/ UNCHANGED dialogueVars
  BY <1>5, Zenon DEF EndOfInput, ReceiveEnd, dialogueVars, DialogueTypes
<1>6. CASE Receive
  <2>1. /\ line' \in Lines /\ UNCHANGED <<sent, requests, open, role, pending, oversized>>
        /\ \E n \in Reads : stream' = SubSeq(stream, n + 1, Len(stream))
    BY <1>6, ReceiveEffect, Zenon DEF ReceiveStep
  <2>2. PICK n \in Reads : stream' = SubSeq(stream, n + 1, Len(stream))
    BY <2>1, Zenon
  <2>3. stream' \in Seq(Piece) /\ Len(stream') <= Capacity
    <3>1. stream \in Seq(Piece) /\ Len(stream) <= Capacity /\ Capacity \in Nat
      BY DEF DialogueTypes, DialogueAssumption
    <3>2. stream' \in Seq(Piece) /\ Len(stream') = Len(stream) - n /\ n \in 1..Len(stream)
      BY <2>2, <3>1, ReadPiece
    <3> QED BY <3>1, <3>2
  <2> QED BY <2>1, <2>3 DEF DialogueTypes
<1>7. CASE Run
  BY <1>7, RunTypes, Zenon
<1>8. CASE trySendPendingMessage
  BY <1>8, PendingTypes
<1> QED BY <1>1, <1>2, <1>3, <1>4, <1>5, <1>6, <1>7, <1>8, Zenon DEF DialogueNext

\* A new connection has the types.
LEMMA TypesInit ==
    ASSUME DialogueAssumption, DialogueInit
    PROVE  DialogueTypes
<1>1. <<>> \in Seq(Units) /\ <<>> \in Seq(Piece) /\ <<>> \in Seq(Seq(Piece) \ {<<>>}) /\ Len(<<>>) <= Capacity
  BY DEF DialogueAssumption
<1>2. NoLine \in Lines /\ NotLoggedIn \in Somebody
  BY DEF NoLine, Lines, Words, Empty, Somebody
<1> QED BY <1>1, <1>2, Zenon DEF DialogueInit, DialogueTypes

\* The payload the client builds is the one the handlers of the server ask for:
\* whatever the user types and however requests are cut, read together and
\* answered, no reply to this client says "invalid or missing field".
THEOREM FieldsPresent == DialogueSpec => []FieldsAgree
<1>1. DialogueInit => DialogueTypes
  BY DialogueAssumption, TypesInit
<1>2. DialogueTypes /\ [DialogueNext]_dialogueVars => DialogueTypes'
  BY DialogueAssumption, TypesStep
<1>3. DialogueTypes => FieldsAgree
  <2> SUFFICES ASSUME DialogueTypes, NEW i \in DOMAIN stream
               PROVE  stream[i].reply.why # "field"
    BY Zenon DEF FieldsAgree
  <2>1. stream[i] \in Piece
    BY DEF DialogueTypes
  <2> QED BY <2>1, Zenon DEF Piece, Replies, Whys
<1> QED BY <1>1, <1>2, <1>3, PTL DEF DialogueSpec

-----------------------------------------------------------------------------
(* Logins: at most one reply that carries an identity is ever under way,   *)
(* in the stream or pending, and none before the session logs in or after  *)
(* the client has seen it.                                                 *)

None(s) == \A i \in DOMAIN s : ~s[i].reply.id
Once(s) == \A i, j \in DOMAIN s : s[i].reply.id /\ s[j].reply.id => i = j
NonePending(p) == \A k \in DOMAIN p : None(p[k])
OncePending(p) == \A k, j \in DOMAIN p : ~None(p[k]) /\ ~None(p[j]) => k = j
SinglePending(p) == \A k \in DOMAIN p : ~None(p[k]) => Len(p[k]) = 1

LoginInv ==
    /\ logins \in {0, 1} /\ (role = NotLoggedIn => logins = 0)
    /\ role = NotLoggedIn \/ logins = 1 => None(stream) /\ NonePending(pending)
    /\ None(stream) \/ NonePending(pending)
    /\ Once(stream) /\ OncePending(pending) /\ SinglePending(pending)

\* What a write adds to the identities in the stream.
LEMMA WriteLogins ==
    ASSUME Capacity \in Nat, stream \in Seq(Piece), Len(stream) <= Capacity, NEW m \in Seq(Piece)
    PROVE  LET s == stream \o Fits(m) IN
           /\ None(stream) /\ None(m) => None(s)
           /\ Once(stream) /\ None(m) => Once(s)
           /\ None(stream) /\ Len(m) = 1 => Once(s)
<1> DEFINE s == stream \o Fits(m)
           n == Len(stream)
<1>1. /\ s \in Seq(Piece) /\ Len(s) <= n + Len(m)
      /\ \A i \in 1..n : s[i] = stream[i]
      /\ \A i \in DOMAIN s : i > n => i - n \in DOMAIN m /\ s[i] = m[i - n]
  BY WriteEffect, Zenon
<1>2. n \in Nat /\ Len(m) \in Nat /\ DOMAIN s = 1..Len(s) /\ DOMAIN stream = 1..n /\ Len(s) \in Nat
  BY <1>1
<1> HIDE DEF s, n
<1>3. \A i \in DOMAIN s : (i \in DOMAIN stream /\ s[i] = stream[i])
                           \/ (i > n /\ i - n \in DOMAIN m /\ s[i] = m[i - n])
  BY <1>1, <1>2
<1>4. None(stream) /\ None(m) => None(s)
  BY <1>3, Zenon DEF None
<1>5. Once(stream) /\ None(m) => Once(s)
  BY <1>3, Zenon DEF None, Once
<1>6. ASSUME None(stream), Len(m) = 1 PROVE Once(s)
  <2>1. \A i \in DOMAIN s : s[i].reply.id => i = n + 1
    BY <1>1, <1>2, <1>3, <1>6 DEF None
  <2> QED BY <2>1, Zenon DEF Once
<1> QED BY <1>4, <1>5, <1>6, Zenon DEF s

\* A read removes identities only, and the one it starts with for good.
LEMMA ReadLogins ==
    ASSUME stream \in Seq(Piece), NEW n \in Reads
    PROVE  LET left == SubSeq(stream, n + 1, Len(stream)) IN
           /\ None(stream) => None(left)
           /\ Once(stream) => Once(left)
           /\ Once(stream) /\ stream[1].reply.id => None(left)
<1> DEFINE left == SubSeq(stream, n + 1, Len(stream))
<1>1. /\ n \in 1..Len(stream) /\ left \in Seq(Piece)
      /\ \A i \in DOMAIN left : n + i \in DOMAIN stream /\ left[i] = stream[n + i]
  BY ReadPiece, Zenon
<1>2. DOMAIN left \subseteq Nat \ {0} /\ 1 \in DOMAIN stream
  BY <1>1
<1> HIDE DEF left
<1>3. None(stream) => None(left)
  BY <1>1, Zenon DEF None
<1>4. Once(stream) => Once(left)
  BY <1>1, <1>2, SMTT(30) DEF Once
<1>5. Once(stream) /\ stream[1].reply.id => None(left)
  BY <1>1, <1>2, SMTT(30) DEF Once, None
<1> QED BY <1>3, <1>4, <1>5, Zenon DEF left

\* A message that queues behind the pending ones.
LEMMA AppendLogins ==
    ASSUME NEW p \in Seq(Seq(Piece) \ {<<>>}), NEW m \in Seq(Piece)
    PROVE  LET q == Append(p, m) IN
           /\ NonePending(p) /\ None(m) => NonePending(q)
           /\ OncePending(p) /\ None(m) => OncePending(q)
           /\ NonePending(p) => OncePending(q)
           /\ SinglePending(p) /\ (None(m) \/ Len(m) = 1) => SinglePending(q)
<1> DEFINE q == Append(p, m)
<1>1. /\ DOMAIN q = 1..(Len(p) + 1) /\ q[Len(p) + 1] = m
      /\ \A k \in 1..Len(p) : q[k] = p[k]
      /\ DOMAIN p = 1..Len(p) /\ Len(p) \in Nat
  OBVIOUS
<1> HIDE DEF q
<1>2. \A k \in DOMAIN q : (k \in DOMAIN p /\ q[k] = p[k]) \/ (k = Len(p) + 1 /\ q[k] = m)
  BY <1>1
<1>3. NonePending(p) /\ None(m) => NonePending(q)
  BY <1>2, Zenon DEF NonePending
<1>4. OncePending(p) /\ None(m) => OncePending(q)
  BY <1>2, Zenon DEF OncePending
<1>5. NonePending(p) => OncePending(q)
  BY <1>2, Zenon DEF NonePending, OncePending
<1>6. SinglePending(p) /\ (None(m) \/ Len(m) = 1) => SinglePending(q)
  BY <1>2, Zenon DEF SinglePending
<1> QED BY <1>3, <1>4, <1>5, <1>6, Zenon DEF q

\* Messages that leave from the front.
LEMMA TailLogins ==
    ASSUME NEW p \in Seq(Seq(Piece) \ {<<>>}), Len(p) > 0
    PROVE  LET q == Tail(p) IN
           /\ NonePending(p) => NonePending(q)
           /\ OncePending(p) => OncePending(q)
           /\ SinglePending(p) => SinglePending(q)
           /\ OncePending(p) /\ ~None(p[1]) => NonePending(q)
<1> DEFINE q == Tail(p)
<1>1. /\ \A k \in DOMAIN q : k + 1 \in DOMAIN p /\ q[k] = p[k + 1] /\ k \in Nat \ {0}
      /\ 1 \in DOMAIN p
  OBVIOUS
<1> HIDE DEF q
<1>2. NonePending(p) => NonePending(q)
  BY <1>1, Zenon DEF NonePending
<1>3. OncePending(p) => OncePending(q)
  BY <1>1 DEF OncePending
<1>4. SinglePending(p) => SinglePending(q)
  BY <1>1, Zenon DEF SinglePending
<1>5. OncePending(p) /\ ~None(p[1]) => NonePending(q)
  BY <1>1 DEF OncePending, NonePending
<1> QED BY <1>2, <1>3, <1>4, <1>5, Zenon DEF q

\* A rest without identity that takes the place of the next pending message.
LEMMA RestLogins ==
    ASSUME NEW p \in Seq(Seq(Piece) \ {<<>>}), Len(p) > 1, NEW rest \in Seq(Piece), None(rest)
    PROVE  LET q == <<rest>> \o SubSeq(p, 3, Len(p)) IN
           /\ NonePending(p) => NonePending(q)
           /\ OncePending(p) => OncePending(q)
           /\ SinglePending(p) => SinglePending(q)
<1> DEFINE n == Len(p)
           after == SubSeq(p, 3, n)
           q == <<rest>> \o after
<1>1. n \in Nat /\ n > 1 /\ DOMAIN p = 1..n
  OBVIOUS
<1>2. after \in Seq(Seq(Piece) \ {<<>>}) /\ Len(after) = n - 2 /\ \A k \in 1..(n - 2) : after[k] = p[k + 2]
  <2> HIDE DEF n
  <2>1. after \in Seq(Seq(Piece) \ {<<>>})
    BY <1>1
  <2>2. CASE n = 2
    BY <2>1, <2>2
  <2>3. CASE n > 2
    BY <1>1, <2>1, <2>3
  <2>4. n = 2 \/ n > 2
    BY <1>1
  <2> QED BY <2>1, <2>2, <2>3, <2>4, SMTT(30)
<1> HIDE DEF after, n
<1>3. /\ Len(q) = n - 1 /\ DOMAIN q = 1..(n - 1)
      /\ q[1] = rest /\ \A k \in 2..(n - 1) : q[k] = after[k - 1]
  BY <1>1, <1>2
<1> HIDE DEF q
<1>4. \A k \in DOMAIN q : (k = 1 /\ q[k] = rest)
                           \/ (k \in Nat \ {0} /\ k + 1 \in DOMAIN p /\ q[k] = p[k + 1])
  <2>1. \A k \in 1..(n - 1) : k = 1 \/ k \in 2..(n - 1)
    BY <1>1
  <2> SUFFICES ASSUME NEW k \in 2..(n - 1)
               PROVE  k \in Nat \ {0} /\ k + 1 \in DOMAIN p /\ q[k] = p[k + 1]
    BY <1>3, <2>1, Zenon
  <2>2. k - 1 \in 1..(n - 2) /\ (k - 1) + 2 = k + 1 /\ k \in Nat \ {0} /\ k + 1 \in 1..n
    BY <1>1
  <2>3. q[k] = after[k - 1] /\ after[k - 1] = p[(k - 1) + 2]
    BY <1>2, <1>3, <2>2, Zenon
  <2> QED BY <1>1, <2>2, <2>3, Zenon
<1>5. NonePending(p) => NonePending(q)
  BY <1>4, Zenon DEF NonePending
<1>6. OncePending(p) => OncePending(q)
  <2> SUFFICES ASSUME OncePending(p), NEW k \in DOMAIN q, NEW j \in DOMAIN q, ~None(q[k]), ~None(q[j])
               PROVE  k = j
    BY Zenon DEF OncePending
  <2>1. /\ k \in Nat /\ k + 1 \in DOMAIN p /\ q[k] = p[k + 1]
        /\ j \in Nat /\ j + 1 \in DOMAIN p /\ q[j] = p[j + 1]
    BY <1>4
  <2>2. k + 1 = j + 1
    BY <2>1, Zenon DEF OncePending
  <2> QED BY <2>1, <2>2
<1>7. SinglePending(p) => SinglePending(q)
  BY <1>4, Zenon DEF SinglePending
<1> QED BY <1>5, <1>6, <1>7 DEF q, after, n

\* A run answers a login once; every other reply carries no identity.
LEMMA RunLogins ==
    ASSUME DialogueAssumption, DialogueTypes, LoginInv, Run
    PROVE  LoginInv'
<1>1. PICK n \in 1..Len(requests), x \in Outcomes, size \in Nat \ {0}, reply \in Replies :
              /\ RunStep(n, x, size, reply)
              /\ \/ Stays(x, role)
                 \/ role = NotLoggedIn /\ LogsIn(x) /\ size = 1
              /\ reply.id = x.result.reply.id
  BY RunEffect, ZenonT(60)
<1> DEFINE m == Pieces(reply, size)
           s == stream \o Fits(m)
           p == Append(pending, m)
<1>2. /\ m \in Seq(Piece) /\ Len(m) = size /\ DOMAIN m = 1..size
      /\ \A i \in DOMAIN m : m[i].reply = reply
  <2>1. /\ m \in Seq(Piece) \ {<<>>} /\ Len(m) = size
        /\ \A i \in 1..size : m[i] = [reply |-> reply, part |-> i, of |-> size]
    BY PiecesEffect, ZenonT(60)
  <2> HIDE DEF m
  <2>2. m \in Seq(Piece) /\ DOMAIN m = 1..size
    BY <2>1
  <2>3. \A i \in 1..size : m[i].reply = reply
    BY <2>1
  <2> QED BY <2>1, <2>2, <2>3, Zenon
<1>3. /\ stream \in Seq(Piece) /\ Len(stream) <= Capacity /\ Capacity \in Nat
      /\ pending \in Seq(Seq(Piece) \ {<<>>})
  BY Zenon DEF DialogueTypes, DialogueAssumption
<1>4. /\ role' = x.role /\ logins' = logins
      /\ \/ x.result.keep /\ stream' = stream /\ pending' = p
         \/ x.result.keep /\ stream' = s /\ pending' = pending
         \/ ~x.result.keep /\ stream' \in {s, <<>>} /\ pending' = <<>>
  BY <1>1, Zenon DEF RunStep
<1> HIDE DEF m
<1>5. /\ None(stream) /\ None(m) => None(s)
      /\ Once(stream) /\ None(m) => Once(s)
      /\ None(stream) /\ Len(m) = 1 => Once(s)
  BY <1>2, <1>3, WriteLogins, Zenon
<1>6. /\ NonePending(pending) /\ None(m) => NonePending(p)
      /\ OncePending(pending) /\ None(m) => OncePending(p)
      /\ NonePending(pending) => OncePending(p)
      /\ SinglePending(pending) /\ (None(m) \/ Len(m) = 1) => SinglePending(p)
  BY <1>2, <1>3, AppendLogins, ZenonT(60)
<1>7. /\ None(<<>>) /\ Once(<<>>)
      /\ NonePending(<<>>) /\ OncePending(<<>>) /\ SinglePending(<<>>)
  BY DEF None, Once, NonePending, OncePending, SinglePending
<1> HIDE DEF s, p
<1>8. CASE Stays(x, role)
  <2>1. None(m) /\ role' = role
    BY <1>1, <1>2, <1>4, <1>8 DEF Stays, None
  <2>2. /\ None(stream) => None(stream')
        /\ Once(stream) => Once(stream')
        /\ NonePending(pending) => NonePending(pending')
        /\ OncePending(pending) => OncePending(pending')
        /\ SinglePending(pending) => SinglePending(pending')
    BY <1>4, <1>5, <1>6, <1>7, <2>1, Zenon
  <2> QED BY <1>4, <2>1, <2>2, ZenonT(60) DEF LoginInv
<1>9. CASE role = NotLoggedIn /\ LogsIn(x) /\ size = 1
  <2>1. x.result.keep /\ role' # NotLoggedIn /\ Len(m) = 1
    BY <1>2, <1>4, <1>9, Zenon DEF LogsIn
  <2>2. logins = 0 /\ None(stream) /\ NonePending(pending) /\ SinglePending(pending) /\ Once(stream) /\ OncePending(pending)
    BY <1>9, Zenon DEF LoginInv
  <2>3. Once(stream') /\ OncePending(pending') /\ SinglePending(pending') /\ (None(stream') \/ NonePending(pending'))
    BY <1>4, <1>5, <1>6, <2>1, <2>2, Zenon
  <2>4. logins' = 0 /\ logins' # 1
    BY <1>4, <2>2
  <2> QED BY <2>1, <2>3, <2>4, Zenon DEF LoginInv
<1> QED BY <1>1, <1>8, <1>9, Zenon

\* A pending login is one piece: it is sent whole or waits.
LEMMA PendingLogins ==
    ASSUME DialogueAssumption, DialogueTypes, LoginInv, trySendPendingMessage
    PROVE  LoginInv'
<1> DEFINE m == pending[1]
           rest == Rest(m)
           s == stream \o Fits(m)
           p == <<rest>> \o SubSeq(pending, 3, Len(pending))
<1>1. /\ Free \in Nat \ {0} /\ Len(pending) > 0 /\ m \in Seq(Piece) \ {<<>>}
      /\ stream' = s
      /\ \/ pending' = Tail(pending)
         \/ pending' = <<>>
         \/ rest # <<>> /\ Len(pending) > 1 /\ pending' = p
      /\ logins' = logins /\ role' = role
  BY PendingEffect, Zenon
<1>2. /\ stream \in Seq(Piece) /\ Len(stream) <= Capacity /\ Capacity \in Nat
      /\ pending \in Seq(Seq(Piece) \ {<<>>}) /\ 1 \in DOMAIN pending
  BY <1>1 DEF DialogueTypes, DialogueAssumption
<1>3. /\ NonePending(pending) => None(m)
      /\ SinglePending(pending) /\ ~None(m) => Len(m) = 1
  BY <1>2, Zenon DEF NonePending, SinglePending
<1>4. /\ NonePending(pending) => NonePending(Tail(pending))
      /\ OncePending(pending) => OncePending(Tail(pending))
      /\ SinglePending(pending) => SinglePending(Tail(pending))
      /\ OncePending(pending) /\ ~None(m) => NonePending(Tail(pending))
  BY <1>1, <1>2, TailLogins, Zenon
<1> HIDE DEF m
<1>5. /\ None(stream) /\ None(m) => None(s)
      /\ Once(stream) /\ None(m) => Once(s)
      /\ None(stream) /\ Len(m) = 1 => Once(s)
  BY <1>1, <1>2, WriteLogins
<1>6. rest \in Seq(Piece) /\ (rest # <<>> => Len(m) > Free) /\ (None(m) => None(rest))
  <2>1. /\ rest \in Seq(Piece) /\ (rest # <<>> => Len(m) > Free)
        /\ \A i \in DOMAIN rest : i + Free \in DOMAIN m /\ rest[i] = m[i + Free]
    BY <1>1, RestEffect, Zenon
  <2> HIDE DEF rest
  <2> QED BY <2>1, Zenon DEF None
<1> HIDE DEF rest
<1>7. None(rest) /\ Len(pending) > 1 =>
         /\ NonePending(pending) => NonePending(p)
         /\ OncePending(pending) => OncePending(p)
         /\ SinglePending(pending) => SinglePending(p)
  BY <1>2, <1>6, RestLogins, Zenon
<1>8. NonePending(<<>>) /\ OncePending(<<>>) /\ SinglePending(<<>>)
  BY DEF NonePending, OncePending, SinglePending
<1> HIDE DEF s, p
<1>9. CASE None(m)
  <2>1. /\ None(stream) => None(stream')
        /\ Once(stream) => Once(stream')
        /\ NonePending(pending) => NonePending(pending')
        /\ OncePending(pending) => OncePending(pending')
        /\ SinglePending(pending) => SinglePending(pending')
    BY <1>1, <1>4, <1>5, <1>6, <1>7, <1>8, <1>9, Zenon
  <2> QED BY <1>1, <2>1, Zenon DEF LoginInv
<1>10. CASE ~None(m)
  <2>1. Len(m) = 1 /\ None(stream) /\ role # NotLoggedIn /\ logins # 1
    BY <1>3, <1>10, Zenon DEF LoginInv
  <2>2. rest = <<>>
    BY <1>1, <1>6, <2>1
  <2>3. NonePending(pending') /\ OncePending(pending') /\ SinglePending(pending')
    BY <1>1, <1>4, <1>8, <1>10, <2>2, Zenon DEF LoginInv
  <2>4. Once(stream')
    BY <1>1, <1>5, <2>1, Zenon
  <2> QED BY <1>1, <2>1, <2>3, <2>4, Zenon DEF LoginInv
<1> QED BY <1>9, <1>10

\* A login that is read is counted and no longer under way.
LEMMA ReceiveLogins ==
    ASSUME DialogueTypes, LoginInv, Receive
    PROVE  LoginInv'
<1>1. role' = role /\ pending' = pending
  BY ReceiveEffect, Zenon
<1>2. PICK n \in Reads : \E text : ReceiveStep(n, text) /\ FirstReply(text)
  BY ReceiveEffect, Zenon
<1>3. PICK text : ReceiveStep(n, text) /\ FirstReply(text)
  BY <1>2, Zenon
<1> DEFINE display == print_readable_response(text, line.word)
<1>4. /\ stream' = SubSeq(stream, n + 1, Len(stream))
      /\ logins' = IF display = "login" THEN logins + 1 ELSE logins
  BY <1>3, Zenon DEF ReceiveStep
<1>5. display = "login" => stream[1].reply.id
  <2>1. display = "login" => text.json = "reply" /\ text.reply.id
    BY <1>3, LoginShown, SMTT(30) DEF FirstReply
  <2> QED BY <1>3, <2>1, Zenon DEF FirstReply
<1>6. stream \in Seq(Piece) /\ 1 \in DOMAIN stream
  BY ReadPiece DEF DialogueTypes
<1>7. /\ None(stream) => None(stream')
      /\ Once(stream) => Once(stream')
      /\ Once(stream) /\ stream[1].reply.id => None(stream')
  BY <1>4, <1>6, ReadLogins
<1> HIDE DEF display
<1>8. CASE display = "login"
  <2>1. ~None(stream)
    BY <1>5, <1>6, <1>8, Zenon DEF None
  <2>2. logins = 0 /\ role # NotLoggedIn /\ NonePending(pending) /\ None(stream') /\ Once(stream')
    BY <1>5, <1>7, <1>8, <2>1, Zenon DEF LoginInv
  <2>3. logins' = 1
    BY <1>4, <1>8, <2>2
  <2> QED BY <1>1, <2>2, <2>3, Zenon DEF LoginInv
<1>9. CASE display # "login"
  <2>1. logins' = logins
    BY <1>4, <1>9
  <2> QED BY <1>1, <1>7, <2>1, Zenon DEF LoginInv
<1> QED BY <1>8, <1>9

\* Every step of the client and of the session keeps LoginInv.
LEMMA LoginsStep ==
    ASSUME DialogueAssumption, DialogueTypes, LoginInv, [DialogueNext]_dialogueVars
    PROVE  LoginInv'
<1> USE DEF serverVars, clientVars
<1>1. CASE sendWelcomeMessage
  <2>1. stream' = Pieces(Welcome, 1) /\ UNCHANGED <<logins, role, pending>>
    BY <1>1 DEF sendWelcomeMessage
  <2>2. stream' \in Seq(Piece) /\ Len(stream') = 1 /\ ~stream'[1].reply.id
    BY <2>1, WelcomePiece, Zenon
  <2>3. None(stream') /\ Once(stream')
    BY <2>2 DEF None, Once
  <2> QED BY <2>1, <2>3, Zenon DEF LoginInv
<1>2. CASE RunEnds
  <2>1. pending' = <<>> /\ UNCHANGED <<stream, logins, role>>
    BY <1>2, Zenon DEF RunEnds
  <2>2. NonePending(<<>>) /\ OncePending(<<>>) /\ SinglePending(<<>>)
    BY DEF NonePending, OncePending, SinglePending
  <2> QED BY <2>1, <2>2, Zenon DEF LoginInv
<1>3. CASE start_communication
  <2>1. PICK n \in Reads : stream' = SubSeq(stream, n + 1, Len(stream))
    BY <1>3, Zenon DEF start_communication, Taken
  <2>2. UNCHANGED <<logins, role, pending>>
    BY <1>3, Zenon DEF start_communication
  <2>3. (None(stream) => None(stream')) /\ (Once(stream) => Once(stream'))
    BY <2>1, ReadLogins, Zenon DEF DialogueTypes
  <2> QED BY <2>2, <2>3, Zenon DEF LoginInv
<1>4. ASSUME NEW l \in InputLines, TypeLine(l) PROVE LoginInv'
  <2>1. UNCHANGED <<stream, logins, role, pending>>
    BY <1>4, LineEffect, Zenon
  <2> QED BY <2>1, Zenon DEF LoginInv
<1>5. CASE EndOfInput \/ ReceiveEnd \/ UNCHANGED dialogueVars
  <2>1. UNCHANGED <<stream, logins, role, pending>>
    BY <1>5 DEF EndOfInput, ReceiveEnd, dialogueVars
  <2> QED BY <2>1, Zenon DEF LoginInv
<1>6. CASE Receive
  BY <1>6, ReceiveLogins, Zenon
<1>7. CASE Run
  BY <1>7, RunLogins, Zenon
<1>8. CASE trySendPendingMessage
  BY <1>8, PendingLogins, Zenon
<1> QED BY <1>1, <1>2, <1>3, <1>4, <1>5, <1>6, <1>7, <1>8, Zenon DEF DialogueNext

-----------------------------------------------------------------------------
(* In step: while nothing is longer than one piece, one message at most is *)
(* under way, and the client waits for it.                                 *)

\* The client has seen the login of its session.
Ready == role # NotLoggedIn => logins = 1

Greeting ==
    /\ pc = "welcome" /\ requests = <<>> /\ pending = <<>>
    /\ sent = 0 /\ answer = NoAnswer /\ role = NotLoggedIn
    /\ (open = "new" /\ stream = <<>>) \/ (open = "open" /\ Len(stream) = 1)

Typing ==
    /\ pc = "input" /\ requests = <<>> /\ stream = <<>> /\ pending = <<>> /\ open # "new"
    /\ answer.to = sent /\ answer.display # "unparsed" /\ Ready

\* The request is under way, or its reply, or the session has closed on it.
Requested ==
    /\ open = "open" /\ stream = <<>> /\ Len(requests) = 1
    /\ requests[1].unit = "whole" /\ requests[1].n = sent
    /\ requests[1].request.command = "login" => line.word = "login"
    /\ Ready
Replied ==
    /\ requests = <<>> /\ Len(stream) = 1
    /\ stream[1].part = 1 /\ stream[1].of = 1 /\ stream[1].reply.to = sent
    /\ \/ Ready
       \/ stream[1].reply.id /\ stream[1].reply.status = "success" /\ line.word = "login"
Closed == requests = <<>> /\ stream = <<>> /\ open = "closed"

Waiting ==
    /\ pc = "recv" /\ pending = <<>> /\ open # "new"
    /\ Requested \/ Replied \/ Closed

Phase == Greeting \/ Typing \/ Waiting \/ pc \in {"left", "crashed"}
StepInv == oversized \/ Phase

\* The reply to a request that was alone under way is alone under way.
LEMMA RunPhase ==
    ASSUME DialogueAssumption, DialogueTypes, StepInv, Run, ~oversized'
    PROVE  Phase'
<1>1. PICK n \in 1..Len(requests), x \in Outcomes, size \in Nat \ {0}, reply \in Replies :
              /\ RunStep(n, x, size, reply)
              /\ \/ Stays(x, role)
                 \/ /\ role = NotLoggedIn /\ LogsIn(x)
                    /\ requests[1].request.command = "login"
              /\ reply.to = requests[n].n /\ reply.id = x.result.reply.id
              /\ reply.status = x.result.reply.status
  BY RunEffect, ZenonT(60)
<1>2. /\ role' = x.role /\ requests' = SubSeq(requests, n + 1, Len(requests))
      /\ UNCHANGED <<pc, line, sent, logins>> /\ ~oversized /\ size = 1
  <2>1. /\ role' = x.role /\ requests' = SubSeq(requests, n + 1, Len(requests))
        /\ UNCHANGED <<pc, line, sent, logins>> /\ oversized' = (oversized \/ size > 1)
    BY <1>1, Zenon DEF RunStep
  <2>2. ~oversized /\ ~(size > 1)
    BY <2>1, Zenon DEF DialogueTypes
  <2> QED BY <2>1, <2>2
<1>3. CASE pc \in {"left", "crashed"}
  BY <1>2, <1>3, Zenon DEF Phase
<1>4. CASE pc \notin {"left", "crashed"}
  <2>1. open = "open" /\ requests # <<>>
    BY Zenon DEF Run
  <2>2. Waiting /\ Requested
    BY <1>2, <1>4, <2>1, Zenon DEF StepInv, Phase, Greeting, Typing, Waiting, Replied, Closed
  <2>3. n = 1 /\ requests' = <<>> /\ reply.to = sent
    <3>1. Len(requests) = 1 /\ requests[1].n = sent
      BY <2>2, Zenon DEF Requested
    <3>2. n = 1 /\ n + 1 = 2
      <4>1. n \in 1..1
        BY <1>1, <3>1, Zenon
      <4> QED BY ONLY <4>1, SMT
    <3>3. requests' = SubSeq(requests, 2, 1) /\ reply.to = requests[1].n
      BY <1>1, <1>2, <3>1, <3>2, Zenon
    <3>4. SubSeq(requests, 2, 1) = <<>>
      BY DEF DialogueTypes
    <3> QED BY <3>1, <3>2, <3>3, <3>4, Zenon
  <2> DEFINE m == Pieces(reply, 1)
  <2>4. /\ m \in Seq(Piece) /\ Len(m) = 1
        /\ m[1] = [reply |-> reply, part |-> 1, of |-> 1]
    <3>1. 1 \in Nat \ {0} /\ 1 \in 1..1
      OBVIOUS
    <3>2. /\ m \in Seq(Piece) \ {<<>>} /\ Len(m) = 1
          /\ \A i \in 1..1 : m[i] = [reply |-> reply, part |-> i, of |-> 1]
      BY <3>1, PiecesEffect, ZenonT(60)
    <3> QED BY <3>1, <3>2, Zenon
  <2>5. Free = Capacity /\ Capacity \in Nat /\ Capacity > 0
    <3>1. stream = <<>> /\ Free = Capacity - Len(stream)
      BY <2>2, Zenon DEF Requested, Free
    <3>2. Capacity \in Nat \ {0}
      BY ONLY DialogueAssumption, ZenonT(60)
    <3> QED BY ONLY <3>1, <3>2, SMT
  <2>6. /\ open' \in {"open", "closed"} /\ pending' = <<>> /\ stream' = stream \o Fits(m)
    BY <1>1, <1>2, <2>1, <2>2, <2>3, <2>5, Zenon DEF RunStep, Waiting
  <2> HIDE DEF m
  <2>7. stream' = m
    <3>1. stream = <<>> /\ stream \in Seq(Piece) /\ Len(stream) <= Capacity
      BY <2>2, Zenon DEF Requested, DialogueTypes
    <3>2. Len(m) <= Free /\ stream = <<>> => stream \o Fits(m) = m
      BY <2>4, <2>5, <3>1, WriteEffect, Zenon
    <3>3. Len(m) <= Free
      BY ONLY <2>4, <2>5, SMT
    <3> QED BY <2>6, <3>1, <3>2, <3>3, Zenon
  <2>8. /\ Len(stream') = 1 /\ stream'[1].part = 1 /\ stream'[1].of = 1
        /\ stream'[1].reply = reply
    <3>1. m[1].part = 1 /\ m[1].of = 1 /\ m[1].reply = reply
      BY ONLY <2>4, SMT
    <3> QED BY <2>4, <2>7, <3>1, Zenon
  <2>9. \/ role' # NotLoggedIn => logins' = 1
        \/ reply.id /\ reply.status = "success" /\ line.word = "login"
    <3>1. CASE Stays(x, role)
      BY <1>2, <2>2, <3>1 DEF Stays, Requested, Ready
    <3>2. CASE LogsIn(x) /\ requests[1].request.command = "login"
      BY <1>1, <2>2, <3>2, ZenonT(60) DEF LogsIn, Requested
    <3> QED BY <1>1, <3>1, <3>2, Zenon
  <2>10. Replied'
    BY <1>2, <2>3, <2>8, <2>9 DEF Replied, Ready
  <2> QED BY <1>2, <2>2, <2>6, <2>10, Zenon DEF Phase, Waiting
<1> QED BY <1>3, <1>4

\* What the client sends while nothing is under way is alone under way.
LEMMA LinePhase ==
    ASSUME DialogueAssumption, DialogueTypes, StepInv, NEW l \in InputLines, TypeLine(l), ~oversized'
    PROVE  Phase'
<1>1. /\ pc = "input" /\ (pc' = "input" => answer' = answer)
      /\ UNCHANGED <<logins, stream, open, role, pending>>
      /\ pc' = "recv" => line' = l
  BY LineEffect, Zenon
<1>2. CASE UNCHANGED <<sent, requests, oversized>> /\ pc' \in {"input", "left", "crashed"}
  <2>1. Typing
    BY <1>1, <1>2, Zenon DEF StepInv, Phase, Greeting, Waiting
  <2> QED BY <1>1, <1>2, <2>1, Zenon DEF Phase, Typing, Ready
<1>3. CASE \E request \in Asked, long \in BOOLEAN :
              Send(request, long) /\ (request.command = "login" => l.word = "login")
  <2>1. PICK request \in Asked, long \in BOOLEAN :
           Send(request, long) /\ (request.command = "login" => l.word = "login")
    BY <1>3, Zenon
  <2> DEFINE whole == [unit |-> "whole", n |-> sent + 1, request |-> request]
  <2>2. /\ oversized' = (oversized \/ long)
        /\ \/ /\ pc' = "recv" /\ sent' = sent + 1
              /\ open = "closed" => requests' = requests
              /\ open # "closed" /\ ~long => requests' = Append(requests, whole)
           \/ pc' = "left"
    BY <2>1, SendEffect, Zenon
  <2>3. Typing /\ ~long
    BY <1>1, <2>2, Zenon DEF StepInv, Phase, Greeting, Waiting
  <2>4. CASE pc' = "left"
    BY <2>4, Zenon DEF Phase
  <2>5. CASE pc' # "left" /\ open = "closed"
    <3>1. Closed'
      BY <1>1, <2>2, <2>3, <2>5 DEF Closed, Typing
    <3> QED BY <1>1, <2>2, <2>3, <2>5, <3>1, ZenonT(60) DEF Phase, Waiting, Typing
  <2>6. CASE pc' # "left" /\ open # "closed"
    <3>1. open = "open" /\ requests' = Append(<<>>, whole) /\ sent' = sent + 1 /\ pc' = "recv"
      BY <2>2, <2>3, <2>6, Zenon DEF Typing, DialogueTypes
    <3>2. whole.unit = "whole" /\ whole.n = sent + 1 /\ whole.request = request
      OBVIOUS
    <3> HIDE DEF whole
    <3>3. Len(requests') = 1 /\ requests'[1] = whole
      BY <3>1
    <3>4. requests'[1].request.command = "login" => line'.word = "login"
      BY <1>1, <2>1, <3>1, <3>2, <3>3, Zenon
    <3>5. open' = "open" /\ stream' = <<>> /\ Ready'
      BY <1>1, <2>3, <3>1, Zenon DEF Typing, Ready
    <3>6. Requested'
      BY <3>1, <3>2, <3>3, <3>4, <3>5, ZenonT(60) DEF Requested
    <3> QED BY <1>1, <2>3, <3>1, <3>6, Zenon DEF Phase, Waiting, Typing
  <2> QED BY <2>4, <2>5, <2>6
<1> QED BY <1>2, <1>3, LineEffect, Zenon

\* What the client reads is the reply it waits for, and a login is seen.
LEMMA ReceivePhase ==
    ASSUME DialogueTypes, LoginInv, StepInv, Receive, ~oversized'
    PROVE  Phase'
<1>1. pc = "recv" /\ UNCHANGED <<sent, requests, open, role, pending, oversized>>
  BY ReceiveEffect, Zenon
<1>2. PICK n \in Reads : \E text : ReceiveStep(n, text) /\ FirstReply(text)
  BY ReceiveEffect, Zenon
<1>3. PICK text : ReceiveStep(n, text) /\ FirstReply(text)
  BY <1>2, Zenon
<1>4. stream \in Seq(Piece) /\ n \in 1..Len(stream)
  BY ReadPiece, ZenonT(60) DEF DialogueTypes
<1>5. Waiting /\ Replied
  BY <1>1, <1>4 DEF StepInv, Phase, Greeting, Typing, Waiting, Requested, Closed
<1> DEFINE display == print_readable_response(text, line.word)
<1>6. /\ stream' = SubSeq(stream, n + 1, Len(stream))
      /\ answer' = [to |-> IF text.json = "reply" THEN text.reply.to ELSE 0, display |-> display]
      /\ logins' = IF display = "login" THEN logins + 1 ELSE logins
      /\ pc' \in {"crashed", "left", "input"}
  BY <1>3, Zenon DEF ReceiveStep
<1>7. text.json = "reply" /\ text.reply = stream[1].reply
  BY <1>3, <1>5, ZenonT(60) DEF FirstReply, Replied
<1>8. /\ text.reply.id /\ text.reply.status = "success" /\ line.word = "login" => display = "login"
      /\ display # "unparsed" /\ (display = "login" => text.reply.id)
  BY <1>7, LoginShown, SMTT(30)
<1> HIDE DEF display
<1>9. stream' = <<>>
  <2>1. Len(stream) = 1 /\ n = 1
    BY <1>4, <1>5 DEF Replied
  <2> QED BY <1>4, <1>6, <2>1, SMTT(30)
<1>10. answer'.to = sent' /\ answer'.display # "unparsed"
  BY <1>1, <1>5, <1>6, <1>7, <1>8, Zenon DEF Replied
<1>11. role # NotLoggedIn => logins' = 1
  <2>1. 1 \in DOMAIN stream
    BY <1>4
  <2>2. stream[1].reply.id => logins = 0
    BY <2>1, ZenonT(60) DEF LoginInv, None
  <2>3. CASE stream[1].reply.id /\ stream[1].reply.status = "success" /\ line.word = "login"
    BY <1>6, <1>7, <1>8, <2>2, <2>3
  <2>4. CASE Ready /\ role # NotLoggedIn
    <3>1. logins = 1 /\ ~stream[1].reply.id
      BY <2>2, <2>4 DEF Ready
    <3> QED BY <1>6, <1>7, <1>8, <3>1, Zenon
  <2> QED BY <1>5, <2>3, <2>4, Zenon DEF Replied
<1>12. Ready'
  BY <1>1, <1>11 DEF Ready
<1> QED BY <1>1, <1>5, <1>6, <1>9, <1>10, <1>12 DEF Phase, Typing, Waiting, Replied

\* Every step keeps the two in step until something is oversized.
LEMMA PhaseStep ==
    ASSUME DialogueAssumption, DialogueTypes, LoginInv, StepInv, [DialogueNext]_dialogueVars
    PROVE  StepInv'
<1> SUFFICES ASSUME ~oversized' PROVE Phase'
  BY Zenon DEF StepInv
<1> USE DEF serverVars, clientVars
<1>1. CASE sendWelcomeMessage
  <2>1. Len(stream') = 1
    BY <1>1, WelcomePiece, Zenon DEF sendWelcomeMessage
  <2>2. CASE pc \in {"left", "crashed"}
    BY <1>1, <2>2, Zenon DEF sendWelcomeMessage, Phase
  <2>3. CASE pc \notin {"left", "crashed"}
    <3>1. Greeting
      BY <1>1, <2>3, Zenon DEF sendWelcomeMessage, StepInv, Phase, Typing, Waiting
    <3> QED BY <1>1, <2>1, <3>1, Zenon DEF sendWelcomeMessage, Greeting, Phase
  <2> QED BY <2>2, <2>3
<1>2. CASE RunEnds
  BY <1>2, Zenon DEF RunEnds, Phase
<1>3. CASE start_communication
  <2>1. PICK n \in Reads : stream' = SubSeq(stream, n + 1, Len(stream))
    BY <1>3, Zenon DEF start_communication, Taken
  <2>2. stream \in Seq(Piece) /\ n \in 1..Len(stream)
    BY ReadPiece, Zenon DEF DialogueTypes
  <2>3. pc = "welcome" /\ pc' = "input" /\ UNCHANGED <<sent, logins, answer, requests, open, role, pending, oversized>>
    BY <1>3, Zenon DEF start_communication
  <2>4. Greeting
    BY <2>3, Zenon DEF StepInv, Phase, Typing, Waiting
  <2>5. Len(stream) = 1 /\ open = "open"
    BY <2>2, <2>4 DEF Greeting
  <2>6. stream' = <<>>
    BY <2>1, <2>2, <2>5, SMTT(30)
  <2>7. answer.to = sent /\ answer.display # "unparsed"
    BY <2>4 DEF Greeting, NoAnswer
  <2> QED BY <2>3, <2>4, <2>5, <2>6, <2>7, Zenon DEF Greeting, Phase, Typing, Ready
<1>4. ASSUME NEW l \in InputLines, TypeLine(l) PROVE Phase'
  BY <1>4, LinePhase, Zenon
<1>5. CASE EndOfInput \/ ReceiveEnd
  BY <1>5, Zenon DEF EndOfInput, ReceiveEnd, Phase
<1>6. CASE Receive
  BY <1>6, ReceivePhase, Zenon
<1>7. CASE Run
  BY <1>7, RunPhase, Zenon
<1>8. CASE trySendPendingMessage
  <2>1. pending # <<>> /\ UNCHANGED <<pc, oversized>>
    BY <1>8, Zenon DEF trySendPendingMessage
  <2>2. pc \in {"left", "crashed"}
    BY <2>1, Zenon DEF StepInv, Phase, Greeting, Typing, Waiting
  <2> QED BY <2>1, <2>2, Zenon DEF Phase
<1>9. CASE UNCHANGED dialogueVars
  <2>1. UNCHANGED <<pc, line, sent, logins, answer, requests, stream, open, role, pending, oversized>>
    BY <1>9, Zenon DEF dialogueVars
  <2>2. Phase
    BY <2>1, Zenon DEF StepInv
  <2> QED BY <2>1, <2>2, ZenonT(60) DEF Phase, Greeting, Typing, Waiting, Requested, Replied, Closed, Ready
<1> QED BY <1>1, <1>2, <1>3, <1>4, <1>5, <1>6, <1>7, <1>8, <1>9, Zenon DEF DialogueNext

DialogueInv == DialogueTypes /\ LoginInv /\ StepInv

\* The inductive invariant of the dialogue.
LEMMA DialogueInductive ==
    /\ DialogueInit => DialogueInv
    /\ DialogueInv /\ [DialogueNext]_dialogueVars => DialogueInv'
<1>1. DialogueInit => DialogueInv
  <2> SUFFICES ASSUME DialogueInit PROVE DialogueInv
    OBVIOUS
  <2>1. LoginInv
    BY DEF DialogueInit, LoginInv, None, Once, NonePending, OncePending, SinglePending
  <2>2. StepInv
    BY DEF DialogueInit, StepInv, Phase, Greeting
  <2> QED BY <2>1, <2>2, DialogueAssumption, TypesInit, ZenonT(60) DEF DialogueInv
<1>2. DialogueInv /\ [DialogueNext]_dialogueVars => DialogueInv'
  BY DialogueAssumption, TypesStep, LoginsStep, PhaseStep, Zenon DEF DialogueInv
<1> QED BY <1>1, <1>2, Zenon

\* As long as every request fits the server's read and every reply fits one
\* piece, what the client shows after a command is the reply to that command:
\* for any number of lines, any capacity of the socket buffers and any length of
\* a read (start_communication and handle_server_transaction: one read a message).
THEOREM Answered == DialogueSpec => []InStep
<1>1. DialogueInv => InStep
  BY Zenon DEF DialogueInv, StepInv, Phase, Greeting, Typing, Waiting, InStep
<1>2. DialogueInit => DialogueInv
  BY DialogueInductive, Zenon
<1>3. DialogueInv /\ [DialogueNext]_dialogueVars => DialogueInv'
  BY DialogueInductive, Zenon
<1> QED BY <1>1, <1>2, <1>3, PTL DEF DialogueSpec

\* The client starts its threads and its dashboard (TRANSACTION_LOGIN_SUCCESS)
\* once, and only for a session the server has authenticated, however its
\* replies are cut, overtaken or lost; while the two are in step it never
\* misses a login (handle_login_response, processMessage).
THEOREM LoggedInOnce == DialogueSpec => []LoginAgrees
<1>1. DialogueInv => LoginAgrees
  <2> SUFFICES ASSUME DialogueInv PROVE LoginAgrees
    OBVIOUS
  <2>1. logins <= 1 /\ (logins = 1 => role # NotLoggedIn)
    BY DEF DialogueInv, LoginInv
  <2>2. ~oversized /\ pc = "input" /\ role # NotLoggedIn => logins = 1
    BY DEF DialogueInv, StepInv, Phase, Greeting, Typing, Waiting, Ready
  <2> QED BY <2>1, <2>2, Zenon DEF LoginAgrees
<1>2. DialogueInit => DialogueInv
  BY DialogueInductive
<1>3. DialogueInv /\ [DialogueNext]_dialogueVars => DialogueInv'
  BY DialogueInductive
<1> QED BY <1>1, <1>2, <1>3, PTL DEF DialogueSpec

======================================================================
