--------------------------- MODULE Authenticator ---------------------------
(***************************************************************************)
(* Authenticator::authenticate (src/server/authenticator.cpp), called by   *)
(* the workers that run client sessions, over the users table and a clock. *)
(* The mutex makes the read of the row and the update that depends on it   *)
(* atomic with respect to other logins; alerts and administrators change   *)
(* the table without it.  A restart keeps the table and nothing else.      *)
(***************************************************************************)
EXTENDS UsersTable

CONSTANTS Sessions,      \* clientSession objects
          NoSession,     \* the mutex is free
          NoUser,        \* no login in progress
          BlockTime,     \* Config::getBlockTimeSeconds
          MaxTime        \* bound: the clock stops there

ASSUME AuthenticatorAssumption ==
    /\ BlockTime \in Nat \ {0}
    /\ MaxTime \in Nat
    /\ NoSession \notin Sessions
    /\ NoUser \notin Users

VARIABLES now,       \* IClock::now, which never goes back
          mutex,     \* Authenticator::m_mutex: the session whose worker holds it
          session,   \* each session and the locals of its call
          recent     \* observer: times of the last three failures since a success

vars == <<users, now, mutex, session, recent>>

\* A failure that never was is as good as one a block time before the start.
Failures == [first : Int, second : Int, third : Int]
NoFailures == [first |-> -BlockTime, second |-> -BlockTime, third |-> -BlockTime]

NoData == [failedAttempts |-> 0, lastFailedTimestamp |-> 0]
NewSession == [pc |-> "idle", user |-> NoUser, authenticated |-> FALSE,
               data |-> NoData, currentTime |-> 0]

\* A database as setupServer leaves it: some users exist, the administrator
\* among them; others are registered later.
Init ==
    /\ users \in [Users -> {NoRow, NewRow}]
    /\ now = 0
    /\ mutex = NoSession
    /\ session = [s \in Sessions |-> NewSession]
    /\ recent = [u \in Users |-> NoFailures]

Tick ==
    /\ now < MaxTime
    /\ now' = now + 1
    /\ UNCHANGED <<users, mutex, session, recent>>

-----------------------------------------------------------------------------
At(s, pc) == session[s].pc = pc
InAuthenticate(s) == session[s].pc \in {"clock", "reset", "verify"}
Goto(s, pc) == session' = [session EXCEPT ![s] = [@ EXCEPT !.pc = pc]]

\* authenticate returns, or throws: the lock guard releases the mutex.  The
\* session of a call that throws is closed; a new one may take its place.
Return(s) == mutex' = NoSession /\ session' = [session EXCEPT ![s] = NewSession]

getUserLoginDataUnlocked(s, u) ==
    /\ At(s, "idle") /\ ~session[s].authenticated
    /\ users[u].exists /\ ~users[u].is_locked
    /\ mutex' = s
    /\ session' = [session EXCEPT ![s] = [@ EXCEPT !.pc = "clock", !.user = u, !.data = getUserLoginData(u)]]
    /\ UNCHANGED <<users, now, recent>>

\* A mutant: the lock of the account is not looked at.
getLockedLoginData(s, u) ==
    /\ At(s, "idle") /\ ~session[s].authenticated
    /\ mutex = NoSession /\ users[u].exists
    /\ mutex' = s
    /\ session' = [session EXCEPT ![s] = [@ EXCEPT !.pc = "clock", !.user = u, !.data = getUserLoginData(u)]]
    /\ UNCHANGED <<users, now, recent>>

\* The mutex is taken and the row read.  For a row that does not exist or is
\* locked the call returns at once, having changed nothing.
ReadLoginData(s, u) ==
    /\ At(s, "idle") /\ ~session[s].authenticated
    /\ mutex = NoSession
    /\ users[u].exists /\ ~users[u].is_locked
    /\ mutex' = s
    /\ session' = [session EXCEPT ![s] = [@ EXCEPT !.pc = "clock", !.user = u, !.data = getUserLoginData(u)]]
    /\ UNCHANGED <<users, now, recent>>

Blocked(data, t) ==
    data.failedAttempts >= 3 /\ t - data.lastFailedTimestamp < BlockTime

\* m_clock.now(), and the account is blocked: FAILED_ACCOUNT_LOCKED.
RefuseBlocked(s) ==
    /\ At(s, "clock") /\ Blocked(session[s].data, now)
    /\ Return(s)
    /\ UNCHANGED <<users, now, recent>>

\* m_clock.now(), and the account is not blocked, or no longer.
ReadClock(s) ==
    /\ At(s, "clock") /\ ~Blocked(session[s].data, now)
    /\ session' = [session EXCEPT ![s] = [@ EXCEPT !.currentTime = now,
                      !.pc = IF session[s].data.failedAttempts >= 3 THEN "reset" ELSE "verify"]]
    /\ UNCHANGED <<users, now, mutex, recent>>

SkipReset(s) ==
    /\ At(s, "reset")
    /\ Goto(s, "verify")
    /\ UNCHANGED <<users, now, mutex, recent>>

\* The block time has passed: the counter starts again from 0.
ResetAttempts(s) ==
    /\ At(s, "reset")
    /\ resetLoginAttempts(session[s].user)
    /\ Goto(s, "verify")
    /\ UNCHANGED <<now, mutex, recent>>

\* The password is right: SUCCESS, and clientSession keeps the user.
Succeed(s) ==
    LET u == session[s].user IN
    /\ At(s, "verify")
    /\ resetLoginAttempts(u)
    /\ mutex' = NoSession
    /\ session' = [session EXCEPT ![s] = [NewSession EXCEPT !.user = u, !.authenticated = TRUE]]
    /\ recent' = [recent EXCEPT ![u] = NoFailures]
    /\ UNCHANGED now

Later(f, t) == [first |-> f.second, second |-> f.third, third |-> t]

\* The password is wrong: one more failed attempt.
Fail(s) ==
    LET u == session[s].user
        t == session[s].currentTime
    IN
    /\ At(s, "verify")
    /\ incrementLoginAttempts(u, t)
    /\ recent' = [recent EXCEPT ![u] = Later(@, t)]
    /\ Return(s)
    /\ UNCHANGED now

\* A statement of the storage throws in the middle of the call.
StorageError(s) ==
    /\ session[s].pc \in {"reset", "verify"}
    /\ Return(s)
    /\ UNCHANGED <<users, now, recent>>

-----------------------------------------------------------------------------
\* clientSession::processMessage on a command of an authenticated client: the
\* lock status of the account is not looked at.
StartCommand(s) ==
    /\ At(s, "idle") /\ session[s].authenticated
    /\ Goto(s, "command")
    /\ UNCHANGED <<users, now, mutex, recent>>

FinishCommand(s) ==
    /\ At(s, "command")
    /\ Goto(s, "idle")
    /\ UNCHANGED <<users, now, mutex, recent>>

\* The client disconnects; the record stands for its next connection.
Disconnect(s) ==
    /\ At(s, "idle") /\ session[s].authenticated
    /\ session' = [session EXCEPT ![s] = NewSession]
    /\ UNCHANGED <<users, now, mutex, recent>>

\* handleRegisterUser.
RegisterUser(u) ==
    /\ createUser(u)
    /\ UNCHANGED <<now, mutex, session, recent>>

\* The table's part of SessionManager::lockClient and unlockClient, by a worker
\* that handles an alert or the command of an administrator.
SetLockStatus(u, isLocked) ==
    /\ setClientLockStatus(u, isLocked)
    /\ UNCHANGED <<now, mutex, session, recent>>

\* The server dies and is started again.
Crash ==
    /\ mutex' = NoSession
    /\ session' = [s \in Sessions |-> NewSession]
    /\ UNCHANGED <<users, now, recent>>

SessionStep(s) ==
    \/ \E u \in Users : ReadLoginData(s, u)
    \/ RefuseBlocked(s) \/ ReadClock(s) \/ ResetAttempts(s)
    \/ Succeed(s) \/ Fail(s) \/ StorageError(s)
    \/ StartCommand(s) \/ FinishCommand(s) \/ Disconnect(s)

Next ==
    \/ Tick
    \/ \E s \in Sessions : SessionStep(s)
    \/ \E u \in Users : RegisterUser(u)
    \/ \E u \in Users, isLocked \in BOOLEAN : SetLockStatus(u, isLocked)
    \/ Crash

Spec == Init /\ [][Next]_vars

-----------------------------------------------------------------------------
SessionRecord ==
    [pc : {"idle", "clock", "reset", "verify", "command"}, user : Users \cup {NoUser},
     authenticated : BOOLEAN, data : [failedAttempts : 0..3, lastFailedTimestamp : Int],
     currentTime : Nat]

(***************************************************************************)
(* Every variable has its type; in particular failed_attempts stays within *)
(* its CHECK, and a session inside authenticate has a user.                *)
(***************************************************************************)
TypeOK ==
    /\ UsersTypeOK
    /\ now \in 0..MaxTime
    /\ mutex \in Sessions \cup {NoSession}
    /\ session \in [Sessions -> SessionRecord]
    /\ \A s \in Sessions : InAuthenticate(s) => session[s].user \in Users
    /\ recent \in [Users -> Failures]

(***************************************************************************)
(* The increment of a wrong password never meets CHECK(failed_attempts <=  *)
(* 3), whose exception would close the session of a client for mistyping:  *)
(* what authenticate read of the row is still true when it writes.         *)
(***************************************************************************)
AttemptsWithinCheck ==
    \A s \in Sessions : At(s, "verify") =>
        users[session[s].user].failed_attempts < MaxFailedAttempts

(***************************************************************************)
(* Three failed attempts closer together than the block time keep every    *)
(* later password from being looked at for a whole block time after the    *)
(* third, across concurrent logins, storage errors in the middle of a      *)
(* call, locks, unlocks and restarts of the server.                        *)
(***************************************************************************)
LockoutHolds ==
    \A s \in Sessions : At(s, "verify") =>
        LET f == recent[session[s].user] IN
        f.third - f.first < BlockTime => session[s].currentTime - f.third >= BlockTime

-----------------------------------------------------------------------------
(***************************************************************************)
(* A locked account is closed to newcomers: while it stays locked, no      *)
(* further session comes to act for it.  authenticate looks at the lock    *)
(* once, before the password, and no command does, so that the sessions    *)
(* that passed it before the lock go on, through their login as well as    *)
(* after it (sessionManager.hpp says "preventing further actions").        *)
(***************************************************************************)
ActingFor(u) == {s \in Sessions : session[s].user = u}

LockKeepsOut ==
    [][\A u \in Users :
         users[u].is_locked /\ users[u].is_locked' => ActingFor(u)' \subseteq ActingFor(u)]_vars
=============================================================================
