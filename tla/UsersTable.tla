----------------------------- MODULE UsersTable -----------------------------
(***************************************************************************)
(* The users table of Storage (src/server/storage.cpp).  Every method runs *)
(* one statement under Storage::m_dbMutex, so each is one atomic step; it  *)
(* either takes effect or throws and leaves the table as it was.           *)
(***************************************************************************)
EXTENDS Integers

CONSTANTS Users,     \* hostnames
          IntMax     \* 2^31: what Column::getInt can hold

ASSUME IntMaxAssumption == IntMax \in Nat \ {0}

VARIABLE users       \* the row of each hostname

NewRow == [exists |-> TRUE, failed_attempts |-> 0, last_failed_timestamp |-> 0, is_locked |-> FALSE]
NoRow == [NewRow EXCEPT !.exists = FALSE]

\* CHECK(failed_attempts <= 3)
MaxFailedAttempts == 3

\* The primary key makes a second insertion throw.
createUser(u) ==
    /\ ~users[u].exists
    /\ users' = [users EXCEPT ![u] = NewRow]

\* getInt() on a 64-bit column: the low 32 bits, as a signed number.
Int32(x) == ((x + IntMax) % (2 * IntMax)) - IntMax

getUserLoginData(u) ==
    [failedAttempts |-> users[u].failed_attempts,
     lastFailedTimestamp |-> Int32(users[u].last_failed_timestamp)]

\* updateLoginAttempts with loginSuccess: the timestamp is left alone.
resetLoginAttempts(u) ==
    users' = [users EXCEPT ![u] = [@ EXCEPT !.failed_attempts = 0]]

decrementLoginAttempts(u, t) ==
    users' = [users EXCEPT ![u] = [@ EXCEPT !.failed_attempts = users[u].failed_attempts - 1,
                                            !.last_failed_timestamp = t]]

incrementWithoutTimestamp(u, t) ==
    /\ users[u].failed_attempts < MaxFailedAttempts
    /\ users' = [users EXCEPT ![u] = [@ EXCEPT !.failed_attempts = users[u].failed_attempts + 1]]

\* updateLoginAttempts without: the CHECK makes a fourth increment throw.
incrementLoginAttempts(u, t) ==
    /\ users[u].failed_attempts < MaxFailedAttempts
    /\ users' = [users EXCEPT ![u] = [@ EXCEPT !.failed_attempts = users[u].failed_attempts + 1,
                                               !.last_failed_timestamp = t]]

\* setClientLockStatus returning true: exactly one row was updated.
setClientLockStatus(u, isLocked) ==
    /\ users[u].exists
    /\ users' = [users EXCEPT ![u] = [@ EXCEPT !.is_locked = isLocked]]

UserRow == [exists : BOOLEAN, failed_attempts : 0..MaxFailedAttempts,
            last_failed_timestamp : Nat, is_locked : BOOLEAN]

UsersTypeOK == users \in [Users -> UserRow]
=============================================================================
