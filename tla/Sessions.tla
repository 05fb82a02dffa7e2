------------------------------ MODULE Sessions ------------------------------
(***************************************************************************)
(* Administrator logins: AuthService.Login with the login limiter, the     *)
(* admin_user row, sessions and password changes.  One administrator who   *)
(* logs in from one address, so there is one bucket of the limiter.        *)
(*                                                                         *)
(* Login reads the row, verifies the password, which takes long, and       *)
(* writes the whole row back; requests overlap between these steps.        *)
(* The limiter is in memory: this is the life of one process.              *)
(*                                                                         *)
(* A definition right before the one it alters is that definition with a   *)
(* plausible mistake in it and is not part of SessionsNext.                *)
(***************************************************************************)
EXTENDS Naturals, FiniteSets

CONSTANTS
    Login,         \* concurrent login requests
    Change,        \* password changes, one request each
    Session,       \* session ids; one is used again when its session has ended
    Password,      \* passwords, right or wrong
    MaxFailures,   \* failures that lock the bucket
    Window,        \* how long a failure counts
    LockDuration,  \* how long the bucket stays locked
    SessionTTL,    \* how long a session lasts
    MaxSeconds,    \* bound on the clock
    MaxGuess       \* bound: logins that are started

ASSUME SessionsConstants ==
    /\ MaxFailures \in Nat \ {0}
    /\ {Window, LockDuration, SessionTTL, MaxSeconds, MaxGuess} \subseteq Nat
    /\ 0 < Window /\ Window <= LockDuration
    /\ IsFiniteSet(Login) /\ Login # {} /\ Password # {}

(* A request in progress and what it has read.                             *)
LoginRecord == [step : {"idle", "read", "verify", "failed", "right", "session"},
                guess : Password, row : Password]
ChangeRecord == [step : {"idle", "change", "done"}, row : Password, new : Password]
SessionRow == [status : {"none", "open", "revoked"}, expires : Nat]

(* A failed login: its time, and its number among those of that time.  The *)
(* limiter keeps a list of the times.                                      *)
Failure == (0..MaxSeconds) \X Nat

VARIABLES
    seconds,   \* the clock
    adminRow,  \* admin_user.password_hash, as the password it is the hash of
    bucket,    \* the limiter's bucket
    login, change,
    session,   \* the admin_session table
    guesses,   \* logins so far
    wrong,     \* history: the wrong passwords verified in the window, since the last right one
    password,  \* history: the password of the last change
    raced      \* history: a change was written while a login held the row

sessionsVars == <<seconds, adminRow, bucket, login, change, session, guesses, wrong, password, raced>>

SessionsTypeOK ==
    /\ seconds \in 0..MaxSeconds
    /\ {adminRow, password} \subseteq Password
    /\ bucket \in [failures : SUBSET Failure, lockedUntil : Nat]
    /\ Cardinality(bucket.failures) < MaxFailures
    /\ login \in [Login -> LoginRecord]
    /\ change \in [Change -> ChangeRecord]
    /\ session \in [Session -> SessionRow]
    /\ guesses \in 0..MaxGuess
    /\ wrong \subseteq Failure
    /\ raced \in BOOLEAN

FirstPassword == CHOOSE p \in Password : TRUE
IdleLogin == [step |-> "idle", guess |-> FirstPassword, row |-> FirstPassword]
IdleChange == [step |-> "idle", row |-> FirstPassword, new |-> FirstPassword]
NoSession == [status |-> "none", expires |-> 0]
EmptyBucket == [failures |-> {}, lockedUntil |-> 0]

SessionsInit ==
    /\ seconds = 0
    /\ adminRow = FirstPassword
    /\ bucket = EmptyBucket
    /\ login = [h \in Login |-> IdleLogin]
    /\ change = [h \in Change |-> IdleChange]
    /\ session = [s \in Session |-> NoSession]
    /\ guesses = 0
    /\ wrong = {}
    /\ password = FirstPassword
    /\ raced = FALSE

-----------------------------------------------------------------------------
(* LoginLimiter: each operator is one method, atomic under its mutex.      *)

Locked == bucket.lockedUntil > seconds

(* The failures still in the window, and the new one.                      *)
Recent(failures) == {f \in failures : f[1] + Window > seconds}
OfNow(failures) == {f \in failures : f[1] = seconds}
With(failures) == Recent(failures) \cup {<<seconds, Cardinality(OfNow(failures))>>}

RecordLockless ==
    IF Locked THEN bucket
    ELSE IF Cardinality(With(bucket.failures)) >= MaxFailures
         THEN EmptyBucket
         ELSE [bucket EXCEPT !.failures = With(@)]
RecordFailure ==
    IF Locked THEN bucket
    ELSE IF Cardinality(With(bucket.failures)) >= MaxFailures
         THEN [failures |-> {}, lockedUntil |-> seconds + LockDuration]
         ELSE [bucket EXCEPT !.failures = With(@)]

-----------------------------------------------------------------------------
(* POST /auth/login with the check of the limiter ...                      *)

StartLogin(h, g) ==
    /\ login[h].step = "idle"
    /\ guesses < MaxGuess
    /\ ~Locked
    /\ login' = [login EXCEPT ![h].step = "read", ![h].guess = g]
    /\ guesses' = guesses + 1
    /\ UNCHANGED <<seconds, adminRow, bucket, change, session, wrong, password, raced>>

(* ... the row ...                                                         *)
ReadAdmin(h) ==
    /\ login[h].step = "read"
    /\ login' = [login EXCEPT ![h].step = "verify", ![h].row = adminRow]
    /\ UNCHANGED <<seconds, adminRow, bucket, change, session, guesses, wrong, password, raced>>

(* ... the verification, which tells the limiter ...                       *)
VerifyPassword(h) ==
    /\ login[h].step = "verify"
    /\ IF login[h].guess = login[h].row
       THEN /\ login' = [login EXCEPT ![h].step = "right"]
            /\ bucket' = EmptyBucket
            /\ wrong' = {}
       ELSE /\ login' = [login EXCEPT ![h].step = "failed"]
            /\ bucket' = RecordFailure
            /\ wrong' = With(wrong)
    /\ UNCHANGED <<seconds, adminRow, change, session, guesses, password, raced>>

(* ... the row with its failure count, all columns of it ...               *)
UpdateAdmin(p) == adminRow' = p
WriteAdmin(h) ==
    /\ login[h].step \in {"failed", "right"}
    /\ UpdateAdmin(login[h].row)
    /\ login' = [login EXCEPT ![h] = IF @.step = "right" THEN [IdleLogin EXCEPT !.step = "session"]
                                                          ELSE IdleLogin]
    /\ UNCHANGED <<seconds, bucket, change, session, guesses, wrong, password, raced>>

(* ... and the session.                                                    *)
CreateSession(h, s) ==
    /\ login[h].step = "session"
    /\ session[s].status # "open"
    /\ session' = [session EXCEPT ![s] = [status |-> "open", expires |-> seconds + SessionTTL]]
    /\ login' = [login EXCEPT ![h] = IdleLogin]
    /\ UNCHANGED <<seconds, adminRow, bucket, change, guesses, wrong, password, raced>>

-----------------------------------------------------------------------------
(* Authenticate: the sessions that open a request.  An expired one is      *)
(* revoked when it is used.                                                *)
Authenticated(s) == session[s].status = "open" /\ session[s].expires >= seconds

RevokeSession(s) ==
    session' = [session EXCEPT ![s].status = IF @ = "open" THEN "revoked" ELSE @]

UseExpired(s) ==
    /\ session[s].status = "open"
    /\ session[s].expires < seconds
    /\ RevokeSession(s)
    /\ UNCHANGED <<seconds, adminRow, bucket, login, change, guesses, wrong, password, raced>>

Logout(s) ==
    /\ Authenticated(s)
    /\ RevokeSession(s)
    /\ UNCHANGED <<seconds, adminRow, bucket, login, change, guesses, wrong, password, raced>>

(* The weekly cleanup removes what has ended.                              *)
DeleteExpiredSessions ==
    /\ \E s \in Session : session[s].status = "revoked"
    /\ session' = [s \in Session |-> IF session[s].status = "revoked" THEN NoSession ELSE session[s]]
    /\ UNCHANGED <<seconds, adminRow, bucket, login, change, guesses, wrong, password, raced>>

(* POST /auth/password: requireAdmin reads the row, and the old password   *)
(* must match it; then the row is written with the new one.                *)
StartChange(h, s, new) ==
    /\ change[h].step = "idle"
    /\ Authenticated(s)
    /\ new # adminRow
    /\ change' = [change EXCEPT ![h] = [step |-> "change", row |-> adminRow, new |-> new]]
    /\ UNCHANGED <<seconds, adminRow, bucket, login, session, guesses, wrong, password, raced>>

Holds(h) == login[h].step \in {"verify", "failed", "right"}
ChangePassword(h) ==
    /\ change[h].step = "change"
    /\ UpdateAdmin(change[h].new)
    /\ password' = change[h].new
    /\ raced' = (raced \/ \E l \in Login : Holds(l))
    /\ change' = [change EXCEPT ![h] = [IdleChange EXCEPT !.step = "done"]]
    /\ UNCHANGED <<seconds, bucket, login, session, guesses, wrong>>

SecondPasses ==
    /\ seconds < MaxSeconds
    /\ seconds' = seconds + 1
    /\ UNCHANGED <<adminRow, bucket, login, change, session, guesses, wrong, password, raced>>

SessionsNext ==
    \/ \E h \in Login : \/ \E g \in Password : StartLogin(h, g)
                        \/ ReadAdmin(h) \/ VerifyPassword(h) \/ WriteAdmin(h)
                        \/ \E s \in Session : CreateSession(h, s)
    \/ \E s \in Session : UseExpired(s) \/ Logout(s)
    \/ \E h \in Change : ChangePassword(h) \/ \E s \in Session, p \in Password : StartChange(h, s, p)
    \/ DeleteExpiredSessions \/ SecondPasses

SessionsSpec == SessionsInit /\ [][SessionsNext]_sessionsVars

-----------------------------------------------------------------------------
(* However many logins overlap, within any window no more wrong passwords  *)
(* are verified than the limit and the requests that had passed its check  *)
(* before it locked, twice: those of the last lock, which nothing counts,  *)
(* may still be in the window when the next one begins.                    *)
LockoutBound == Cardinality(Recent(wrong)) <= MaxFailures + 2 * (Cardinality(Login) - 1)

(* A changed password is the password, whoever logs in meanwhile, unless a *)
(* login held the row when it was written.                                 *)
PasswordKept == ~raced => adminRow = password

(* A login neither outruns the lock-out nor undoes a change.               *)
LoginsGuarded == LockoutBound /\ PasswordKept
=============================================================================
