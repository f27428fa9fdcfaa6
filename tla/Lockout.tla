------------------------------ MODULE Lockout ------------------------------
(***************************************************************************)
(* The account lockout of AuthService.login for one local, active account: *)
(* the failed attempts and the lock in its AuthSecurity document, the      *)
(* tokenVersion in its user document, and the access tokens that logins    *)
(* and refreshes issue: refreshToken looks at the user, not at the lock.   *)
(*                                                                         *)
(* A login reads the user, then the security document, compares the        *)
(* password with the hash it read, and only then writes what it counted.   *)
(* The rate limiter is Throttle; the session a login stores is Sessions.   *)
(***************************************************************************)
EXTENDS Naturals, FiniteSets

CONSTANTS
  Logins,        \* logins and refreshes that can be in flight at the same time
  MaxFailed,     \* MAX_FAILED_ATTEMPTS
  MaxLogins,     \* bound: how many logins are ever started
  LockoutFaults  \* what can fail: "reset", "revoke"

ASSUME LockoutAssumption ==
  /\ IsFiniteSet(Logins)
  /\ MaxFailed \in Nat \ {0}
  /\ MaxLogins \in Nat
  /\ LockoutFaults \subseteq {"reset", "revoke"}

VARIABLES
  failed,      \* failedAttempts
  locked,      \* lockExpiresAt is in the future
  revision,    \* tokenVersion
  live,        \* who issued access tokens of the current version to clients
  session,     \* a client holds a refresh token that works
  login,       \* login[l]: a login in flight and what it read
  started,     \* how many logins were started
  wrong,       \* how many wrong passwords were counted (a history)
  guesses,     \* of them, since the last lock or reset (a history)
  missed       \* an increment failed since the last one (a history)

lockoutVars ==
  <<failed, locked, revision, live, session, login, started, wrong, guesses, missed>>

history == <<wrong, guesses, missed>>

Idle == [pc |-> "idle", right |-> FALSE, revision |-> 0, failed |-> 0]

LockoutTypeOK ==
  /\ failed \in Nat
  /\ locked \in BOOLEAN
  /\ revision \in Nat
  /\ live \subseteq {"login", "refresh"}
  /\ session \in BOOLEAN
  /\ login \in [Logins -> [pc : {"idle", "security", "compare", "issue", "reset", "revoke",
                                 "renew"},
                           right : BOOLEAN, revision : Nat, failed : Nat]]
  /\ started \in Nat
  /\ wrong \in Nat
  /\ guesses \in Nat
  /\ missed \in BOOLEAN

----------------------------------------------------------------------------
LockoutInit ==
  /\ failed = 0
  /\ locked = FALSE
  /\ revision = 0
  /\ live = {}
  /\ session = FALSE
  /\ login = [l \in Logins |-> Idle]
  /\ started = 0
  /\ wrong = 0
  /\ guesses = 0
  /\ missed = FALSE

Goto(l, pc) == login' = [login EXCEPT ![l] = [@ EXCEPT !.pc = pc]]

Leave(l) == login' = [login EXCEPT ![l] = Idle]

\* The user document is read, with the password's hash and tokenVersion.
ReadUser(l, right) ==
  /\ login[l].pc = "idle"
  /\ started < MaxLogins
  /\ started' = started + 1
  /\ login' = [login EXCEPT ![l] = [pc |-> "security", right |-> right,
                                    revision |-> revision, failed |-> 0]]
  /\ UNCHANGED <<failed, locked, revision, live, session, history>>

\* The security document is read; a locked account refuses.
ReadSecurity(l) ==
  /\ login[l].pc = "security"
  /\ IF locked
       THEN Leave(l)
       ELSE login' = [login EXCEPT ![l] = [@ EXCEPT !.pc = "compare", !.failed = failed]]
  /\ UNCHANGED <<failed, locked, revision, live, session, started, history>>

\* A limit that is one too late.
LocksLate(n) == n > MaxFailed

\* shouldLock
Locks(n) == n >= MaxFailed

\* handleFailedLoginAttempt writes what this login read, plus one.
CountWrong(l) ==
  LET n == login[l].failed + 1 IN
  /\ login[l].pc = "compare"
  /\ ~login[l].right
  /\ failed' = n
  /\ locked' = (locked \/ Locks(n))
  /\ wrong' = wrong + 1
  /\ guesses' = IF Locks(n) THEN 0 ELSE guesses + 1
  /\ IF Locks(n) THEN Goto(l, "revoke") ELSE Leave(l)
  /\ UNCHANGED <<revision, live, session, started, missed>>

\* incrementTokenVersion ends every access token; TokenVersion has its steps.
RevokeOnLock(l) ==
  /\ login[l].pc = "revoke"
  /\ \/ revision' = revision + 1 /\ live' = {} /\ missed' = FALSE
     \/ "revoke" \in LockoutFaults /\ missed' = TRUE /\ UNCHANGED <<revision, live>>
  /\ Leave(l)
  /\ UNCHANGED <<failed, locked, session, started, wrong, guesses>>

\* The password is right: the login goes on to store its session.
CompareRight(l) ==
  /\ login[l].pc = "compare"
  /\ login[l].right
  /\ Goto(l, "issue")
  /\ UNCHANGED <<failed, locked, revision, live, session, started, history>>

\* Another login holds the login lock, or the session cannot be stored.
IssueFails(l) ==
  /\ login[l].pc = "issue"
  /\ Leave(l)
  /\ UNCHANGED <<failed, locked, revision, live, session, started, history>>

\* A login that issues its token for the version of now.
IssueFresh(l) ==
  /\ login[l].pc = "issue"
  /\ live' = live \cup {"login"}
  /\ session' = TRUE
  /\ Goto(l, "reset")
  /\ UNCHANGED <<failed, locked, revision, started, history>>

\* An access token with the tokenVersion that was read before.
Hand(l, issuer) ==
  live' = IF login[l].revision = revision THEN live \cup {issuer} ELSE live

\* The client gets both tokens.
Issue(l) ==
  /\ login[l].pc = "issue"
  /\ Hand(l, "login")
  /\ session' = TRUE
  /\ Goto(l, "reset")
  /\ UNCHANGED <<failed, locked, revision, started, history>>

\* The update nobody waits for clears the counter and the lock, if it works.
Reset(l) ==
  /\ login[l].pc = "reset"
  /\ \/ failed' = 0 /\ locked' = FALSE /\ guesses' = 0
     \/ "reset" \in LockoutFaults /\ UNCHANGED <<failed, locked, guesses>>
  /\ Leave(l)
  /\ UNCHANGED <<revision, live, session, started, wrong, missed>>

\* refreshToken found the refresh token and reads the user.
ReadForRefresh(l) ==
  /\ login[l].pc = "idle"
  /\ session
  /\ started < MaxLogins
  /\ started' = started + 1
  /\ login' = [login EXCEPT ![l] = [Idle EXCEPT !.pc = "renew", !.revision = revision]]
  /\ UNCHANGED <<failed, locked, revision, live, session, history>>

\* The token is rotated and the client answered.
Renew(l) ==
  /\ login[l].pc = "renew"
  /\ Hand(l, "refresh")
  /\ session' = TRUE
  /\ Leave(l)
  /\ UNCHANGED <<failed, locked, revision, started, history>>

\* Logout, eviction, revocation or expiry of the refresh token.
SessionEnds ==
  /\ session
  /\ session' = FALSE
  /\ UNCHANGED <<failed, locked, revision, live, login, started, history>>

\* LOCKOUT_DURATION_MS is over; failedAttempts stays as it is.
LockEnds ==
  /\ locked
  /\ locked' = FALSE
  /\ UNCHANGED <<failed, revision, live, session, login, started, history>>

LockoutNext ==
  \/ \E l \in Logins, right \in BOOLEAN : ReadUser(l, right)
  \/ \E l \in Logins :
       \/ ReadSecurity(l) \/ CountWrong(l) \/ RevokeOnLock(l)
       \/ CompareRight(l) \/ IssueFails(l) \/ Issue(l) \/ Reset(l)
       \/ ReadForRefresh(l) \/ Renew(l)
  \/ SessionEnds
  \/ LockEnds

LockoutSpec == LockoutInit /\ [][LockoutNext]_lockoutVars

----------------------------------------------------------------------------
\* Properties.

\* The counter never claims more wrong passwords than were given, and nobody
\* is locked out who was not guessed at that often, although counts are
\* written from stale reads and come back after a reset.
LockIsEarned ==
  /\ failed <= wrong
  /\ locked => wrong >= MaxFailed

\* What concurrency costs: logins that overlap overwrite each other's counts,
\* but with two at a time the account locks before one guess more than this.
GuessBound ==
  Cardinality(Logins) <= 2 => guesses < (MaxFailed * (MaxFailed + 1)) \div 2

\* While the account is locked and the revocations that go with the lock are
\* through (and did not fail), no access token that a login issued is accepted:
\* a login that read the user before it carries an old version, one that came
\* after met the lock.  What a client can still get are the access tokens of
\* refreshToken, which goes on working while the account is locked.
LockEvicts ==
  (locked /\ ~missed /\ \A l \in Logins : login[l].pc # "revoke") =>
    "login" \notin live

----------------------------------------------------------------------------
\* The inductive invariant behind them.

\* A login in flight read a count that was earned, and a version of before.
ReadEarned ==
  \A l \in Logins : login[l].failed <= wrong /\ login[l].revision <= revision

\* Whoever passed the lock before it was set carries an old version.
LateOutdated ==
  (locked /\ ~missed /\ \A l \in Logins : login[l].pc # "revoke") =>
    \A l \in Logins : login[l].pc \in {"compare", "issue"} => login[l].revision # revision

\* Twice the guesses that can be wasted until no count below k is in use: each
\* of the counts 0 to k - 1 is written again after a row of guesses that starts
\* from it and stops just before the lock.
Twice(k) == k * (2 * MaxFailed + 1 - k)

\* The counts that a guess may still start from.
InUse == {failed} \cup {login[l].failed : l \in {k \in Logins : login[k].pc = "compare"}}

\* With two logins at a time, the guesses are those wasted below a count and
\* those counted since; of two logins that compare, one has the count of now.
FewWasted ==
  /\ failed >= MaxFailed => guesses = 0
  /\ \A k, l \in Logins : k # l /\ login[k].pc = "compare" /\ login[l].pc = "compare" =>
       failed \in {login[k].failed, login[l].failed}
  /\ \A m \in InUse : m <= failed /\ failed < MaxFailed =>
       2 * guesses <= Twice(m) + 2 * (failed - m)
=============================================================================
