---------------------------- MODULE AccessProofs ----------------------------
(***************************************************************************)
(* Proofs about what guards the way into an account, for every number of   *)
(* calls, logins and requests at a time, every limit and every fault: the  *)
(* rate limiter (Throttle), the lockout (Lockout), the recovery of the     *)
(* password (Recovery), and the three side by side (MCAccess).             *)
(***************************************************************************)
EXTENDS MCAccess, FiniteSetTheorems, TLAPS

----------------------------------------------------------------------------
(* Lockout. *)

Phases == {"idle", "security", "compare", "issue", "reset", "revoke", "renew"}

Attempt == [pc : Phases, right : BOOLEAN, revision : Nat, failed : Nat]

\* A login that moves on, reads the counter or ends stays an attempt.
LEMMA AttemptType ==
  ASSUME LockoutTypeOK
  PROVE  /\ Idle \in Attempt
         /\ \A l \in Logins :
              /\ login[l] \in Attempt
              /\ \A pc \in Phases : [login[l] EXCEPT !.pc = pc] \in Attempt
              /\ [login[l] EXCEPT !.pc = "compare", !.failed = failed] \in Attempt
         /\ [Idle EXCEPT !.pc = "renew", !.revision = revision] \in Attempt
         /\ \A right \in BOOLEAN :
              [pc |-> "security", right |-> right, revision |-> revision, failed |-> 0] \in Attempt
BY DEF LockoutTypeOK, Idle, Attempt, Phases

LEMMA LeaveType ==
  ASSUME LockoutTypeOK, NEW l \in Logins, Leave(l)
  PROVE  login' \in [Logins -> Attempt]
BY AttemptType DEF LockoutTypeOK, Leave, Attempt, Phases

LEMMA GotoType ==
  ASSUME LockoutTypeOK, NEW l \in Logins, NEW pc \in Phases, Goto(l, pc)
  PROVE  login' \in [Logins -> Attempt]
<1>1. login \in [Logins -> Attempt]
  BY DEF LockoutTypeOK, Attempt, Phases
<1>2. [login[l] EXCEPT !.pc = pc] \in Attempt
  BY AttemptType
<1>3. QED BY <1>1, <1>2 DEF Goto

----------------------------------------------------------------------------
(* Type correctness. *)

LEMMA LockoutTypeInit == LockoutInit => LockoutTypeOK
<1> SUFFICES ASSUME LockoutInit PROVE LockoutTypeOK
  OBVIOUS
<1>1. Idle \in [pc : {"idle", "security", "compare", "issue", "reset", "revoke", "renew"},
                right : BOOLEAN, revision : Nat, failed : Nat]
  BY DEF Idle
<1>2. QED BY <1>1 DEF LockoutInit, LockoutTypeOK

LEMMA LockoutTypeStep == LockoutTypeOK /\ [LockoutNext]_lockoutVars => LockoutTypeOK'
<1> SUFFICES ASSUME LockoutTypeOK, [LockoutNext]_lockoutVars PROVE LockoutTypeOK'
  OBVIOUS
<1>a. login' \in [Logins -> Attempt] =>
        login' \in [Logins -> [pc : {"idle", "security", "compare", "issue", "reset", "revoke", "renew"},
                               right : BOOLEAN, revision : Nat, failed : Nat]]
  BY DEF Attempt, Phases
<1>b. \A n \in Nat : Locks(n) \in BOOLEAN
  BY DEF Locks
<1>1. ASSUME NEW l \in Logins, NEW right \in BOOLEAN, ReadUser(l, right) PROVE LockoutTypeOK'
  <2>1. [pc |-> "security", right |-> right, revision |-> revision, failed |-> 0]
          \in [pc : {"idle", "security", "compare", "issue", "reset", "revoke", "renew"},
              right : BOOLEAN, revision : Nat, failed : Nat]
    BY DEF LockoutTypeOK
  <2>2. QED BY <1>1, <2>1 DEF ReadUser, LockoutTypeOK, history
<1>2. ASSUME NEW l \in Logins, ReadSecurity(l) PROVE LockoutTypeOK'
  <2>1. login' \in [Logins -> Attempt]
    <3>1. CASE locked
      BY <1>2, <3>1, LeaveType DEF ReadSecurity
    <3>2. CASE ~locked
      <4>1. login \in [Logins -> Attempt]
        BY DEF LockoutTypeOK, Attempt, Phases
      <4>2. [login[l] EXCEPT !.pc = "compare", !.failed = failed] \in Attempt
        BY AttemptType
      <4>3. QED BY <1>2, <3>2, <4>1, <4>2 DEF ReadSecurity
    <3>3. QED BY <3>1, <3>2
  <2>2. QED BY <1>2, <1>a, <2>1 DEF ReadSecurity, LockoutTypeOK, history
<1>3. ASSUME NEW l \in Logins, CountWrong(l) PROVE LockoutTypeOK'
  <2>1. login' \in [Logins -> Attempt]
    BY <1>3, LeaveType, GotoType DEF CountWrong, Phases
  <2>2. login[l].failed + 1 \in Nat
    BY DEF LockoutTypeOK
  <2>3. QED BY <1>3, <1>a, <1>b, <2>1, <2>2 DEF CountWrong, LockoutTypeOK
<1>4. ASSUME NEW l \in Logins, RevokeOnLock(l) PROVE LockoutTypeOK'
  <2>1. login' \in [Logins -> Attempt]
    BY <1>4, LeaveType DEF RevokeOnLock
  <2>2. revision' \in Nat
    BY <1>4 DEF RevokeOnLock, LockoutTypeOK
  <2>3. live' \subseteq {"login", "refresh"} /\ missed' \in BOOLEAN
    BY <1>4 DEF RevokeOnLock, LockoutTypeOK
  <2>4. UNCHANGED <<failed, locked, session, started, wrong, guesses>>
    BY <1>4 DEF RevokeOnLock
  <2>5. QED BY <1>a, <2>1, <2>2, <2>3, <2>4 DEF LockoutTypeOK
<1>5. ASSUME NEW l \in Logins, CompareRight(l) PROVE LockoutTypeOK'
  <2>1. login' \in [Logins -> Attempt]
    BY <1>5, GotoType DEF CompareRight, Phases
  <2>2. QED BY <1>5, <1>a, <2>1 DEF CompareRight, LockoutTypeOK, history
<1>6. ASSUME NEW l \in Logins, IssueFails(l) PROVE LockoutTypeOK'
  <2>1. login' \in [Logins -> Attempt]
    BY <1>6, LeaveType DEF IssueFails
  <2>2. QED BY <1>6, <1>a, <2>1 DEF IssueFails, LockoutTypeOK, history
<1>7. ASSUME NEW l \in Logins, Issue(l) PROVE LockoutTypeOK'
  <2>1. login' \in [Logins -> Attempt]
    BY <1>7, GotoType DEF Issue, Phases
  <2>2. live' \subseteq {"login", "refresh"}
    BY <1>7 DEF Issue, Hand, LockoutTypeOK
  <2>3. QED BY <1>7, <1>a, <2>1, <2>2 DEF Issue, LockoutTypeOK, history
<1>8. ASSUME NEW l \in Logins, Reset(l) PROVE LockoutTypeOK'
  <2>1. login' \in [Logins -> Attempt]
    BY <1>8, LeaveType DEF Reset
  <2>2. failed' \in Nat /\ guesses' \in Nat
    BY <1>8 DEF Reset, LockoutTypeOK
  <2>3. locked' \in BOOLEAN
    BY <1>8, Zenon DEF Reset, LockoutTypeOK
  <2>4. UNCHANGED <<revision, live, session, started, wrong, missed>>
    BY <1>8 DEF Reset
  <2>5. QED BY <1>a, <2>1, <2>2, <2>3, <2>4 DEF LockoutTypeOK
<1>9. ASSUME NEW l \in Logins, ReadForRefresh(l) PROVE LockoutTypeOK'
  <2>1. login' \in [Logins -> Attempt]
    <3>1. login \in [Logins -> Attempt]
      BY DEF LockoutTypeOK, Attempt, Phases
    <3>2. QED BY <1>9, <3>1, AttemptType DEF ReadForRefresh
  <2>2. QED BY <1>9, <1>a, <2>1 DEF ReadForRefresh, LockoutTypeOK, history
<1>10. ASSUME NEW l \in Logins, Renew(l) PROVE LockoutTypeOK'
  <2>1. login' \in [Logins -> Attempt]
    BY <1>10, LeaveType DEF Renew
  <2>2. live' \subseteq {"login", "refresh"}
    BY <1>10 DEF Renew, Hand, LockoutTypeOK
  <2>3. QED BY <1>10, <1>a, <2>1, <2>2 DEF Renew, LockoutTypeOK, history
<1>11. CASE SessionEnds
  BY <1>11 DEF SessionEnds, LockoutTypeOK, history
<1>12. CASE LockEnds
  BY <1>12 DEF LockEnds, LockoutTypeOK, history
<1>13. CASE UNCHANGED lockoutVars
  BY <1>13 DEF lockoutVars, LockoutTypeOK
<1>14. QED
  BY <1>1, <1>2, <1>3, <1>4, <1>5, <1>6, <1>7, <1>8, <1>9, <1>10, <1>11, <1>12, <1>13
  DEF LockoutNext

\* Type correctness of every reachable state: the counter, the lock and the
\* logins in flight stay well-formed, whichever of login's writes fail.
THEOREM LockoutTyping == LockoutSpec => []LockoutTypeOK
<1>1. QED BY LockoutTypeInit, LockoutTypeStep, PTL DEF LockoutSpec

----------------------------------------------------------------------------
(* Nobody is locked out for less than MAX_FAILED_ATTEMPTS wrong passwords. *)

EarnedInv == LockIsEarned /\ ReadEarned

LEMMA EarnedInit == LockoutInit => EarnedInv
BY LockoutAssumption DEF LockoutInit, EarnedInv, LockIsEarned, ReadEarned, Idle

\* A step that gives a login p instead, with a count and a version that exist.
LEMMA EarnedMove ==
  ASSUME LockoutTypeOK, ReadEarned, NEW l \in Logins, NEW p,
         p.failed <= wrong, p.revision <= revision, login' = [login EXCEPT ![l] = p]
  PROVE  \A k \in Logins : login'[k].failed <= wrong /\ login'[k].revision <= revision
<1>1. TAKE k \in Logins
<1>2. CASE k = l
  BY <1>2 DEF LockoutTypeOK
<1>3. CASE k # l
  BY <1>3 DEF LockoutTypeOK, ReadEarned
<1>4. QED BY <1>2, <1>3

LEMMA EarnedStep ==
  LockoutTypeOK /\ EarnedInv /\ [LockoutNext]_lockoutVars => EarnedInv'
<1> SUFFICES ASSUME LockoutTypeOK, EarnedInv, [LockoutNext]_lockoutVars PROVE EarnedInv'
  OBVIOUS
<1>n. /\ failed \in Nat /\ wrong \in Nat /\ revision \in Nat /\ MaxFailed \in Nat
      /\ \A l \in Logins : login[l].failed \in Nat /\ login[l].revision \in Nat
  BY LockoutAssumption DEF LockoutTypeOK
<1>a. \A l \in Logins : \A pc :
      /\ [login[l] EXCEPT !.pc = pc].failed = login[l].failed
      /\ [login[l] EXCEPT !.pc = pc].revision = login[l].revision
  BY DEF LockoutTypeOK
<1>b. \A l \in Logins : \A pc :
      /\ [login[l] EXCEPT !.pc = pc, !.failed = failed].failed = failed
      /\ [login[l] EXCEPT !.pc = pc, !.failed = failed].revision = login[l].revision
  BY DEF LockoutTypeOK
<1>c. Idle.failed = 0 /\ Idle.revision = 0
  BY DEF Idle
\* A login moves on or ends.
<1>m. ASSUME NEW l \in Logins, Leave(l) \/ \E pc : Goto(l, pc)
      PROVE  \A k \in Logins : login'[k].failed <= wrong /\ login'[k].revision <= revision
  <2>1. login[l].failed <= wrong /\ login[l].revision <= revision
    BY DEF EarnedInv, ReadEarned
  <2>2. CASE Leave(l)
    <3>1. Idle.failed <= wrong /\ Idle.revision <= revision
      BY <1>n, <1>c
    <3>2. QED BY <2>2, <3>1, EarnedMove DEF Leave, EarnedInv
  <2>3. ASSUME NEW pc, Goto(l, pc)
        PROVE  \A k \in Logins : login'[k].failed <= wrong /\ login'[k].revision <= revision
    <3>1. /\ [login[l] EXCEPT !.pc = pc].failed <= wrong
          /\ [login[l] EXCEPT !.pc = pc].revision <= revision
      BY <1>a, <2>1
    <3>2. login' = [login EXCEPT ![l] = [login[l] EXCEPT !.pc = pc]]
      BY <2>3 DEF Goto
    <3>3. QED BY <3>1, <3>2, EarnedMove DEF EarnedInv
  <2>4. QED BY <1>m, <2>2, <2>3
<1>1. ASSUME NEW l \in Logins, NEW right \in BOOLEAN, ReadUser(l, right) PROVE EarnedInv'
  <2>1. \A k \in Logins : login'[k].failed <= wrong /\ login'[k].revision <= revision
    <3>1. /\ [pc |-> "security", right |-> right, revision |-> revision, failed |-> 0].failed <= wrong
          /\ [pc |-> "security", right |-> right, revision |-> revision, failed |-> 0].revision <= revision
      BY <1>n
    <3>2. QED BY <1>1, <3>1, EarnedMove DEF ReadUser, EarnedInv
  <2>2. QED BY <1>1, <2>1 DEF ReadUser, history, EarnedInv, LockIsEarned, ReadEarned
<1>2. ASSUME NEW l \in Logins, ReadSecurity(l) PROVE EarnedInv'
  <2>1. \A k \in Logins : login'[k].failed <= wrong /\ login'[k].revision <= revision
    <3>1. CASE locked
      BY <1>2, <1>m, <3>1 DEF ReadSecurity
    <3>2. CASE ~locked
      <4>1. login[l].revision <= revision /\ failed <= wrong
        BY DEF EarnedInv, ReadEarned, LockIsEarned
      <4>2. /\ [login[l] EXCEPT !.pc = "compare", !.failed = failed].failed <= wrong
            /\ [login[l] EXCEPT !.pc = "compare", !.failed = failed].revision <= revision
        BY <1>b, <4>1
      <4>3. login' = [login EXCEPT ![l] = [login[l] EXCEPT !.pc = "compare", !.failed = failed]]
        BY <1>2, <3>2 DEF ReadSecurity
      <4>4. QED BY <4>2, <4>3, EarnedMove DEF EarnedInv
    <3>3. QED BY <3>1, <3>2
  <2>2. QED BY <1>2, <2>1 DEF ReadSecurity, history, EarnedInv, LockIsEarned, ReadEarned
<1>3. ASSUME NEW l \in Logins, CountWrong(l) PROVE EarnedInv'
  <2>1. \A k \in Logins : login'[k].failed <= wrong /\ login'[k].revision <= revision
    BY <1>3, <1>m DEF CountWrong
  <2>2. login[l].failed <= wrong
    BY DEF EarnedInv, ReadEarned
  <2>3. failed' = login[l].failed + 1 /\ wrong' = wrong + 1 /\ revision' = revision
    BY <1>3 DEF CountWrong
  <2>4. locked' => wrong' >= MaxFailed
    <3>1. locked' => locked \/ Locks(login[l].failed + 1)
      BY <1>3, Zenon DEF CountWrong
    <3>2. locked => wrong >= MaxFailed
      BY DEF EarnedInv, LockIsEarned
    <3>3. Locks(login[l].failed + 1) => login[l].failed + 1 >= MaxFailed
      BY DEF Locks
    <3>4. QED BY <1>n, <2>2, <2>3, <3>1, <3>2, <3>3
  <2>5. ReadEarned'
    <3>1. SUFFICES ASSUME NEW k \in Logins
                   PROVE  login'[k].failed <= wrong' /\ login'[k].revision <= revision'
      BY DEF ReadEarned
    <3>2. login'[k].failed \in Nat
      BY <1>3, LeaveType, GotoType DEF CountWrong, Phases, Attempt
    <3>3. QED BY <1>n, <2>1, <2>3, <3>2
  <2>6. QED BY <1>n, <2>2, <2>3, <2>4, <2>5 DEF EarnedInv, LockIsEarned
<1>4. ASSUME NEW l \in Logins, RevokeOnLock(l) PROVE EarnedInv'
  <2>1. \A k \in Logins : login'[k].failed <= wrong /\ login'[k].revision <= revision
    BY <1>4, <1>m DEF RevokeOnLock
  <2>2. revision' \in {revision, revision + 1} /\ wrong' = wrong /\ failed' = failed /\ locked' = locked
    BY <1>4 DEF RevokeOnLock
  <2>3. ReadEarned'
    <3>1. SUFFICES ASSUME NEW k \in Logins
                   PROVE  login'[k].failed <= wrong' /\ login'[k].revision <= revision'
      BY DEF ReadEarned
    <3>2. login'[k].revision \in Nat
      BY <1>4, LeaveType DEF RevokeOnLock, Attempt
    <3>3. QED BY <1>n, <2>1, <2>2, <3>2
  <2>4. QED BY <2>2, <2>3 DEF EarnedInv, LockIsEarned
<1>5. ASSUME NEW l \in Logins, CompareRight(l) \/ IssueFails(l) \/ Issue(l) PROVE EarnedInv'
  <2>1. \A k \in Logins : login'[k].failed <= wrong /\ login'[k].revision <= revision
    BY <1>5, <1>m DEF CompareRight, IssueFails, Issue
  <2>2. QED
    BY <1>5, <2>1 DEF CompareRight, IssueFails, Issue, history, EarnedInv, LockIsEarned, ReadEarned
<1>6. ASSUME NEW l \in Logins, Reset(l) PROVE EarnedInv'
  <2>1. \A k \in Logins : login'[k].failed <= wrong /\ login'[k].revision <= revision
    BY <1>6, <1>m DEF Reset
  <2>2. QED BY <1>6, <1>n, <2>1 DEF Reset, EarnedInv, LockIsEarned, ReadEarned
<1>7. ASSUME NEW l \in Logins, ReadForRefresh(l) PROVE EarnedInv'
  <2>1. /\ [Idle EXCEPT !.pc = "renew", !.revision = revision].failed <= wrong
        /\ [Idle EXCEPT !.pc = "renew", !.revision = revision].revision <= revision
    BY <1>n DEF Idle
  <2>2. \A k \in Logins : login'[k].failed <= wrong /\ login'[k].revision <= revision
    BY <1>7, <2>1, EarnedMove DEF ReadForRefresh, EarnedInv
  <2>3. QED BY <1>7, <2>2 DEF ReadForRefresh, history, EarnedInv, LockIsEarned, ReadEarned
<1>8. ASSUME NEW l \in Logins, Renew(l) PROVE EarnedInv'
  <2>1. \A k \in Logins : login'[k].failed <= wrong /\ login'[k].revision <= revision
    BY <1>8, <1>m DEF Renew
  <2>2. QED BY <1>8, <2>1 DEF Renew, history, EarnedInv, LockIsEarned, ReadEarned
<1>9. CASE SessionEnds \/ LockEnds
  BY <1>9 DEF SessionEnds, LockEnds, history, EarnedInv, LockIsEarned, ReadEarned
<1>10. CASE UNCHANGED lockoutVars
  BY <1>10 DEF lockoutVars, EarnedInv, LockIsEarned, ReadEarned
<1>11. QED
  BY <1>1, <1>2, <1>3, <1>4, <1>5, <1>6, <1>7, <1>8, <1>9, <1>10 DEF LockoutNext

\* handleFailedLoginAttempt never locks an account that was not guessed at
\* MAX_FAILED_ATTEMPTS times, although it writes sums of stale reads and a
\* reset nobody waits for comes in between.
THEOREM LocksAreEarned == LockoutSpec => []LockIsEarned
<1>1. EarnedInv => LockIsEarned
  BY DEF EarnedInv
<1>2. QED BY <1>1, LockoutTypeInit, LockoutTypeStep, EarnedInit, EarnedStep, PTL DEF LockoutSpec

----------------------------------------------------------------------------
(* No login's access token outlives the lock's revocations. *)

\* The account is locked and what the lock has to revoke is revoked.
Shut == locked /\ ~missed /\ \A l \in Logins : login[l].pc # "revoke"

EvictInv == LockEvicts /\ LateOutdated

LEMMA EvictInit == LockoutInit => EvictInv
BY DEF LockoutInit, EvictInv, LockEvicts, LateOutdated

\* A step of a login that has nothing to revoke does not lock the account, so
\* it was shut before if it is shut afterwards; if it brings no login past the
\* lock, whoever is past it is as late as before.
LEMMA EvictMove ==
  ASSUME LockoutTypeOK, LateOutdated, NEW l \in Logins, NEW p,
         login[l].pc # "revoke",
         login' = [login EXCEPT ![l] = p],
         p.pc \in {"compare", "issue"} =>
           login[l].pc \in {"compare", "issue"} /\ p.revision = login[l].revision,
         locked' => locked, missed' = missed, revision' = revision
  PROVE  (Shut' => Shut) /\ LateOutdated'
<1>1. \A k \in Logins : k # l => login'[k] = login[k]
  BY DEF LockoutTypeOK
<1>2. login'[l] = p
  BY DEF LockoutTypeOK
<1>3. Shut' => Shut
  <2>1. SUFFICES ASSUME Shut' PROVE \A k \in Logins : login[k].pc # "revoke"
    BY DEF Shut
  <2>2. \A k \in Logins : login'[k].pc # "revoke"
    BY <2>1 DEF Shut
  <2>3. QED BY <1>1, <2>2
<1>4. LateOutdated'
  <2>1. SUFFICES ASSUME Shut', NEW k \in Logins, login'[k].pc \in {"compare", "issue"}
                 PROVE  login'[k].revision # revision'
    BY DEF LateOutdated, Shut
  <2>2. \A j \in Logins : login[j].pc \in {"compare", "issue"} => login[j].revision # revision
    BY <1>3, <2>1 DEF LateOutdated, Shut
  <2>3. CASE k = l
    BY <1>2, <2>1, <2>2, <2>3
  <2>4. CASE k # l
    BY <1>1, <2>1, <2>2, <2>4
  <2>5. QED BY <2>3, <2>4
<1>5. QED BY <1>3, <1>4

LEMMA EvictStep ==
  LockoutTypeOK /\ EarnedInv /\ EvictInv /\ [LockoutNext]_lockoutVars => EvictInv'
<1> SUFFICES ASSUME LockoutTypeOK, EarnedInv, EvictInv, [LockoutNext]_lockoutVars
             PROVE  EvictInv'
  OBVIOUS
<1>a. \A l \in Logins : \A pc :
      /\ [login[l] EXCEPT !.pc = pc].pc = pc
      /\ [login[l] EXCEPT !.pc = pc].revision = login[l].revision
  BY DEF LockoutTypeOK
<1>b. Idle.pc = "idle"
  BY DEF Idle
<1>d. LateOutdated /\ (Shut => "login" \notin live)
  BY DEF EvictInv, LockEvicts, Shut
<1>e. LateOutdated' /\ (Shut' => "login" \notin live') => EvictInv'
  BY DEF EvictInv, LockEvicts, Shut
\* A login that has nothing to revoke ends.
<1>l. ASSUME NEW l \in Logins, Leave(l), login[l].pc # "revoke",
             locked' => locked, missed' = missed, revision' = revision
      PROVE  (Shut' => Shut) /\ LateOutdated'
  <2>1. Idle.pc \notin {"compare", "issue"}
    BY <1>b
  <2>2. QED BY <1>d, <1>l, <2>1, EvictMove DEF Leave
<1>1. ASSUME NEW l \in Logins, NEW right \in BOOLEAN, ReadUser(l, right) PROVE EvictInv'
  <2>1. [pc |-> "security", right |-> right, revision |-> revision, failed |-> 0].pc = "security"
    OBVIOUS
  <2>2. (Shut' => Shut) /\ LateOutdated'
    BY <1>1, <1>d, <2>1, EvictMove DEF ReadUser, history
  <2>3. QED BY <1>1, <1>d, <1>e, <2>2 DEF ReadUser
<1>2. ASSUME NEW l \in Logins, ReadSecurity(l) PROVE EvictInv'
  <2>1. CASE locked
    <3>1. (Shut' => Shut) /\ LateOutdated'
      BY <1>2, <1>l, <2>1 DEF ReadSecurity, history
    <3>2. QED BY <1>2, <1>d, <1>e, <3>1 DEF ReadSecurity
  <2>2. CASE ~locked
    BY <1>2, <2>2 DEF ReadSecurity, EvictInv, LockEvicts, LateOutdated
  <2>3. QED BY <2>1, <2>2
<1>3. ASSUME NEW l \in Logins, CountWrong(l) PROVE EvictInv'
  <2>1. CASE Locks(login[l].failed + 1)
    <3>1. login' = [login EXCEPT ![l] = [login[l] EXCEPT !.pc = "revoke"]]
      BY <1>3, <2>1 DEF CountWrong, Goto
    <3>2. login'[l].pc = "revoke"
      BY <1>a, <3>1 DEF LockoutTypeOK
    <3>3. QED BY <3>2 DEF EvictInv, LockEvicts, LateOutdated
  <2>2. CASE ~Locks(login[l].failed + 1)
    <3>1. locked' => locked
      BY <1>3, <2>2, Zenon DEF CountWrong
    <3>2. Leave(l) /\ login[l].pc # "revoke" /\ UNCHANGED <<revision, live, missed>>
      BY <1>3, <2>2 DEF CountWrong
    <3>3. (Shut' => Shut) /\ LateOutdated'
      BY <1>l, <3>1, <3>2
    <3>4. QED BY <1>d, <1>e, <3>2, <3>3
  <2>3. QED BY <2>1, <2>2
<1>4. ASSUME NEW l \in Logins, RevokeOnLock(l) PROVE EvictInv'
  <2>1. CASE missed'
    BY <2>1 DEF EvictInv, LockEvicts, LateOutdated
  <2>2. CASE ~missed'
    <3>1. revision' = revision + 1 /\ live' = {} /\ login' = [login EXCEPT ![l] = Idle]
      BY <1>4, <2>2 DEF RevokeOnLock, Leave
    <3>2. LateOutdated'
      <4>1. SUFFICES ASSUME NEW k \in Logins, login'[k].pc \in {"compare", "issue"}
                     PROVE  login'[k].revision # revision'
        BY DEF LateOutdated
      <4>2. k # l
        BY <1>b, <3>1, <4>1 DEF LockoutTypeOK
      <4>3. login'[k] = login[k]
        BY <3>1, <4>2 DEF LockoutTypeOK
      <4>4. login[k].revision <= revision /\ login[k].revision \in Nat /\ revision \in Nat
        BY DEF EarnedInv, ReadEarned, LockoutTypeOK
      <4>5. QED BY <3>1, <4>3, <4>4
    <3>3. QED BY <1>e, <3>1, <3>2
  <2>3. QED BY <2>1, <2>2
<1>5. ASSUME NEW l \in Logins, CompareRight(l) PROVE EvictInv'
  <2>1. login' = [login EXCEPT ![l] = [login[l] EXCEPT !.pc = "issue"]]
    BY <1>5 DEF CompareRight, Goto
  <2>2. (Shut' => Shut) /\ LateOutdated'
    BY <1>5, <1>a, <1>d, <2>1, EvictMove DEF CompareRight, history
  <2>3. QED BY <1>5, <1>d, <1>e, <2>2 DEF CompareRight
<1>6. ASSUME NEW l \in Logins, IssueFails(l) PROVE EvictInv'
  <2>1. (Shut' => Shut) /\ LateOutdated'
    BY <1>6, <1>l DEF IssueFails, history
  <2>2. QED BY <1>6, <1>d, <1>e, <2>1 DEF IssueFails
<1>7. ASSUME NEW l \in Logins, Issue(l) PROVE EvictInv'
  <2>1. login' = [login EXCEPT ![l] = [login[l] EXCEPT !.pc = "reset"]]
    BY <1>7 DEF Issue, Goto
  <2>2. (Shut' => Shut) /\ LateOutdated'
    BY <1>7, <1>a, <1>d, <2>1, EvictMove DEF Issue, history
  <2>3. Shut => login[l].revision # revision
    BY <1>7, <1>d DEF Issue, LateOutdated, Shut
  <2>4. Shut' => "login" \notin live'
    BY <1>7, <1>d, <2>2, <2>3 DEF Issue, Hand
  <2>5. QED BY <1>e, <2>2, <2>4
<1>8. ASSUME NEW l \in Logins, Reset(l) PROVE EvictInv'
  <2>1. CASE locked'
    <3>1. locked
      BY <1>8, <2>1 DEF Reset
    <3>2. (Shut' => Shut) /\ LateOutdated'
      BY <1>8, <1>l, <3>1 DEF Reset
    <3>3. QED BY <1>8, <1>d, <1>e, <3>2 DEF Reset
  <2>2. CASE ~locked'
    BY <2>2 DEF EvictInv, LockEvicts, LateOutdated
  <2>3. QED BY <2>1, <2>2
\* A refresh is neither a login past the lock nor does it lock.
<1>9. ASSUME NEW l \in Logins, ReadForRefresh(l) PROVE EvictInv'
  <2>1. [Idle EXCEPT !.pc = "renew", !.revision = revision].pc = "renew"
    BY DEF Idle
  <2>2. (Shut' => Shut) /\ LateOutdated'
    BY <1>9, <1>d, <2>1, EvictMove DEF ReadForRefresh, history
  <2>3. QED BY <1>9, <1>d, <1>e, <2>2 DEF ReadForRefresh
<1>10. ASSUME NEW l \in Logins, Renew(l) PROVE EvictInv'
  <2>1. (Shut' => Shut) /\ LateOutdated'
    BY <1>10, <1>l DEF Renew, history
  <2>2. "login" \notin live => "login" \notin live'
    BY <1>10 DEF Renew, Hand
  <2>3. QED BY <1>d, <1>e, <2>1, <2>2
<1>11. CASE SessionEnds
  BY <1>11 DEF SessionEnds, history, EvictInv, LockEvicts, LateOutdated
<1>12. CASE LockEnds
  BY <1>12 DEF LockEnds, EvictInv, LockEvicts, LateOutdated
<1>13. CASE UNCHANGED lockoutVars
  BY <1>13 DEF lockoutVars, EvictInv, LockEvicts, LateOutdated
<1>14. QED
  BY <1>1, <1>2, <1>3, <1>4, <1>5, <1>6, <1>7, <1>8, <1>9, <1>10, <1>11, <1>12, <1>13
  DEF LockoutNext

\* A lock ends what logins handed out: once the increments of tokenVersion that
\* go with it are through, no access token issued by login is accepted while it
\* lasts, for any number of logins and refreshes under way when it was set.
\* What refreshToken issues meanwhile is accepted.
THEOREM LockingEvicts == LockoutSpec => []LockEvicts
<1>1. EvictInv => LockEvicts
  BY DEF EvictInv
<1>2. QED
  BY <1>1, LockoutTypeInit, LockoutTypeStep, EarnedInit, EarnedStep, EvictInit, EvictStep, PTL
  DEF LockoutSpec

----------------------------------------------------------------------------
(* With two logins at a time few guesses are wasted. *)

\* A row of guesses more, and that there are never less of them.
LEMMA TwiceNext ==
  ASSUME NEW k \in Nat
  PROVE  Twice(k + 1) = Twice(k) + 2 * (MaxFailed - k) /\ Twice(k) \in Int
<1>1. MaxFailed \in Nat
  BY LockoutAssumption
<1>2. (k + 1) * (2 * MaxFailed + 1 - (k + 1)) = k * (2 * MaxFailed + 1 - k) + 2 * (MaxFailed - k)
  BY <1>1
<1>3. QED BY <1>1, <1>2 DEF Twice

LEMMA TwiceGrows ==
  ASSUME NEW j \in Nat, NEW k \in Nat, j <= k, k <= MaxFailed
  PROVE  Twice(j) <= Twice(k)
<1>1. MaxFailed \in Nat
  BY LockoutAssumption
<1>2. k - j \in Nat /\ 2 * MaxFailed + 1 - k - j \in Nat
  BY <1>1
<1>3. (k - j) * (2 * MaxFailed + 1 - k - j) >= 0
  BY <1>2
<1>4. k * (2 * MaxFailed + 1 - k) - j * (2 * MaxFailed + 1 - j) = (k - j) * (2 * MaxFailed + 1 - k - j)
  BY <1>1
<1>5. k * (2 * MaxFailed + 1 - k) \in Int /\ j * (2 * MaxFailed + 1 - j) \in Int
  BY <1>1
<1>6. QED BY <1>3, <1>4, <1>5 DEF Twice

AtMostTwo == \A a, b, c \in Logins : a = b \/ b = c \/ a = c

LEMMA TwoLogins == Cardinality(Logins) <= 2 => AtMostTwo
<1> SUFFICES ASSUME NEW a \in Logins, NEW b \in Logins, NEW c \in Logins,
                    a # b, b # c, a # c
             PROVE  ~(Cardinality(Logins) <= 2)
  BY DEF AtMostTwo
<1>1. IsFiniteSet({a}) /\ Cardinality({a}) = 1
  BY FS_Singleton
<1>2. IsFiniteSet({a} \cup {b}) /\ Cardinality({a} \cup {b}) = 2
  BY <1>1, FS_AddElement
<1>3. IsFiniteSet({a} \cup {b} \cup {c}) /\ Cardinality({a} \cup {b} \cup {c}) = 3
  <2>1. c \notin {a} \cup {b}
    OBVIOUS
  <2> DEFINE D == {a} \cup {b}
  <2>2. IsFiniteSet(D) /\ Cardinality(D) = 2 /\ c \notin D
    BY <1>2, <2>1
  <2> HIDE DEF D
  <2>3. IsFiniteSet(D \cup {c}) /\ Cardinality(D \cup {c}) = 3
    BY <2>2, FS_AddElement
  <2>4. QED BY <2>3 DEF D
<1>4. {a} \cup {b} \cup {c} \in SUBSET Logins
  OBVIOUS
<1>5. Cardinality({a} \cup {b} \cup {c}) <= Cardinality(Logins) /\ Cardinality(Logins) \in Nat
  BY <1>4, LockoutAssumption, FS_Subset, FS_CardinalityType
<1>6. QED BY <1>3, <1>5

LEMMA LockoutNumbers ==
  ASSUME LockoutTypeOK
  PROVE  /\ failed \in Nat /\ guesses \in Nat /\ MaxFailed \in Nat /\ MaxFailed > 0
         /\ \A l \in Logins : login[l].failed \in Nat
         /\ \A m \in InUse : m \in Nat
         /\ failed \in InUse
         /\ \A l \in Logins : login[l].pc = "compare" => login[l].failed \in InUse
<1>1. /\ failed \in Nat /\ guesses \in Nat /\ MaxFailed \in Nat /\ MaxFailed > 0
      /\ \A l \in Logins : login[l].failed \in Nat
  BY LockoutAssumption DEF LockoutTypeOK
<1>2. QED BY <1>1 DEF InUse

LEMMA FewInit == LockoutInit => FewWasted
<1> SUFFICES ASSUME LockoutInit PROVE FewWasted
  OBVIOUS
<1>1. /\ failed = 0 /\ guesses = 0 /\ \A l \in Logins : login[l].pc = "idle"
      /\ MaxFailed \in Nat
  BY LockoutAssumption DEF LockoutInit, Idle
<1>2. InUse = {0}
  BY <1>1 DEF InUse
<1>3. Twice(0) = 0
  BY <1>1 DEF Twice
<1>4. QED BY <1>1, <1>2, <1>3 DEF FewWasted

\* No login begins to compare, and the counter stays.
LEMMA FewQuiet ==
  ASSUME FewWasted, failed' = failed, guesses' = guesses,
         \A k \in Logins : login'[k].pc = "compare" =>
           login[k].pc = "compare" /\ login'[k].failed = login[k].failed
  PROVE  FewWasted'
<1>1. InUse' \subseteq InUse
  BY DEF InUse
<1>2. \A m \in InUse' : m <= failed /\ failed < MaxFailed =>
        2 * guesses <= Twice(m) + 2 * (failed - m)
  BY <1>1 DEF FewWasted
<1>3. \A k, l \in Logins : k # l /\ login'[k].pc = "compare" /\ login'[l].pc = "compare" =>
        failed' \in {login'[k].failed, login'[l].failed}
  BY DEF FewWasted
<1>4. QED BY <1>2, <1>3 DEF FewWasted, Twice

\* A login l goes elsewhere.
LEMMA ElsewhereMove ==
  ASSUME LockoutTypeOK, NEW l \in Logins, Leave(l) \/ \E pc \in Phases \ {"compare"} : Goto(l, pc)
  PROVE  /\ login'[l].pc # "compare"
         /\ \A k \in Logins : k # l => login'[k] = login[k]
<1>1. login \in [Logins -> Attempt] /\ Idle.pc = "idle"
  BY DEF LockoutTypeOK, Attempt, Phases, Idle
<1>2. CASE Leave(l)
  BY <1>1, <1>2 DEF Leave
<1>3. ASSUME NEW pc \in Phases \ {"compare"}, Goto(l, pc)
      PROVE  login'[l].pc # "compare" /\ \A k \in Logins : k # l => login'[k] = login[k]
  <2>1. [login[l] EXCEPT !.pc = pc].pc = pc
    BY <1>1 DEF Attempt
  <2>2. login' = [login EXCEPT ![l] = [login[l] EXCEPT !.pc = pc]]
    BY <1>3 DEF Goto
  <2>3. QED BY <1>1, <2>1, <2>2
<1>4. QED BY <1>2, <1>3

\* A login reads the counter.
LEMMA FewReads ==
  ASSUME LockoutTypeOK, FewWasted, NEW l \in Logins, ReadSecurity(l)
  PROVE  FewWasted'
<1>1. CASE locked
  <2>1. Leave(l) /\ failed' = failed /\ guesses' = guesses
    BY <1>1 DEF ReadSecurity, history
  <2>2. QED BY <2>1, ElsewhereMove, FewQuiet
<1>2. CASE ~locked
  <2> DEFINE q == [login[l] EXCEPT !.pc = "compare", !.failed = failed]
  <2>1. q.failed = failed
    BY DEF LockoutTypeOK
  <2>2. login'[l] = q /\ \A k \in Logins : k # l => login'[k] = login[k]
    BY <1>2 DEF ReadSecurity, LockoutTypeOK
  <2>3. failed' = failed /\ guesses' = guesses
    BY DEF ReadSecurity, history
  <2> HIDE DEF q
  <2>4. InUse' \subseteq InUse
    BY <2>1, <2>2, <2>3 DEF InUse
  <2>5. \A k, m \in Logins : k # m /\ login'[k].pc = "compare" /\ login'[m].pc = "compare" =>
          failed' \in {login'[k].failed, login'[m].failed}
    BY <2>1, <2>2, <2>3 DEF FewWasted
  <2>6. \A m \in InUse' : m <= failed /\ failed < MaxFailed =>
          2 * guesses <= Twice(m) + 2 * (failed - m)
    BY <2>4 DEF FewWasted
  <2>7. QED BY <2>3, <2>5, <2>6 DEF FewWasted, Twice
<1>3. QED BY <1>1, <1>2

\* A wrong password is counted: the counter gets what the login read, plus one.
LEMMA FewCounts ==
  ASSUME LockoutTypeOK, LockoutTypeOK', FewWasted, AtMostTwo, NEW l \in Logins, CountWrong(l)
  PROVE  FewWasted'
<1> DEFINE a == login[l].failed
<1>1. /\ login[l].pc = "compare" /\ failed' = a + 1
      /\ guesses' = IF a + 1 >= MaxFailed THEN 0 ELSE guesses + 1
  BY DEF CountWrong, Locks
<1>2. /\ login'[l].pc # "compare"
      /\ \A k \in Logins : k # l => login'[k] = login[k]
  BY ElsewhereMove DEF CountWrong, Phases
<1>3. /\ failed \in Nat /\ guesses \in Nat /\ MaxFailed \in Nat /\ a \in Nat /\ MaxFailed > 0
      /\ a \in InUse /\ failed \in InUse
  BY <1>1, LockoutNumbers
<1>4. failed' >= MaxFailed => guesses' = 0
  BY <1>1, <1>3
<1>5. \A k, m \in Logins : k # m /\ login'[k].pc = "compare" /\ login'[m].pc = "compare" => FALSE
  BY <1>2 DEF AtMostTwo
<1>6. ASSUME NEW m \in InUse', m <= failed', failed' < MaxFailed
      PROVE  2 * guesses' <= Twice(m) + 2 * (failed' - m)
  <2>1. guesses' = guesses + 1 /\ a + 1 < MaxFailed
    BY <1>1, <1>3, <1>6
  <2>2. \A n \in InUse : n <= failed /\ failed < MaxFailed =>
          2 * guesses <= Twice(n) + 2 * (failed - n)
    BY DEF FewWasted
  <2>3. failed >= MaxFailed => guesses = 0
    BY DEF FewWasted
  <2>4. /\ Twice(a + 1) = Twice(a) + 2 * (MaxFailed - a)
        /\ Twice(a) \in Int /\ Twice(0) = 0 /\ Twice(0) <= Twice(a)
    <3>1. Twice(a + 1) = Twice(a) + 2 * (MaxFailed - a) /\ Twice(a) \in Int
      BY <1>3, TwiceNext
    <3>2. Twice(0) = 0
      BY <1>3 DEF Twice
    <3>3. Twice(0) <= Twice(a)
      BY <1>3, <2>1, TwiceGrows
    <3>4. QED BY <3>1, <3>2, <3>3
  \* What was wasted below the count that the login started from.
  <2>5. 2 * guesses <= Twice(a) + 2 * (MaxFailed - 1 - a)
    <3>1. CASE failed >= MaxFailed
      BY <1>3, <2>1, <2>3, <2>4, <3>1
    <3>2. CASE failed < MaxFailed /\ a <= failed
      <4>1. 2 * guesses <= Twice(a) + 2 * (failed - a)
        BY <1>3, <2>2, <3>2
      <4>2. QED BY <1>3, <2>4, <3>2, <4>1
    <3>3. CASE failed < a
      <4>1. 2 * guesses <= Twice(failed) + 2 * (failed - failed)
        BY <1>3, <2>1, <2>2, <3>3
      <4>2. Twice(failed) <= Twice(a) /\ Twice(failed) \in Int
        BY <1>3, <2>1, <3>3, TwiceGrows, TwiceNext
      <4>3. QED BY <1>3, <2>1, <2>4, <4>1, <4>2
    <3>4. QED BY <1>3, <3>1, <3>2, <3>3
  <2>6. CASE m = a + 1
    <3>1. failed' - m = 0
      BY <1>1, <1>3, <2>6
    <3>2. QED BY <1>3, <2>1, <2>4, <2>5, <2>6, <3>1
  <2>7. CASE m # a + 1
    <3>1. PICK k \in Logins : login'[k].pc = "compare" /\ m = login'[k].failed
      BY <1>1, <1>6, <2>7 DEF InUse
    <3>2. k # l /\ login[k].pc = "compare" /\ m = login[k].failed
      BY <1>2, <3>1
    <3>3. m \in InUse /\ m \in Nat /\ failed \in {a, m}
      BY <1>1, <3>2, LockoutNumbers DEF FewWasted
    <3>4. m <= a
      BY <1>1, <1>3, <1>6, <2>7, <3>3
    <3>5. Twice(m) \in Int
      BY <3>3, TwiceNext
    <3>6. CASE failed = a
      <4>1. 2 * guesses <= Twice(m) + 2 * (a - m)
        BY <1>3, <2>1, <2>2, <3>3, <3>4, <3>6
      <4>2. QED BY <1>1, <1>3, <2>1, <3>3, <3>5, <4>1
    <3>7. CASE failed = m
      <4>1. 2 * guesses <= Twice(m) + 2 * (m - m)
        BY <1>3, <2>1, <2>2, <3>3, <3>4, <3>7
      <4>2. QED BY <1>1, <1>3, <2>1, <3>3, <3>4, <3>5, <4>1
    <3>8. QED BY <3>3, <3>6, <3>7
  <2>8. QED BY <2>6, <2>7
<1>7. QED BY <1>4, <1>5, <1>6 DEF FewWasted, Twice

\* The counter goes back to zero, if the update works.
LEMMA FewReset ==
  ASSUME LockoutTypeOK, LockoutTypeOK', FewWasted, AtMostTwo, NEW l \in Logins, Reset(l)
  PROVE  FewWasted'
<1>1. /\ login[l].pc = "reset" /\ login'[l].pc # "compare"
      /\ \A k \in Logins : k # l => login'[k] = login[k]
  BY ElsewhereMove DEF Reset
<1>2. CASE failed' = failed /\ guesses' = guesses
  BY <1>1, <1>2, FewQuiet
<1>3. CASE failed' = 0 /\ guesses' = 0
  <2>1. \A k, m \in Logins : k # m /\ login'[k].pc = "compare" /\ login'[m].pc = "compare" => FALSE
    BY <1>1 DEF AtMostTwo
  <2>2. \A m \in InUse' : m \in Nat
    BY <1>3 DEF InUse, LockoutTypeOK
  <2>3. Twice(0) = 0
    BY LockoutAssumption DEF Twice
  <2>4. \A m \in InUse' : m <= failed' /\ failed' < MaxFailed =>
          2 * guesses' <= Twice(m) + 2 * (failed' - m)
    BY <1>3, <2>2, <2>3
  <2>5. QED BY <1>3, <2>1, <2>4 DEF FewWasted, Twice
<1>4. QED BY <1>2, <1>3 DEF Reset

LEMMA FewStep ==
  AtMostTwo /\ LockoutTypeOK /\ LockoutTypeOK' /\ FewWasted /\ [LockoutNext]_lockoutVars => FewWasted'
<1> SUFFICES ASSUME AtMostTwo, LockoutTypeOK, LockoutTypeOK', FewWasted, [LockoutNext]_lockoutVars
             PROVE  FewWasted'
  OBVIOUS
<1>1. ASSUME NEW l \in Logins, NEW right \in BOOLEAN, ReadUser(l, right) PROVE FewWasted'
  <2>1. login'[l].pc = "security" /\ \A k \in Logins : k # l => login'[k] = login[k]
    BY <1>1 DEF ReadUser, LockoutTypeOK
  <2>2. QED BY <1>1, <2>1, FewQuiet DEF ReadUser, history
<1>2. ASSUME NEW l \in Logins, ReadSecurity(l) PROVE FewWasted'
  BY <1>2, FewReads
<1>3. ASSUME NEW l \in Logins, CountWrong(l) PROVE FewWasted'
  BY <1>3, FewCounts
<1>4. ASSUME NEW l \in Logins, RevokeOnLock(l) PROVE FewWasted'
  BY <1>4, ElsewhereMove, FewQuiet DEF RevokeOnLock
<1>5. ASSUME NEW l \in Logins, CompareRight(l) \/ IssueFails(l) \/ Issue(l) PROVE FewWasted'
  BY <1>5, ElsewhereMove, FewQuiet DEF CompareRight, IssueFails, Issue, Phases, history
<1>6. ASSUME NEW l \in Logins, Reset(l) PROVE FewWasted'
  BY <1>6, FewReset
<1>7. ASSUME NEW l \in Logins, ReadForRefresh(l) PROVE FewWasted'
  <2>1. login'[l].pc = "renew" /\ \A k \in Logins : k # l => login'[k] = login[k]
    BY <1>7 DEF ReadForRefresh, LockoutTypeOK, Idle
  <2>2. QED BY <1>7, <2>1, FewQuiet DEF ReadForRefresh, history
<1>8. ASSUME NEW l \in Logins, Renew(l) PROVE FewWasted'
  BY <1>8, ElsewhereMove, FewQuiet DEF Renew, history
<1>9. CASE SessionEnds \/ LockEnds
  BY <1>9, FewQuiet DEF SessionEnds, LockEnds, history
<1>10. CASE UNCHANGED lockoutVars
  BY <1>10, FewQuiet DEF lockoutVars, history
<1>11. QED
  BY <1>1, <1>2, <1>3, <1>4, <1>5, <1>6, <1>7, <1>8, <1>9, <1>10 DEF LockoutNext

LEMMA FewBound == LockoutTypeOK /\ FewWasted => guesses < (MaxFailed * (MaxFailed + 1)) \div 2
<1> SUFFICES ASSUME LockoutTypeOK, FewWasted
             PROVE  guesses < (MaxFailed * (MaxFailed + 1)) \div 2
  OBVIOUS
<1>1. /\ failed \in Nat /\ guesses \in Nat /\ MaxFailed \in Nat /\ MaxFailed > 0 /\ failed \in InUse
  BY LockoutNumbers
<1>2. 2 * guesses + 2 <= MaxFailed * (MaxFailed + 1)
  <2>1. Twice(MaxFailed) = MaxFailed * (MaxFailed + 1)
    <3>1. 2 * MaxFailed + 1 - MaxFailed = MaxFailed + 1
      BY <1>1
    <3>2. QED BY <3>1 DEF Twice
  <2>2. CASE failed >= MaxFailed
    <3>1. guesses = 0
      BY <2>2 DEF FewWasted
    <3>2. Twice(1) <= Twice(MaxFailed) /\ Twice(1) = 2 * MaxFailed
      BY <1>1, TwiceGrows DEF Twice
    <3>3. QED BY <1>1, <2>1, <3>1, <3>2
  <2>3. CASE failed < MaxFailed
    <3>1. 2 * guesses <= Twice(failed) + 2 * (failed - failed)
      BY <1>1, <2>3 DEF FewWasted
    <3>2. Twice(failed + 1) = Twice(failed) + 2 * (MaxFailed - failed) /\ Twice(failed) \in Int
      BY <1>1, TwiceNext
    <3>3. Twice(failed + 1) <= Twice(MaxFailed)
      BY <1>1, <2>3, TwiceGrows
    <3>4. QED BY <1>1, <2>1, <2>3, <3>1, <3>2, <3>3
  <2>4. QED BY <1>1, <2>2, <2>3
<1> DEFINE x == MaxFailed * (MaxFailed + 1)
<1>3. x \in Nat /\ 2 * guesses + 2 <= x
  BY <1>1, <1>2
<1> HIDE DEF x
<1>4. guesses + 1 <= x \div 2
  BY <1>1, <1>3
<1>5. QED BY <1>1, <1>3, <1>4 DEF x

\* Where at most two logins of an account overlap, the stale counts they write
\* over each other's cost a bounded number of guesses: the account locks, for
\* every MAX_FAILED_ATTEMPTS, before half its square and half of it more.
THEOREM GuessesAreBounded == LockoutSpec => []GuessBound
<1>1. CASE Cardinality(Logins) <= 2
  <2>1. LockoutTypeOK /\ LockoutTypeOK' /\ FewWasted /\ [LockoutNext]_lockoutVars => FewWasted'
    BY <1>1, TwoLogins, FewStep
  <2>2. LockoutTypeOK /\ FewWasted => GuessBound
    BY FewBound DEF GuessBound
  <2>3. QED BY <2>1, <2>2, LockoutTypeInit, LockoutTypeStep, FewInit, PTL DEF LockoutSpec
<1>2. CASE ~(Cardinality(Logins) <= 2)
  <2>1. GuessBound
    BY <1>2 DEF GuessBound
  <2>2. QED BY <2>1, PTL
<1>3. QED BY <1>1, <1>2

----------------------------------------------------------------------------
(* Recovery. *)

Request == [pc : Stages, secret : Secrets, new : Passwords \cup {NoSecret}, version : Nat]

\* A request that has what its stage needs.
Fit(p) ==
  /\ p \in Request
  /\ p.pc \in {"issue", "found", "renew"} => p.secret \in Passwords
  /\ p.pc = "hash" => p.new \in Passwords
  /\ p.pc = "del" => p.secret \in Tokens

AllFit == handler \in [Handlers -> Request] /\ \A h \in Handlers : Fit(handler[h])

Fields ==
  /\ password \in Passwords /\ tokens \in Nat
  /\ accepted \subseteq Passwords /\ sessions \subseteq Passwords
  /\ renewed \subseteq Passwords /\ lapsed \in BOOLEAN
  /\ code \in Codes \cup {NoSecret}
  /\ reset \in [Tokens -> {"fresh", "live", "gone"}]
  /\ uses \in [Tokens -> Nat] /\ retained \subseteq Tokens

LEMMA RecoveryTypeParts == RecoveryTypeOK <=> Fields /\ AllFit
BY DEF RecoveryTypeOK, Fields, AllFit, Fit, Request

LEMMA FreeFits == Fit(Free) /\ Free.pc = "idle" /\ Free.version = 0
BY DEF Fit, Free, Request, Stages, Secrets

LEMMA HoldFits ==
  ASSUME AllFit, NEW h \in Handlers, NEW p, Fit(p), Hold(h, p)
  PROVE  AllFit'
<1>1. p \in Request /\ handler' = [handler EXCEPT ![h] = p]
  BY DEF Fit, Hold
<1>2. handler' \in [Handlers -> Request]
  BY <1>1 DEF AllFit
<1>3. ASSUME NEW k \in Handlers PROVE Fit(handler'[k])
  <2>1. CASE k = h
    <3>1. handler'[k] = p
      BY <1>1, <2>1 DEF AllFit
    <3>2. QED BY <3>1
  <2>2. CASE k # h
    <3>1. handler'[k] = handler[k]
      BY <1>1, <2>2 DEF AllFit
    <3>2. QED BY <3>1 DEF AllFit
  <2>3. QED BY <2>1, <2>2
<1>4. \A k \in Handlers : Fit(handler[k])'
  BY <1>3 DEF Fit
<1>5. QED BY <1>2, <1>4 DEF AllFit

\* To one of the stages that need nothing.
LEMMA AdvanceFits ==
  ASSUME AllFit, NEW h \in Handlers, NEW pc \in {"consume", "revoke"}, Advance(h, pc)
  PROVE  AllFit'
<1>1. /\ [handler[h] EXCEPT !.pc = pc] \in Request
      /\ [handler[h] EXCEPT !.pc = pc].pc = pc
  BY DEF AllFit, Request, Stages
<1>2. Fit([handler[h] EXCEPT !.pc = pc])
  BY <1>1 DEF Fit
<1>3. QED BY <1>2, HoldFits DEF Advance

LEMMA DoneFits ==
  ASSUME AllFit, NEW h \in Handlers, Done(h)
  PROVE  AllFit'
BY FreeFits, HoldFits DEF Done

----------------------------------------------------------------------------
(* Type correctness. *)

LEMMA RecoveryTypeInit == RecoveryInit => RecoveryTypeOK
<1> SUFFICES ASSUME RecoveryInit PROVE Fields /\ AllFit
  BY RecoveryTypeParts
<1>1. Fields
  BY DEF RecoveryInit, Fields
<1>2. AllFit
  <2>1. Free \in Request
    BY FreeFits DEF Fit
  <2>2. \A h \in Handlers : handler[h] = Free
    BY DEF RecoveryInit
  <2>3. QED BY <2>1, <2>2, FreeFits DEF RecoveryInit, AllFit
<1>3. QED BY <1>1, <1>2

LEMMA RecoveryTypeStep == RecoveryTypeOK /\ [RecoveryNext]_recoveryVars => RecoveryTypeOK'
<1>p. RecoveryTypeOK' <=> Fields' /\ AllFit'
  BY RecoveryTypeParts, PTL
<1> SUFFICES ASSUME Fields, AllFit, [RecoveryNext]_recoveryVars PROVE Fields' /\ AllFit'
  BY RecoveryTypeParts, <1>p
<1>1. ASSUME NEW h \in Handlers, LoginReads(h) PROVE Fields' /\ AllFit'
  <2>1. Fit([pc |-> "issue", secret |-> password, new |-> NoSecret, version |-> tokens])
    BY DEF Fields, Fit, Request, Stages, Secrets
  <2>2. AllFit'
    BY <1>1, <2>1, HoldFits DEF LoginReads
  <2>3. QED BY <1>1, <2>2 DEF LoginReads, account, secrets, Fields
<1>2. ASSUME NEW h \in Handlers, LoginIssues(h) PROVE Fields' /\ AllFit'
  <2>1. AllFit'
    BY <1>2, DoneFits DEF LoginIssues
  <2>2. handler[h].secret \in Passwords
    BY <1>2 DEF LoginIssues, AllFit, Fit
  <2>3. QED BY <1>2, <2>1, <2>2 DEF LoginIssues, Joins, secrets, Fields
<1>3. ASSUME NEW h \in Handlers, NEW new \in Passwords, ChangeReads(h, new)
      PROVE  Fields' /\ AllFit'
  <2>1. Fit([Free EXCEPT !.pc = "hash", !.new = new])
    BY DEF Free, Fit, Request, Stages, Secrets
  <2>2. AllFit'
    BY <1>3, <2>1, HoldFits DEF ChangeReads
  <2>3. QED BY <1>3, <2>2 DEF ChangeReads, account, secrets, Fields
<1>4. ASSUME NEW h \in Handlers, Commit(h) PROVE Fields' /\ AllFit'
  <2>1. password' \in Passwords
    BY <1>4 DEF Commit, AllFit, Fit
  <2>2. CASE handler[h].secret \in Tokens
    <3>1. Fit([handler[h] EXCEPT !.pc = "del"])
      BY <2>2 DEF AllFit, Fit, Request, Stages
    <3>2. AllFit'
      BY <1>4, <2>2, <3>1, HoldFits DEF Commit, Advance
    <3>3. uses' \in [Tokens -> Nat]
      BY <1>4, <2>2 DEF Commit, Count, Fields
    <3>4. QED BY <1>4, <2>1, <3>2, <3>3 DEF Commit, Fields
  <2>3. CASE handler[h].secret \notin Tokens
    <3>1. AllFit'
      BY <1>4, <2>3, AdvanceFits DEF Commit
    <3>2. QED BY <1>4, <2>1, <2>3, <3>1 DEF Commit, Fields
  <2>4. QED BY <2>2, <2>3
<1>5. ASSUME NEW h \in Handlers, Abort(h) PROVE Fields' /\ AllFit'
  BY <1>5, DoneFits DEF Abort, account, secrets, Fields
<1>6. ASSUME NEW h \in Handlers, Revoke(h) PROVE Fields' /\ AllFit'
  <2>1. AllFit'
    BY <1>6, DoneFits DEF Revoke
  <2>2. tokens' \in Nat /\ accepted' \subseteq Passwords /\ renewed' \subseteq Passwords
    BY <1>6 DEF Revoke, Fields
  <2>3. lapsed' \in BOOLEAN
    BY <1>6, Zenon DEF Revoke, Fields
  <2>4. QED BY <1>6, <2>1, <2>2, <2>3 DEF Revoke, secrets, Fields
<1>7. ASSUME NEW h \in Handlers, NEW c \in Codes, Forgot(h, c) PROVE Fields' /\ AllFit'
  <2>1. AllFit'
    BY <1>7 DEF Forgot, AllFit, Fit
  <2>2. QED BY <1>7, <2>1 DEF Forgot, account, Fields
<1>8. ASSUME NEW h \in Handlers, NEW c \in Codes, VerifyReads(h, c) PROVE Fields' /\ AllFit'
  <2>1. Fit([Free EXCEPT !.pc = "grant", !.secret = c])
    BY DEF Free, Fit, Request, Stages, Secrets
  <2>2. AllFit'
    BY <1>8, <2>1, HoldFits DEF VerifyReads
  <2>3. QED BY <1>8, <2>2 DEF VerifyReads, account, secrets, Fields
<1>9. ASSUME NEW h \in Handlers, NEW t \in Tokens, Grant(h, t) PROVE Fields' /\ AllFit'
  <2>1. AllFit'
    BY <1>9, AdvanceFits DEF Grant
  <2>2. QED BY <1>9, <2>1 DEF Grant, account, Fields
<1>10. ASSUME NEW h \in Handlers, Consume(h) PROVE Fields' /\ AllFit'
  <2>1. AllFit'
    BY <1>10, DoneFits DEF Consume
  <2>2. QED BY <1>10, <2>1 DEF Consume, account, Fields
<1>11. ASSUME NEW h \in Handlers, NEW t \in Tokens, NEW new \in Passwords, ResetReads(h, t, new)
       PROVE  Fields' /\ AllFit'
  <2>1. Fit([Free EXCEPT !.pc = "hash", !.secret = t, !.new = new])
    BY DEF Free, Fit, Request, Stages, Secrets
  <2>2. AllFit'
    BY <1>11, <2>1, HoldFits DEF ResetReads
  <2>3. QED BY <1>11, <2>2 DEF ResetReads, account, secrets, Fields
<1>12. ASSUME NEW h \in Handlers, Spend(h) PROVE Fields' /\ AllFit'
  <2>1. handler[h].secret \in Tokens
    BY <1>12 DEF Spend, AllFit, Fit
  <2>2. AllFit'
    BY <1>12, AdvanceFits DEF Spend
  <2>3. QED BY <1>12, <2>1, <2>2 DEF Spend, account, Fields
<1>13. CASE CodeExpires
  BY <1>13 DEF CodeExpires, account, Fields, AllFit, Fit
<1>14. ASSUME NEW t \in Tokens, TokenExpires(t) PROVE Fields' /\ AllFit'
  BY <1>14 DEF TokenExpires, account, Fields, AllFit, Fit
<1>15. CASE Stop
  <2>1. Free \in Request
    BY FreeFits DEF Fit
  <2>2. \A h \in Handlers : handler'[h] = Free
    BY <1>15 DEF Stop
  <2>3. \A h \in Handlers : Fit(handler'[h])
    BY <2>2, FreeFits
  <2>4. \A h \in Handlers : Fit(handler[h])'
    BY <2>3 DEF Fit
  <2>5. AllFit'
    BY <1>15, <2>1, <2>4 DEF Stop, AllFit
  <2>6. lapsed' \in BOOLEAN
    BY <1>15, Zenon DEF Stop, Fields
  <2>7. QED BY <1>15, <2>5, <2>6 DEF Stop, Fields
<1>16. ASSUME NEW h \in Handlers, NEW p \in Passwords, RefreshFinds(h, p) PROVE Fields' /\ AllFit'
  <2>1. Fit([Free EXCEPT !.pc = "found", !.secret = p])
    BY DEF Free, Fit, Request, Stages, Secrets
  <2>2. AllFit'
    BY <1>16, <2>1, HoldFits DEF RefreshFinds
  <2>3. QED BY <1>16, <2>2 DEF RefreshFinds, account, secrets, Fields
<1>17. ASSUME NEW h \in Handlers, RefreshReads(h) PROVE Fields' /\ AllFit'
  <2>1. handler[h] \in Request /\ handler[h].secret \in Passwords
    BY <1>17 DEF RefreshReads, AllFit, Fit
  <2>2. Fit([handler[h] EXCEPT !.pc = "renew", !.version = tokens])
    BY <2>1 DEF Fields, Fit, Request, Stages
  <2>3. AllFit'
    BY <1>17, <2>2, HoldFits DEF RefreshReads
  <2>4. QED BY <1>17, <2>3 DEF RefreshReads, account, secrets, Fields
<1>18. ASSUME NEW h \in Handlers, RefreshIssues(h) PROVE Fields' /\ AllFit'
  <2>1. AllFit'
    BY <1>18, DoneFits DEF RefreshIssues
  <2>2. handler[h].secret \in Passwords
    BY <1>18 DEF RefreshIssues, AllFit, Fit
  <2>3. QED BY <1>18, <2>1, <2>2 DEF RefreshIssues, Joins, secrets, Fields
<1>19. ASSUME NEW p \in Passwords, SessionsEnd(p) PROVE Fields' /\ AllFit'
  BY <1>19 DEF SessionsEnd, secrets, Fields, AllFit, Fit
<1>20. CASE UNCHANGED recoveryVars
  BY <1>20 DEF recoveryVars, account, secrets, Fields, AllFit, Fit
<1>21. QED
  BY <1>1, <1>2, <1>3, <1>4, <1>5, <1>6, <1>7, <1>8, <1>9, <1>10, <1>11, <1>12,
     <1>13, <1>14, <1>15, <1>16, <1>17, <1>18, <1>19, <1>20
  DEF RecoveryNext

\* Type correctness of every reachable state: a login that compared holds a
\* password, a change a new one, a request that has still to delete its reset
\* token a token, also after faults and a stop of the process.
THEOREM RecoveryTyping == RecoverySpec => []RecoveryTypeOK
<1>1. QED BY RecoveryTypeInit, RecoveryTypeStep, PTL DEF RecoverySpec

----------------------------------------------------------------------------
(* An accepted access token of a login was given for the password of now. *)

MatchInv == VersionsKnown /\ Matching

LEMMA MatchInit == RecoveryInit => MatchInv
BY DEF RecoveryInit, MatchInv, VersionsKnown, Matching, Free

\* A step that gives a request p instead, with a version of before, and leaves
\* tokenVersion alone.
LEMMA VersionMove ==
  ASSUME AllFit, VersionsKnown, NEW h \in Handlers, NEW p,
         p.version <= tokens, Hold(h, p), tokens' = tokens
  PROVE  VersionsKnown'
<1>1. SUFFICES ASSUME NEW k \in Handlers PROVE handler'[k].version <= tokens
  BY DEF VersionsKnown
<1>2. CASE k = h
  BY <1>2 DEF Hold, AllFit
<1>3. CASE k # h
  BY <1>3 DEF Hold, AllFit, VersionsKnown
<1>4. QED BY <1>2, <1>3

\* A step of a request that has nothing to revoke, before and after it.
LEMMA QuietMove ==
  ASSUME AllFit, MatchInv, NEW h \in Handlers, NEW p,
         handler[h].pc \notin {"del", "revoke"}, p.pc \notin {"del", "revoke"},
         p.pc = "issue" => p.secret = password,
         p.version <= tokens, Hold(h, p),
         UNCHANGED <<password, tokens, lapsed>>,
         ~Revoking /\ ~lapsed => accepted' \subseteq {password}
  PROVE  MatchInv'
<1>1. VersionsKnown'
  BY VersionMove DEF MatchInv
<1>2. /\ handler'[h] = p
      /\ \A k \in Handlers : k # h => handler'[k] = handler[k]
  BY DEF Hold, AllFit
<1>3. Revoking => Revoking'
  <2>1. SUFFICES ASSUME NEW k \in Handlers, handler[k].pc \in {"del", "revoke"}
                 PROVE  Revoking'
    BY DEF Revoking
  <2>2. handler'[k] = handler[k]
    BY <1>2, <2>1
  <2>3. QED BY <2>1, <2>2 DEF Revoking
<1>4. CASE Revoking \/ lapsed
  BY <1>1, <1>3, <1>4 DEF MatchInv, Matching
<1>5. CASE ~Revoking /\ ~lapsed
  <2>1. \A k \in Handlers : handler[k].pc = "issue" /\ handler[k].version = tokens
                              => handler[k].secret = password
    BY <1>5 DEF MatchInv, Matching
  <2>2. ASSUME NEW k \in Handlers, handler'[k].pc = "issue", handler'[k].version = tokens'
        PROVE  handler'[k].secret = password'
    <3>1. CASE k = h
      BY <1>2, <2>2, <3>1
    <3>2. CASE k # h
      BY <1>2, <2>1, <2>2, <3>2
    <3>3. QED BY <3>1, <3>2
  <2>3. QED BY <1>1, <1>5, <2>2 DEF MatchInv, Matching
<1>6. QED BY <1>4, <1>5

\* A request that has something to revoke afterwards.
LEMMA BusyMove ==
  ASSUME AllFit, MatchInv, NEW h \in Handlers, NEW pc \in {"del", "revoke"},
         Advance(h, pc), tokens' = tokens
  PROVE  MatchInv'
<1>1. /\ [handler[h] EXCEPT !.pc = pc].version <= tokens
      /\ [handler[h] EXCEPT !.pc = pc].pc = pc
  BY DEF AllFit, Request, MatchInv, VersionsKnown
<1>2. VersionsKnown'
  BY <1>1, VersionMove DEF Advance, MatchInv
<1>3. handler' = [handler EXCEPT ![h] = [handler[h] EXCEPT !.pc = pc]]
  BY DEF Advance, Hold
<1>4. handler'[h].pc = pc
  BY <1>1, <1>3 DEF AllFit
<1>5. Revoking'
  BY <1>4 DEF Revoking
<1>6. QED BY <1>2, <1>5 DEF MatchInv, Matching

LEMMA MatchStep == RecoveryTypeOK /\ MatchInv /\ [RecoveryNext]_recoveryVars => MatchInv'
<1> SUFFICES ASSUME Fields, AllFit, MatchInv, [RecoveryNext]_recoveryVars PROVE MatchInv'
  BY RecoveryTypeParts
<1>n. /\ tokens \in Nat
      /\ \A h \in Handlers : handler[h].version \in Nat /\ handler[h].version <= tokens
  BY DEF Fields, AllFit, Request, MatchInv, VersionsKnown
<1>m. ~Revoking /\ ~lapsed => accepted \subseteq {password}
  BY DEF MatchInv, Matching
<1>f. Free.version <= tokens /\ Free.pc = "idle"
  BY <1>n, FreeFits
\* A request that starts and leaves the account as it is.
<1>r. ASSUME NEW h \in Handlers, NEW p, handler[h].pc = "idle",
             p.pc \in {"hash", "grant"}, p.version <= tokens, Hold(h, p), UNCHANGED account
      PROVE  MatchInv'
  BY <1>m, <1>r, QuietMove DEF account
\* A request that ends without a change to revoke, with new access tokens at most.
<1>d. ASSUME NEW h \in Handlers, handler[h].pc \notin {"del", "revoke"}, Done(h),
             UNCHANGED <<password, tokens, lapsed>>,
             ~Revoking /\ ~lapsed => accepted' \subseteq {password}
      PROVE  MatchInv'
  BY <1>d, <1>f, QuietMove DEF Done
<1>1. ASSUME NEW h \in Handlers, LoginReads(h) PROVE MatchInv'
  <2>1. /\ [pc |-> "issue", secret |-> password, new |-> NoSecret, version |-> tokens].pc = "issue"
        /\ [pc |-> "issue", secret |-> password, new |-> NoSecret, version |-> tokens].secret = password
        /\ [pc |-> "issue", secret |-> password, new |-> NoSecret, version |-> tokens].version <= tokens
    BY <1>n
  <2>2. QED BY <1>1, <1>m, <2>1, QuietMove DEF LoginReads, account
<1>2. ASSUME NEW h \in Handlers, LoginIssues(h) PROVE MatchInv'
  <2>1. ~Revoking /\ ~lapsed => accepted' \subseteq {password}
    BY <1>2 DEF LoginIssues, Joins, MatchInv, Matching
  <2>2. QED BY <1>2, <1>d, <2>1 DEF LoginIssues
<1>3. ASSUME NEW h \in Handlers, NEW new \in Passwords, ChangeReads(h, new) PROVE MatchInv'
  <2>1. /\ [Free EXCEPT !.pc = "hash", !.new = new].pc = "hash"
        /\ [Free EXCEPT !.pc = "hash", !.new = new].version <= tokens
    BY <1>n DEF Free
  <2>2. QED BY <1>3, <1>r, <2>1 DEF ChangeReads
<1>4. ASSUME NEW h \in Handlers, Commit(h) PROVE MatchInv'
  <2>1. Advance(h, "del") \/ Advance(h, "revoke")
    BY <1>4 DEF Commit
  <2>2. QED BY <1>4, <2>1, BusyMove DEF Commit
<1>5. ASSUME NEW h \in Handlers, Abort(h) PROVE MatchInv'
  BY <1>5, <1>d, <1>m DEF Abort, account
<1>6. ASSUME NEW h \in Handlers, Revoke(h) PROVE MatchInv'
  <2>1. handler' = [handler EXCEPT ![h] = Free]
    BY <1>6 DEF Revoke, Done, Hold
  <2>2. \A k \in Handlers : handler'[k] = IF k = h THEN Free ELSE handler[k]
    BY <2>1 DEF AllFit
  <2>3. CASE lapsed'
    <3>1. tokens' = tokens
      BY <1>6, <2>3 DEF Revoke
    <3>2. VersionsKnown'
      BY <1>6, <1>f, <3>1, VersionMove DEF Revoke, Done, MatchInv
    <3>3. QED BY <2>3, <3>2 DEF MatchInv, Matching
  <2>4. CASE ~lapsed'
    <3>1. tokens' = tokens + 1 /\ accepted' = {}
      BY <1>6, <2>4 DEF Revoke
    <3>2. ASSUME NEW k \in Handlers
          PROVE  handler'[k].version <= tokens' /\ (handler'[k].pc = "issue" => handler'[k].version # tokens')
      <4>1. CASE k = h
        BY <1>n, <2>2, <3>1, <4>1, FreeFits
      <4>2. CASE k # h
        BY <1>n, <2>2, <3>1, <4>2
      <4>3. QED BY <4>1, <4>2
    <3>3. QED BY <3>1, <3>2 DEF MatchInv, Matching, VersionsKnown
  <2>5. QED BY <2>3, <2>4
<1>7. ASSUME NEW h \in Handlers, NEW c \in Codes, VerifyReads(h, c) PROVE MatchInv'
  <2>1. /\ [Free EXCEPT !.pc = "grant", !.secret = c].pc = "grant"
        /\ [Free EXCEPT !.pc = "grant", !.secret = c].version <= tokens
    BY <1>n DEF Free
  <2>2. QED BY <1>7, <1>r, <2>1 DEF VerifyReads
<1>8. ASSUME NEW h \in Handlers, NEW t \in Tokens, Grant(h, t) PROVE MatchInv'
  <2>1. /\ [handler[h] EXCEPT !.pc = "consume"].pc = "consume"
        /\ [handler[h] EXCEPT !.pc = "consume"].version <= tokens
    BY <1>n DEF AllFit, Request
  <2>2. QED BY <1>8, <1>m, <2>1, QuietMove DEF Grant, Advance, account
<1>9. ASSUME NEW h \in Handlers, Consume(h) PROVE MatchInv'
  BY <1>9, <1>d, <1>m DEF Consume, account
<1>10. ASSUME NEW h \in Handlers, NEW t \in Tokens, NEW new \in Passwords, ResetReads(h, t, new)
       PROVE  MatchInv'
  <2>1. /\ [Free EXCEPT !.pc = "hash", !.secret = t, !.new = new].pc = "hash"
        /\ [Free EXCEPT !.pc = "hash", !.secret = t, !.new = new].version <= tokens
    BY <1>n DEF Free
  <2>2. QED BY <1>10, <1>r, <2>1 DEF ResetReads
<1>11. ASSUME NEW h \in Handlers, Spend(h) PROVE MatchInv'
  BY <1>11, BusyMove DEF Spend, account
<1>12. CASE Stop
  <2>1. \A h \in Handlers : handler'[h] = Free
    BY <1>12 DEF Stop
  <2>2. Revoking \/ lapsed => lapsed'
    BY <1>12 DEF Stop, Revoking
  <2>3. UNCHANGED <<password, tokens, accepted>>
    BY <1>12 DEF Stop
  <2>4. VersionsKnown'
    BY <1>f, <2>1, <2>3 DEF VersionsKnown
  <2>5. CASE Revoking \/ lapsed
    BY <2>2, <2>4, <2>5 DEF MatchInv, Matching
  <2>6. CASE ~(Revoking \/ lapsed)
    BY <1>f, <1>m, <2>1, <2>3, <2>4, <2>6 DEF MatchInv, Matching
  <2>7. QED BY <2>5, <2>6
\* A refresh leaves alone what logins issued.
<1>13. ASSUME NEW h \in Handlers, NEW p \in Passwords, RefreshFinds(h, p) PROVE MatchInv'
  <2>1. /\ [Free EXCEPT !.pc = "found", !.secret = p].pc = "found"
        /\ [Free EXCEPT !.pc = "found", !.secret = p].version <= tokens
    BY <1>n DEF Free
  <2>2. QED BY <1>13, <1>m, <2>1, QuietMove DEF RefreshFinds, account
<1>14. ASSUME NEW h \in Handlers, RefreshReads(h) PROVE MatchInv'
  <2>1. /\ [handler[h] EXCEPT !.pc = "renew", !.version = tokens].pc = "renew"
        /\ [handler[h] EXCEPT !.pc = "renew", !.version = tokens].version <= tokens
    BY <1>n DEF AllFit, Request
  <2>2. QED BY <1>14, <1>m, <2>1, QuietMove DEF RefreshReads, account
<1>15. ASSUME NEW h \in Handlers, RefreshIssues(h) PROVE MatchInv'
  BY <1>15, <1>d, <1>m DEF RefreshIssues
<1>16. CASE UNCHANGED <<password, tokens, accepted, lapsed, handler>>
  BY <1>16 DEF MatchInv, Matching, VersionsKnown, Revoking
<1>17. QED
  <2>1. ASSUME \/ \E h \in Handlers, c \in Codes : Forgot(h, c)
               \/ \E p \in Passwords : SessionsEnd(p)
               \/ CodeExpires
               \/ \E t \in Tokens : TokenExpires(t)
               \/ UNCHANGED recoveryVars
        PROVE  UNCHANGED <<password, tokens, accepted, lapsed, handler>>
    BY <2>1 DEF Forgot, SessionsEnd, CodeExpires, TokenExpires, recoveryVars, account
  <2>2. QED
    BY <1>1, <1>2, <1>3, <1>4, <1>5, <1>6, <1>7, <1>8, <1>9, <1>10, <1>11, <1>12, <1>13,
       <1>14, <1>15, <1>16, <2>1
    DEF RecoveryNext

\* A change of the password ends the access tokens of the logins before it:
\* however many logins, refreshes, changes and resets overlap, one that is still
\* accepted was given for the password of now, unless an increment is on its way
\* or was lost.  Of the access tokens that refreshes issue it says nothing.
THEOREM LoginsEndWithTheirPassword == RecoverySpec => []OldLoginsEnd
<1>1. MatchInv => OldLoginsEnd
  BY DEF MatchInv, Matching, OldLoginsEnd
<1>2. QED BY <1>1, RecoveryTypeInit, RecoveryTypeStep, MatchInit, MatchStep, PTL DEF RecoverySpec

----------------------------------------------------------------------------
(* A reset token serves the requests that overlap, each of them once. *)

\* Where a request is after its step, the others are where they were.
LEMMA AtMove ==
  ASSUME AllFit, NEW h \in Handlers, NEW p, Hold(h, p), NEW pc, NEW t
  PROVE  At(pc, t)' = IF p.pc = pc /\ p.secret = t THEN At(pc, t) \cup {h} ELSE At(pc, t) \ {h}
<1>1. /\ handler'[h] = p
      /\ \A k \in Handlers : k # h => handler'[k] = handler[k]
  BY DEF Hold, AllFit
<1>2. At(pc, t)' = {k \in Handlers : handler'[k].pc = pc /\ handler'[k].secret = t}
  BY DEF At
<1>3. QED BY <1>1, <1>2 DEF At

LEMMA AtFinite ==
  ASSUME NEW pc, NEW t
  PROVE  /\ IsFiniteSet(At(pc, t)) /\ Cardinality(At(pc, t)) \in Nat
         /\ \A S \in SUBSET At(pc, t) : Cardinality(S) \in Nat /\ Cardinality(S) <= Cardinality(At(pc, t))
<1>1. At(pc, t) \in SUBSET Handlers
  BY DEF At
<1>2. IsFiniteSet(At(pc, t))
  BY <1>1, FS_Subset, RecoveryAssumption
<1>3. QED BY <1>2, FS_Subset, FS_CardinalityType

LEMMA HandlersCount == IsFiniteSet(Handlers) /\ Cardinality(Handlers) \in Nat
BY RecoveryAssumption, FS_CardinalityType

\* A step that moves no request to the use or the deletion of a token.
LEMMA SpendingQuiet ==
  ASSUME Fields, Spending, retained \subseteq retained', uses' = uses,
         \A t \in Tokens : /\ reset'[t] # "gone" => reset[t] # "gone"
                           /\ At("del", t)' = At("del", t)
                           /\ At("hash", t)' \subseteq At("hash", t)
  PROVE  Spending'
<1>1. SUFFICES ASSUME NEW t \in Tokens, t \notin retained'
               PROVE  /\ reset'[t] # "gone" => uses'[t] = Cardinality(At("del", t)')
                      /\ uses'[t] + Cardinality(At("hash", t)') <= Cardinality(Handlers)
  BY DEF Spending
<1>2. /\ reset[t] # "gone" => uses[t] = Cardinality(At("del", t))
      /\ uses[t] + Cardinality(At("hash", t)) <= Cardinality(Handlers)
  BY <1>1 DEF Spending
<1>3. /\ Cardinality(At("hash", t)') <= Cardinality(At("hash", t))
      /\ Cardinality(At("hash", t)') \in Nat /\ Cardinality(At("hash", t)) \in Nat
  BY AtFinite
<1>4. uses[t] \in Nat
  BY DEF Fields
<1>5. QED BY <1>2, <1>3, <1>4, HandlersCount

\* One request goes on and is neither before nor after it at such a stage
\* with a token, or it gives up the use of one.
LEMMA SpendingMove ==
  ASSUME Fields, AllFit, Spending, NEW h \in Handlers, NEW p, Hold(h, p),
         handler[h].pc # "del",
         p.pc \in {"hash", "del"} => p.secret \notin Tokens,
         retained' = retained, uses' = uses,
         \A t \in Tokens : reset'[t] # "gone" => reset[t] # "gone"
  PROVE  Spending'
<1>1. ASSUME NEW t \in Tokens
      PROVE  At("del", t)' = At("del", t) /\ At("hash", t)' \subseteq At("hash", t)
  <2>1. At("del", t)' = At("del", t) \ {h} /\ At("hash", t)' = At("hash", t) \ {h}
    BY AtMove
  <2>2. h \notin At("del", t)
    BY DEF At
  <2>3. QED BY <2>1, <2>2
<1>2. QED BY <1>1, SpendingQuiet

LEMMA SpendingInit == RecoveryInit => Spending
<1> SUFFICES ASSUME RecoveryInit, NEW t \in Tokens
             PROVE  /\ uses[t] = Cardinality(At("del", t))
                    /\ uses[t] + Cardinality(At("hash", t)) <= Cardinality(Handlers)
  BY DEF Spending
<1>1. At("del", t) = {} /\ At("hash", t) = {} /\ uses[t] = 0
  BY DEF At, RecoveryInit, Free
<1>2. QED BY <1>1, HandlersCount, FS_EmptySet

\* A request that was let in by a live token.
LEMMA SpendingReads ==
  ASSUME Fields, AllFit, Spending, NEW h \in Handlers, NEW u \in Tokens, NEW new \in Passwords,
         ResetReads(h, u, new)
  PROVE  Spending'
<1> DEFINE p == [Free EXCEPT !.pc = "hash", !.secret = u, !.new = new]
<1>1. p.pc = "hash" /\ p.secret = u /\ Hold(h, p)
  BY DEF ResetReads, Free
<1>2. UNCHANGED <<reset, uses, retained>> /\ handler[h].pc = "idle" /\ reset[u] = "live"
  BY DEF ResetReads, secrets
<1> HIDE DEF p
<1>3. SUFFICES ASSUME NEW t \in Tokens, t \notin retained
               PROVE  /\ reset[t] # "gone" => uses[t] = Cardinality(At("del", t)')
                      /\ uses[t] + Cardinality(At("hash", t)') <= Cardinality(Handlers)
  BY <1>2 DEF Spending
<1>4. /\ reset[t] # "gone" => uses[t] = Cardinality(At("del", t))
      /\ uses[t] + Cardinality(At("hash", t)) <= Cardinality(Handlers)
  BY <1>3 DEF Spending
<1>5. At("del", t)' = At("del", t)
  <2>1. At("del", t)' = At("del", t) \ {h} /\ h \notin At("del", t)
    BY <1>1, <1>2, AtMove DEF At
  <2>2. QED BY <2>1
<1>6. CASE t # u
  <2>1. At("hash", t)' = At("hash", t)
    <3>1. At("hash", t)' = At("hash", t) \ {h} /\ h \notin At("hash", t)
      BY <1>1, <1>2, <1>6, AtMove DEF At
    <3>2. QED BY <3>1
  <2>2. QED BY <1>4, <1>5, <2>1
<1>7. CASE t = u
  <2>1. uses[t] = Cardinality(At("del", t)')
    BY <1>2, <1>4, <1>5, <1>7
  <2> DEFINE D == At("del", t)'  H == At("hash", t)'
  <2>2. D \in SUBSET Handlers /\ H \in SUBSET Handlers /\ D \cap H = {}
    BY DEF At
  <2> HIDE DEF D, H
  <2>3. IsFiniteSet(D) /\ IsFiniteSet(H) /\ Cardinality(D) \in Nat /\ Cardinality(H) \in Nat
    BY <2>2, HandlersCount, FS_Subset, FS_CardinalityType
  <2>4. /\ Cardinality(D \cup H) = Cardinality(D) + Cardinality(H) - Cardinality(D \cap H)
        /\ IsFiniteSet(D \cup H)
    BY <2>3, FS_Union
  <2>5. Cardinality(D \cup H) <= Cardinality(Handlers)
    BY <2>2, HandlersCount, FS_Subset
  <2>6. Cardinality(D \cap H) = 0
    BY <2>2, FS_EmptySet
  <2>7. Cardinality(D) + Cardinality(H) <= Cardinality(Handlers)
    BY <2>3, <2>4, <2>5, <2>6, HandlersCount
  <2>8. QED BY <2>1, <2>7 DEF D, H
<1>8. QED BY <1>6, <1>7

\* The password is changed: a token has one more use, and a request less that
\* can follow.
LEMMA SpendingCommit ==
  ASSUME Fields, AllFit, Spending, NEW h \in Handlers, Commit(h), handler[h].secret \in Tokens
  PROVE  Spending'
<1> DEFINE u == handler[h].secret  p == [handler[h] EXCEPT !.pc = "del"]
<1>1. p.pc = "del" /\ p.secret = u /\ Hold(h, p) /\ Count(u)
  BY DEF Commit, Advance, AllFit, Request
<1>2. UNCHANGED <<reset, retained>> /\ handler[h].pc = "hash"
  BY DEF Commit
<1>u. u \in Tokens /\ handler[h].secret = u
  OBVIOUS
<1> HIDE DEF p, u
<1>3. SUFFICES ASSUME NEW t \in Tokens, t \notin retained
               PROVE  /\ reset[t] # "gone" => uses'[t] = Cardinality(At("del", t)')
                      /\ uses'[t] + Cardinality(At("hash", t)') <= Cardinality(Handlers)
  BY <1>2 DEF Spending
<1>4. /\ reset[t] # "gone" => uses[t] = Cardinality(At("del", t))
      /\ uses[t] + Cardinality(At("hash", t)) <= Cardinality(Handlers)
  BY <1>3 DEF Spending
<1>5. /\ uses \in [Tokens -> Nat]
      /\ Cardinality(At("hash", t)) \in Nat /\ IsFiniteSet(At("hash", t))
      /\ Cardinality(At("del", t)) \in Nat /\ IsFiniteSet(At("del", t))
  BY AtFinite DEF Fields
<1>6. CASE t # u
  <2>1. uses'[t] = uses[t]
    BY <1>1, <1>5, <1>6 DEF Count
  <2>2. At("del", t)' = At("del", t) \ {h} /\ At("hash", t)' = At("hash", t) \ {h}
    BY <1>1, <1>6, AtMove
  <2>3. h \notin At("del", t) /\ h \notin At("hash", t)
    BY <1>u, <1>6 DEF At
  <2>4. At("del", t)' = At("del", t) /\ At("hash", t)' = At("hash", t)
    BY <2>2, <2>3
  <2>5. QED BY <1>4, <2>1, <2>4
<1>7. CASE t = u
  <2>1. uses'[t] = uses[t] + 1
    BY <1>1, <1>3, <1>5, <1>7 DEF Count
  <2>2. At("del", t)' = At("del", t) \cup {h} /\ At("hash", t)' = At("hash", t) \ {h}
    BY <1>1, <1>7, AtMove
  <2>3. h \notin At("del", t) /\ h \in At("hash", t)
    BY <1>u, <1>2, <1>7 DEF At
  <2>4. /\ Cardinality(At("del", t)') = Cardinality(At("del", t)) + 1
        /\ Cardinality(At("hash", t)') = Cardinality(At("hash", t)) - 1
    BY <1>5, <2>2, <2>3, FS_AddElement, FS_RemoveElement
  <2>5. QED BY <1>4, <1>5, <2>1, <2>4, HandlersCount
<1>8. QED BY <1>6, <1>7

\* The token's key is gone, or its deletion was lost.
LEMMA SpendingSpend ==
  ASSUME Fields, AllFit, Spending, NEW h \in Handlers, Spend(h)
  PROVE  Spending'
<1> DEFINE u == handler[h].secret  p == [handler[h] EXCEPT !.pc = "revoke"]
<1>1. p.pc = "revoke" /\ Hold(h, p)
  BY DEF Spend, Advance, AllFit, Request
<1>2. /\ uses' = uses /\ handler[h].pc = "del"
      /\ \/ reset' = [reset EXCEPT ![u] = "gone"] /\ retained' = retained
         \/ retained' = retained \cup {u} /\ reset' = reset
  BY DEF Spend
<1>u. u \in Tokens /\ handler[h].secret = u
  BY DEF Spend, AllFit, Fit
<1> HIDE DEF p, u
<1>3. SUFFICES ASSUME NEW t \in Tokens, t \notin retained'
               PROVE  /\ reset'[t] # "gone" => uses[t] = Cardinality(At("del", t)')
                      /\ uses[t] + Cardinality(At("hash", t)') <= Cardinality(Handlers)
  BY <1>2 DEF Spending
<1>4. /\ reset[t] # "gone" => uses[t] = Cardinality(At("del", t))
      /\ uses[t] + Cardinality(At("hash", t)) <= Cardinality(Handlers)
  BY <1>2, <1>3 DEF Spending
<1>5. At("hash", t)' = At("hash", t)
  <2>1. At("hash", t)' = At("hash", t) \ {h} /\ h \notin At("hash", t)
    BY <1>1, <1>2, AtMove DEF At
  <2>2. QED BY <2>1
<1>6. CASE t # u
  <2>1. At("del", t)' = At("del", t) \ {h} /\ h \notin At("del", t)
    BY <1>1, <1>u, <1>6, AtMove DEF At
  <2>2. reset'[t] = reset[t]
    BY <1>2, <1>6 DEF Fields
  <2>3. QED BY <1>4, <1>5, <2>1, <2>2
<1>7. CASE t = u
  <2>1. reset'[t] = "gone"
    BY <1>2, <1>3, <1>7 DEF Fields
  <2>2. QED BY <1>4, <1>5, <2>1
<1>8. QED BY <1>6, <1>7

LEMMA SpendingStep == RecoveryTypeOK /\ Spending /\ [RecoveryNext]_recoveryVars => Spending'
<1> SUFFICES ASSUME Fields, AllFit, Spending, [RecoveryNext]_recoveryVars PROVE Spending'
  BY RecoveryTypeParts
<1>f. Free.pc = "idle"
  BY DEF Free
<1>s. NoSecret \notin Tokens /\ (\A t \in Tokens : reset[t] \in {"fresh", "live", "gone"})
  BY RecoveryAssumption DEF Fields
<1>1. ASSUME NEW h \in Handlers, LoginReads(h) PROVE Spending'
  BY <1>1, SpendingMove DEF LoginReads, secrets
<1>2. ASSUME NEW h \in Handlers, LoginIssues(h) PROVE Spending'
  BY <1>2, <1>f, SpendingMove DEF LoginIssues, Done, secrets
<1>3. ASSUME NEW h \in Handlers, NEW new \in Passwords, ChangeReads(h, new) PROVE Spending'
  <2> DEFINE p == [Free EXCEPT !.pc = "hash", !.new = new]
  <2>1. Hold(h, p) /\ p.secret = NoSecret
    BY <1>3 DEF ChangeReads, Free
  <2> HIDE DEF p
  <2>2. QED BY <1>3, <1>s, <2>1, SpendingMove DEF ChangeReads, secrets
<1>4. ASSUME NEW h \in Handlers, Commit(h) PROVE Spending'
  <2>1. CASE handler[h].secret \in Tokens
    BY <1>4, <2>1, SpendingCommit
  <2>2. CASE handler[h].secret \notin Tokens
    <3>1. [handler[h] EXCEPT !.pc = "revoke"].pc = "revoke"
      BY DEF AllFit, Request
    <3>2. QED BY <1>4, <2>2, <3>1, SpendingMove DEF Commit, Advance
  <2>3. QED BY <2>1, <2>2
<1>5. ASSUME NEW h \in Handlers, Abort(h) PROVE Spending'
  BY <1>5, <1>f, SpendingMove DEF Abort, Done, secrets
<1>6. ASSUME NEW h \in Handlers, Revoke(h) PROVE Spending'
  BY <1>6, <1>f, SpendingMove DEF Revoke, Done, secrets
<1>7. ASSUME NEW h \in Handlers, NEW c \in Codes, Forgot(h, c) PROVE Spending'
  BY <1>7, SpendingQuiet DEF Forgot, At
<1>8. ASSUME NEW h \in Handlers, NEW c \in Codes, VerifyReads(h, c) PROVE Spending'
  <2> DEFINE p == [Free EXCEPT !.pc = "grant", !.secret = c]
  <2>1. Hold(h, p) /\ p.pc = "grant"
    BY <1>8 DEF VerifyReads, Free
  <2> HIDE DEF p
  <2>2. QED BY <1>8, <2>1, SpendingMove DEF VerifyReads, secrets
<1>9. ASSUME NEW h \in Handlers, NEW t \in Tokens, Grant(h, t) PROVE Spending'
  <2>1. [handler[h] EXCEPT !.pc = "consume"].pc = "consume"
    BY DEF AllFit, Request
  <2>2. \A u \in Tokens : reset'[u] # "gone" => reset[u] # "gone"
    BY <1>9 DEF Grant, Fields
  <2>3. QED BY <1>9, <2>1, <2>2, SpendingMove DEF Grant, Advance
<1>10. ASSUME NEW h \in Handlers, Consume(h) PROVE Spending'
  BY <1>10, <1>f, SpendingMove DEF Consume, Done
<1>11. ASSUME NEW h \in Handlers, NEW t \in Tokens, NEW new \in Passwords, ResetReads(h, t, new)
       PROVE  Spending'
  BY <1>11, SpendingReads
<1>12. ASSUME NEW h \in Handlers, Spend(h) PROVE Spending'
  BY <1>12, SpendingSpend
<1>13. CASE CodeExpires
  BY <1>13, SpendingQuiet DEF CodeExpires, At
<1>14. ASSUME NEW t \in Tokens, TokenExpires(t) PROVE Spending'
  <2>1. \A u \in Tokens : reset'[u] # "gone" => reset[u] # "gone"
    BY <1>14 DEF TokenExpires, Fields
  <2>2. QED BY <1>14, <2>1, SpendingQuiet DEF TokenExpires, At
<1>15. CASE Stop
  <2>1. SUFFICES ASSUME NEW t \in Tokens, t \notin retained'
                 PROVE  /\ reset[t] # "gone" => uses[t] = Cardinality(At("del", t)')
                        /\ uses[t] + Cardinality(At("hash", t)') <= Cardinality(Handlers)
    BY <1>15 DEF Stop, Spending
  <2>2. /\ reset[t] # "gone" => uses[t] = Cardinality(At("del", t))
        /\ uses[t] + Cardinality(At("hash", t)) <= Cardinality(Handlers)
        /\ uses[t] \in Nat
    BY <1>15, <2>1 DEF Stop, Spending, Fields
  <2>3. At("del", t) = {} /\ At("del", t)' = {} /\ At("hash", t)' = {}
    BY <1>15, <1>f, <2>1 DEF Stop, At
  <2>4. Cardinality({}) = 0 /\ Cardinality(At("hash", t)) \in Nat
    BY FS_EmptySet, AtFinite
  <2>5. /\ Cardinality(At("del", t)) = 0
        /\ Cardinality(At("del", t)') = 0
        /\ Cardinality(At("hash", t)') = 0
    BY <2>3, <2>4
  <2>6. QED BY <2>2, <2>4, <2>5, HandlersCount
<1>16. ASSUME NEW h \in Handlers, NEW p \in Passwords, RefreshFinds(h, p) PROVE Spending'
  <2> DEFINE q == [Free EXCEPT !.pc = "found", !.secret = p]
  <2>1. Hold(h, q) /\ q.pc = "found"
    BY <1>16 DEF RefreshFinds, Free
  <2> HIDE DEF q
  <2>2. QED BY <1>16, <2>1, SpendingMove DEF RefreshFinds, secrets
<1>17. ASSUME NEW h \in Handlers, RefreshReads(h) PROVE Spending'
  <2> DEFINE q == [handler[h] EXCEPT !.pc = "renew", !.version = tokens]
  <2>1. Hold(h, q) /\ q.pc = "renew"
    BY <1>17 DEF RefreshReads, AllFit, Request
  <2> HIDE DEF q
  <2>2. QED BY <1>17, <2>1, SpendingMove DEF RefreshReads, secrets
<1>18. ASSUME NEW h \in Handlers, RefreshIssues(h) PROVE Spending'
  BY <1>18, <1>f, SpendingMove DEF RefreshIssues, Done, secrets
<1>19. ASSUME NEW p \in Passwords, SessionsEnd(p) PROVE Spending'
  BY <1>19, SpendingQuiet DEF SessionsEnd, secrets, At
<1>20. CASE UNCHANGED recoveryVars
  BY <1>20, SpendingQuiet DEF recoveryVars, secrets, At
<1>21. QED
  BY <1>1, <1>2, <1>3, <1>4, <1>5, <1>6, <1>7, <1>8, <1>9, <1>10, <1>11, <1>12,
     <1>13, <1>14, <1>15, <1>16, <1>17, <1>18, <1>19, <1>20
  DEF RecoveryNext

\* A reset token whose deletion was not lost is used by no more requests than
\* can overlap, and while it is live somebody is about to delete it after its
\* first use: however resets, logins, expiries and stops interleave.
THEOREM TokensServeOnce == RecoverySpec => []SingleUse
<1>1. RecoveryTypeOK /\ Spending => SingleUse
  <2> SUFFICES ASSUME RecoveryTypeOK, Spending, NEW t \in Tokens, uses[t] > 0, t \notin retained
               PROVE  /\ reset[t] = "live" =>
                           \E h \in Handlers : handler[h].pc = "del" /\ handler[h].secret = t
                      /\ uses[t] <= Cardinality(Handlers)
    BY DEF SingleUse
  <2>1. /\ reset[t] # "gone" => uses[t] = Cardinality(At("del", t))
        /\ uses[t] + Cardinality(At("hash", t)) <= Cardinality(Handlers)
        /\ uses[t] \in Nat
    BY DEF Spending, RecoveryTypeOK
  <2>2. Cardinality(At("hash", t)) \in Nat
    BY AtFinite
  <2>3. CASE reset[t] = "live"
    <3>0. Cardinality({}) = 0
      BY FS_EmptySet
    <3>1. At("del", t) # {}
      <4> SUFFICES ASSUME At("del", t) = {} PROVE FALSE
        OBVIOUS
      <4>1. uses[t] = Cardinality(At("del", t))
        BY <2>1, <2>3
      <4>2. Cardinality(At("del", t)) = 0
        BY <3>0, Zenon
      <4>3. QED BY <4>1, <4>2
    <3>2. QED BY <2>1, <2>2, <3>1, HandlersCount DEF At
  <2>4. QED BY <2>1, <2>2, <2>3, HandlersCount
<1>2. QED
  BY <1>1, RecoveryTypeInit, RecoveryTypeStep, SpendingInit, SpendingStep, PTL DEF RecoverySpec

----------------------------------------------------------------------------
(* Throttle. *)

Commands == {"idle", "incr", "expire", "lock"}

LEMMA ThrottleTypeInit == ThrottleInit => ThrottleTypeOK
<1> SUFFICES ASSUME ThrottleInit PROVE ThrottleTypeOK
  OBVIOUS
<1>1. count \in 0..CountBound /\ countTTL \in 0..Forever /\ lockTTL \in 0..Window
  BY ThrottleAssumption DEF ThrottleInit, Forever
<1>2. /\ caller \in [Callers -> {"idle", "incr", "expire", "lock"}]
      /\ passed \in [1..Window -> Nat]
      /\ lost \in BOOLEAN
  BY DEF ThrottleInit
<1>3. QED BY <1>1, <1>2 DEF ThrottleTypeOK

LEMMA AwaitType ==
  ASSUME ThrottleTypeOK, NEW c \in Callers, NEW command \in Commands, Await(c, command)
  PROVE  caller' \in [Callers -> Commands]
BY DEF ThrottleTypeOK, Await, Commands

LEMMA PassType ==
  ASSUME ThrottleTypeOK, NEW c \in Callers, Pass(c)
  PROVE  caller' \in [Callers -> Commands] /\ passed' \in [1..Window -> Nat]
<1>1. passed' \in [1..Window -> Nat]
  BY ThrottleAssumption DEF ThrottleTypeOK, Pass
<1>2. QED BY <1>1, AwaitType DEF Pass, Commands

LEMMA RefuseType ==
  ASSUME ThrottleTypeOK, NEW c \in Callers, Refuse(c)
  PROVE  caller' \in [Callers -> Commands] /\ passed' = passed
BY AwaitType DEF Refuse, Commands

LEMMA ThrottleTypeStep == ThrottleTypeOK /\ [ThrottleNext]_throttleVars => ThrottleTypeOK'
<1> SUFFICES ASSUME ThrottleTypeOK, [ThrottleNext]_throttleVars PROVE ThrottleTypeOK'
  OBVIOUS
<1>n. /\ Window \in Nat \ {0} /\ Forever = Window + 1 /\ CountBound \in Nat
      /\ count \in 0..CountBound /\ countTTL \in 0..Forever /\ lockTTL \in 0..Window
      /\ lost \in BOOLEAN /\ caller \in [Callers -> Commands]
      /\ passed \in [1..Window -> Nat]
  BY ThrottleAssumption DEF ThrottleTypeOK, Forever, Commands
<1>a. (/\ count' \in 0..CountBound /\ countTTL' \in 0..Forever /\ lockTTL' \in 0..Window
       /\ lost' \in BOOLEAN /\ caller' \in [Callers -> Commands]
       /\ passed' \in [1..Window -> Nat]) => ThrottleTypeOK'
  BY DEF ThrottleTypeOK, Forever, Commands
<1>1. ASSUME NEW c \in Callers, CheckLock(c) PROVE ThrottleTypeOK'
  <2>1. UNCHANGED <<count, countTTL, lockTTL, lost>>
    BY <1>1 DEF CheckLock
  <2>2. caller' \in [Callers -> Commands] /\ passed' = passed
    BY <1>1, RefuseType, AwaitType DEF CheckLock, Commands
  <2>3. QED BY <1>n, <1>a, <2>1, <2>2
<1>2. ASSUME NEW c \in Callers, Increment(c) PROVE ThrottleTypeOK'
  <2>1. count' \in 0..CountBound /\ UNCHANGED <<countTTL, lockTTL, lost>>
    BY <1>2, <1>n DEF Increment
  <2>2. caller' \in [Callers -> Commands] /\ passed' \in [1..Window -> Nat]
    BY <1>2, <1>n, AwaitType, PassType DEF Increment, Commands
  <2>3. QED BY <1>n, <1>a, <2>1, <2>2
<1>3. ASSUME NEW c \in Callers, IncrementFails(c) PROVE ThrottleTypeOK'
  <2>1. caller' \in [Callers -> Commands]
    BY <1>3, AwaitType DEF IncrementFails, Commands
  <2>2. QED BY <1>3, <1>n, <1>a, <2>1 DEF IncrementFails
<1>10. ASSUME NEW c \in Callers, IncrementLost(c) PROVE ThrottleTypeOK'
  <2>1. count' \in 0..CountBound /\ UNCHANGED <<countTTL, lockTTL, passed>>
    BY <1>10, <1>n DEF IncrementLost
  <2>2. lost' \in BOOLEAN
    BY <1>10, <1>n, Zenon DEF IncrementLost
  <2>3. caller' \in [Callers -> Commands]
    BY <1>10, AwaitType DEF IncrementLost, Commands
  <2>4. QED BY <1>n, <1>a, <2>1, <2>2, <2>3
<1>4. ASSUME NEW c \in Callers, SetExpiry(c) PROVE ThrottleTypeOK'
  <2>1. countTTL' \in 0..Forever /\ UNCHANGED <<count, lockTTL>>
    BY <1>4, <1>n DEF SetExpiry
  <2>2. lost' \in BOOLEAN
    BY <1>4, <1>n, Zenon DEF SetExpiry
  <2>3. caller' \in [Callers -> Commands] /\ passed' \in [1..Window -> Nat]
    BY <1>4, PassType DEF SetExpiry
  <2>4. QED BY <1>n, <1>a, <2>1, <2>2, <2>3
<1>5. ASSUME NEW c \in Callers, SetLock(c) PROVE ThrottleTypeOK'
  <2>1. lockTTL' \in 0..Window /\ UNCHANGED <<count, countTTL, lost>>
    BY <1>5, <1>n DEF SetLock
  <2>2. caller' \in [Callers -> Commands] /\ passed' = passed
    BY <1>5, RefuseType DEF SetLock
  <2>3. QED BY <1>n, <1>a, <2>1, <2>2
<1>6. CASE Die
  <2>1. caller' \in [Callers -> Commands] /\ UNCHANGED <<count, countTTL, lockTTL, passed>>
    BY <1>6 DEF Die, Commands
  <2>2. lost' \in BOOLEAN
    BY <1>6, Zenon DEF Die
  <2>3. QED BY <1>n, <1>a, <2>1, <2>2
<1>7. CASE Tick
  <2>1. count' \in 0..CountBound /\ countTTL' \in 0..Forever
    BY <1>7, <1>n DEF Tick
  <2>2. lockTTL' \in 0..Window
    BY <1>7, <1>n DEF Tick
  <2>3. passed' \in [1..Window -> Nat]
    BY <1>7, <1>n DEF Tick
  <2>4. QED BY <1>7, <1>n, <1>a, <2>1, <2>2, <2>3 DEF Tick
<1>8. CASE UNCHANGED throttleVars
  BY <1>8, <1>n, <1>a DEF throttleVars
<1>9. QED
  BY <1>1, <1>2, <1>3, <1>4, <1>5, <1>6, <1>7, <1>8, <1>10 DEF ThrottleNext, Command

\* Type correctness of every reachable state of checkRateLimit: the counter,
\* both TTLs and the calls in flight stay well-formed, whichever of Redis'
\* commands fail and whenever the process stops.
THEOREM ThrottleTyping == ThrottleSpec => []ThrottleTypeOK
<1>1. QED BY ThrottleTypeInit, ThrottleTypeStep, PTL DEF ThrottleSpec

----------------------------------------------------------------------------
(* In no window the limiter lets through more than twice the limit. *)

BoundInv == OneCreator /\ TwoCounters

LEMMA ThrottleNumbers ==
  ASSUME ThrottleTypeOK
  PROVE  /\ MaxHits \in Nat /\ MaxHits > 0 /\ Window \in Nat /\ Window > 0
         /\ count \in Nat /\ countTTL \in Nat /\ Forever = Window + 1
         /\ \A i \in 1..Window : passed[i] \in Nat
         /\ 1 \in 1..Window /\ Window \in 1..Window
BY ThrottleAssumption DEF ThrottleTypeOK, Forever

LEMMA AdmittedValue ==
  ASSUME ThrottleTypeOK, OneCreator
  PROVE  /\ Creating => Admitted = (IF count <= MaxHits THEN count ELSE MaxHits) - 1
         /\ ~Creating => Admitted = IF count <= MaxHits THEN count ELSE MaxHits
         /\ Creating => count > 0 /\ countTTL = Forever
         /\ Admitted \in Nat /\ Admitted <= MaxHits
<1>1. Creating => count > 0 /\ countTTL = Forever
  BY DEF Creating, OneCreator
<1>2. /\ Creating => Admitted = (IF count <= MaxHits THEN count ELSE MaxHits) - 1
      /\ ~Creating => Admitted = IF count <= MaxHits THEN count ELSE MaxHits
  BY ThrottleNumbers DEF Admitted, Creating
<1>3. QED BY <1>1, <1>2, ThrottleNumbers

LEMMA BoundInit == ThrottleInit => BoundInv
<1> SUFFICES ASSUME ThrottleInit PROVE BoundInv
  OBVIOUS
<1>1. ThrottleTypeOK /\ ~Creating /\ OneCreator
  BY ThrottleTypeInit DEF ThrottleInit, Creating, OneCreator
<1>2. Admitted = 0
  BY <1>1, AdmittedValue, ThrottleNumbers DEF ThrottleInit
<1>3. QED BY <1>1, <1>2, ThrottleNumbers DEF ThrottleInit, BoundInv, TwoCounters

\* A step of the other commands.
LEMMA BoundQuiet ==
  ASSUME BoundInv, UNCHANGED <<count, countTTL, passed>>,
         \A d \in Callers : caller'[d] = "expire" <=> caller[d] = "expire"
  PROVE  BoundInv'
<1>1. (Creating' <=> Creating) /\ OneCreator'
  BY DEF Creating, BoundInv, OneCreator, Forever
<1>2. Admitted' = Admitted
  BY <1>1 DEF Admitted
<1>3. QED BY <1>1, <1>2 DEF BoundInv, TwoCounters, Forever

\* A call passes, and the counter admitted one more.
LEMMA BoundPass ==
  ASSUME ThrottleTypeOK, BoundInv, NEW c \in Callers, Pass(c), count' > 0,
         OneCreator', Admitted' = Admitted + 1,
         countTTL' = countTTL \/ countTTL' = Window
  PROVE  BoundInv'
<1>1. \A i \in 1..Window : passed'[i] = passed[i] + 1
  BY DEF Pass
<1>2. Admitted \in Nat
  BY AdmittedValue DEF BoundInv
<1>3. /\ \A i, j \in 1..Window : i <= j => passed[i] <= passed[j]
      /\ passed[1] <= Admitted
      /\ passed[Window] <= MaxHits + Admitted
      /\ countTTL # Forever => countTTL > 0 /\ passed[Window - countTTL + 1] <= Admitted
  BY DEF BoundInv, TwoCounters
<1>4. /\ \A i, j \in 1..Window : i <= j => passed'[i] <= passed'[j]
      /\ passed'[1] <= Admitted'
      /\ passed'[Window] <= MaxHits + Admitted'
  BY <1>1, <1>2, <1>3, ThrottleNumbers
<1>5. countTTL' # Forever => countTTL' > 0 /\ passed'[Window - countTTL' + 1] <= Admitted'
  <2>1. CASE countTTL' = Window
    <3>1. Window - countTTL' + 1 = 1
      BY <2>1, ThrottleNumbers
    <3>2. QED BY <1>4, <2>1, <3>1, ThrottleNumbers
  <2>2. CASE countTTL' = countTTL
    <3>1. SUFFICES ASSUME countTTL # Forever
                   PROVE  countTTL > 0 /\ passed'[Window - countTTL + 1] <= Admitted'
      BY <2>2
    <3>2. countTTL \in 0..Forever
      BY DEF ThrottleTypeOK
    <3>3. Window - countTTL + 1 \in 1..Window
      BY <1>3, <3>1, <3>2, ThrottleNumbers
    <3>4. QED BY <1>1, <1>2, <1>3, <3>1, <3>3, ThrottleNumbers
  <2>3. QED BY <2>1, <2>2
<1>6. QED BY <1>4, <1>5, ThrottleNumbers DEF BoundInv, TwoCounters, Forever

LEMMA BoundIncrement ==
  ASSUME ThrottleTypeOK, ThrottleTypeOK', BoundInv, NEW c \in Callers, Increment(c)
  PROVE  BoundInv'
<1>1. /\ caller[c] = "incr" /\ count' = count + 1 /\ countTTL' = countTTL
      /\ caller \in [Callers -> {"idle", "incr", "expire", "lock"}]
  BY DEF Increment, ThrottleTypeOK
<1>2. CASE count + 1 = 1
  <2>1. Await(c, "expire") /\ passed' = passed /\ count = 0
    BY <1>1, <1>2, ThrottleNumbers DEF Increment
  <2>2. ~Creating /\ countTTL = Forever
    BY <2>1 DEF BoundInv, OneCreator, TwoCounters, Creating
  <2>3. /\ caller'[c] = "expire"
        /\ \A d \in Callers : caller'[d] = "expire" => d = c
    BY <1>1, <2>1, <2>2 DEF Await, Creating
  <2>4. OneCreator' /\ Creating'
    BY <1>1, <2>1, <2>2, <2>3 DEF OneCreator, Creating, Forever
  <2>5. Admitted = 0
    BY <2>1, <2>2, AdmittedValue, ThrottleNumbers DEF BoundInv
  <2>6. Admitted' = 0
    <3>1. count' = 1
      BY <1>1, <2>1
    <3>2. QED BY <2>4, <3>1, ThrottleNumbers DEF Admitted
  <2>7. QED BY <1>1, <2>1, <2>2, <2>4, <2>5, <2>6 DEF BoundInv, TwoCounters, Forever
<1>3. CASE count + 1 # 1
  <2>1. \/ OverLimit(count + 1) /\ Await(c, "lock") /\ UNCHANGED passed
        \/ ~OverLimit(count + 1) /\ Pass(c)
    BY <1>3 DEF Increment
  <2>2. /\ \A d \in Callers : caller'[d] = "expire" <=> caller[d] = "expire"
    BY <1>1, <2>1 DEF Await, Pass
  <2>3. OneCreator' /\ (Creating' <=> Creating) /\ count > 0
    BY <1>1, <1>3, <2>2, ThrottleNumbers DEF OneCreator, BoundInv, Creating, Forever
  <2>4. /\ Creating => Admitted' = (IF count' <= MaxHits THEN count' ELSE MaxHits) - 1
        /\ ~Creating => Admitted' = IF count' <= MaxHits THEN count' ELSE MaxHits
    BY <2>3 DEF Admitted
  <2>5. CASE OverLimit(count + 1)
    <3>1. Admitted' = Admitted /\ passed' = passed
      BY <1>1, <2>1, <2>3, <2>4, <2>5, AdmittedValue, ThrottleNumbers DEF OverLimit, BoundInv
    <3>2. QED BY <1>1, <2>3, <3>1, ThrottleNumbers DEF BoundInv, TwoCounters, Forever
  <2>6. CASE ~OverLimit(count + 1)
    <3>1. Admitted' = Admitted + 1
      BY <1>1, <2>3, <2>4, <2>6, AdmittedValue, ThrottleNumbers DEF OverLimit, BoundInv
    <3>2. QED BY <1>1, <2>1, <2>3, <2>6, <3>1, BoundPass, ThrottleNumbers
  <2>7. QED BY <2>5, <2>6
<1>4. QED BY <1>2, <1>3

LEMMA BoundExpiry ==
  ASSUME ThrottleTypeOK, BoundInv, NEW c \in Callers, SetExpiry(c)
  PROVE  BoundInv'
<1>1. /\ caller[c] = "expire" /\ Pass(c) /\ count' = count
      /\ countTTL' = Window \/ countTTL' = countTTL
      /\ caller \in [Callers -> {"idle", "incr", "expire", "lock"}]
  BY DEF SetExpiry, ThrottleTypeOK
<1>2. Creating /\ count > 0 /\ countTTL = Forever
  BY <1>1 DEF Creating, BoundInv, OneCreator
<1>3. \A d \in Callers : caller'[d] # "expire"
  BY <1>1 DEF BoundInv, OneCreator, Pass, Await
<1>4. OneCreator' /\ ~Creating'
  BY <1>3 DEF OneCreator, Creating
<1>5. Admitted' = IF count <= MaxHits THEN count ELSE MaxHits
  BY <1>1, <1>4 DEF Admitted
<1>6. Admitted' = Admitted + 1
  BY <1>2, <1>5, AdmittedValue, ThrottleNumbers DEF BoundInv
<1>7. QED BY <1>1, <1>2, <1>4, <1>6, BoundPass

LEMMA BoundTick ==
  ASSUME ThrottleTypeOK, BoundInv, Tick
  PROVE  BoundInv'
<1>1. /\ caller' = caller
      /\ \A i \in 1..Window : passed'[i] = IF i = 1 THEN 0 ELSE passed[i - 1]
      /\ IF countTTL = Forever THEN UNCHANGED <<count, countTTL>>
         ELSE IF countTTL > 1 THEN countTTL' = countTTL - 1 /\ UNCHANGED count
         ELSE countTTL' = Forever /\ count' = 0
  BY DEF Tick
<1>2. /\ count = 0 => countTTL = Forever
      /\ \A i, j \in 1..Window : i <= j => passed[i] <= passed[j]
      /\ passed[1] <= Admitted
      /\ passed[Window] <= MaxHits + Admitted
      /\ countTTL # Forever => countTTL > 0 /\ passed[Window - countTTL + 1] <= Admitted
  BY DEF BoundInv, TwoCounters
<1>3. Admitted \in Nat /\ Admitted <= MaxHits
  BY AdmittedValue DEF BoundInv
<1>4. \A i, j \in 1..Window : i <= j => passed'[i] <= passed'[j]
  BY <1>1, <1>2, ThrottleNumbers
<1>5. passed'[1] = 0 /\ passed'[Window] <= passed[Window]
  <2>1. passed'[1] = 0
    BY <1>1, ThrottleNumbers
  <2>2. CASE Window = 1
    BY <2>1, <2>2, ThrottleNumbers
  <2>3. CASE Window # 1
    <3>1. Window - 1 \in 1..Window /\ passed'[Window] = passed[Window - 1]
      BY <1>1, <2>3, ThrottleNumbers
    <3>2. QED BY <1>2, <2>1, <3>1, ThrottleNumbers
  <2>4. QED BY <2>2, <2>3
<1>6. passed'[Window] \in Nat
  BY <1>1, ThrottleNumbers
<1>7. CASE countTTL = Forever
  <2>0. count' = count /\ countTTL' = countTTL /\ (Creating' <=> Creating) /\ OneCreator'
    BY <1>1, <1>7 DEF Creating, OneCreator, BoundInv, Forever
  <2>1. count' = count /\ countTTL' = countTTL /\ Admitted' = Admitted /\ OneCreator'
    BY <2>0 DEF Admitted
  <2>2. passed'[Window] <= MaxHits + Admitted'
    BY <1>2, <1>3, <1>5, <1>6, <2>1, ThrottleNumbers
  <2>3. QED BY <1>2, <1>3, <1>4, <1>5, <1>7, <2>1, <2>2 DEF BoundInv, TwoCounters, Forever
<1>8. CASE countTTL # Forever
  <2>1. ~Creating /\ ~Creating' /\ OneCreator'
    BY <1>1, <1>8 DEF BoundInv, OneCreator, Creating
  <2>2. countTTL \in 1..Window
    BY <1>2, <1>8, ThrottleNumbers DEF ThrottleTypeOK
  <2>3. CASE countTTL > 1
    <3>1. count' = count /\ countTTL' = countTTL - 1
      BY <1>1, <1>8, <2>3
    <3>2. Admitted' = Admitted
      BY <2>1, <3>1 DEF Admitted
    <3>3. passed'[Window - countTTL' + 1] = passed[Window - countTTL + 1]
      BY <1>1, <2>2, <2>3, <3>1, ThrottleNumbers
    <3>4. passed'[Window] <= MaxHits + Admitted'
      BY <1>2, <1>3, <1>5, <1>6, <3>2, ThrottleNumbers
    <3>5. QED
      BY <1>2, <1>3, <1>4, <1>5, <1>8, <2>1, <2>2, <2>3, <3>1, <3>2, <3>3, <3>4, ThrottleNumbers
      DEF BoundInv, TwoCounters, Forever
  <2>4. CASE countTTL = 1
    <3>1. count' = 0 /\ countTTL' = Forever
      BY <1>1, <1>8, <2>4
    <3>2. Admitted' = 0
      BY <2>1, <3>1, ThrottleNumbers DEF Admitted, Creating
    <3>3. passed[Window] <= Admitted
      BY <1>2, <1>8, <2>4, ThrottleNumbers
    <3>4. passed'[Window] <= MaxHits
      BY <1>3, <1>5, <1>6, <3>3, ThrottleNumbers
    <3>5. QED
      BY <1>4, <1>5, <1>6, <2>1, <3>1, <3>2, <3>4, ThrottleNumbers
      DEF BoundInv, TwoCounters, Forever
  <2>5. QED BY <2>2, <2>3, <2>4
<1>9. QED BY <1>7, <1>8

\* The counter goes up, or its creator gives up, and no call passes by count.
LEMMA BoundGrows ==
  ASSUME ThrottleTypeOK, ThrottleTypeOK', BoundInv, UNCHANGED <<countTTL, passed>>, OneCreator',
         count' = count \/ (count' = count + 1 /\ (count = 0 => countTTL = Forever)),
         Creating' => Creating
  PROVE  BoundInv'
<1>1. /\ Creating => Admitted = (IF count <= MaxHits THEN count ELSE MaxHits) - 1
      /\ ~Creating => Admitted = IF count <= MaxHits THEN count ELSE MaxHits
      /\ Creating => count > 0
  BY AdmittedValue DEF BoundInv
<1>2. /\ Creating' => Admitted' = (IF count' <= MaxHits THEN count' ELSE MaxHits) - 1
      /\ ~Creating' => Admitted' = IF count' <= MaxHits THEN count' ELSE MaxHits
  BY DEF Admitted
<1>3. Admitted <= Admitted' /\ Admitted \in Nat /\ Admitted' \in Nat
  BY <1>1, <1>2, ThrottleNumbers
<1>4. countTTL # Forever => Window - countTTL + 1 \in 1..Window
  BY ThrottleNumbers, SMTT(30) DEF BoundInv, TwoCounters, ThrottleTypeOK
<1>5. count' = 0 => countTTL = Forever
  BY ThrottleNumbers DEF BoundInv, TwoCounters
<1>6. QED BY <1>3, <1>4, <1>5, ThrottleNumbers DEF BoundInv, TwoCounters, Forever

LEMMA BoundStep ==
  ThrottleTypeOK /\ ThrottleTypeOK' /\ BoundInv /\ [ThrottleNext]_throttleVars => BoundInv'
<1> SUFFICES ASSUME ThrottleTypeOK, ThrottleTypeOK', BoundInv, [ThrottleNext]_throttleVars
             PROVE  BoundInv'
  OBVIOUS
<1>n. caller \in [Callers -> {"idle", "incr", "expire", "lock"}]
  BY DEF ThrottleTypeOK
<1>1. ASSUME NEW c \in Callers, CheckLock(c) PROVE BoundInv'
  <2>1. /\ UNCHANGED <<count, countTTL, passed>>
        /\ \A d \in Callers : caller'[d] = "expire" <=> caller[d] = "expire"
    BY <1>n, <1>1 DEF CheckLock, Refuse, Await
  <2>2. QED BY <2>1, BoundQuiet
<1>2. ASSUME NEW c \in Callers, Increment(c) PROVE BoundInv'
  BY <1>2, BoundIncrement
<1>3. ASSUME NEW c \in Callers, IncrementFails(c) PROVE BoundInv'
  <2>1. /\ UNCHANGED <<count, countTTL, passed>>
        /\ \A d \in Callers : caller'[d] = "expire" <=> caller[d] = "expire"
    BY <1>n, <1>3 DEF IncrementFails, Await
  <2>2. QED BY <2>1, BoundQuiet
<1>4. ASSUME NEW c \in Callers, SetExpiry(c) PROVE BoundInv'
  BY <1>4, BoundExpiry
<1>5. ASSUME NEW c \in Callers, SetLock(c) PROVE BoundInv'
  <2>1. /\ UNCHANGED <<count, countTTL, passed>>
        /\ \A d \in Callers : caller'[d] = "expire" <=> caller[d] = "expire"
    BY <1>n, <1>5 DEF SetLock, Refuse, Await
  <2>2. QED BY <2>1, BoundQuiet
<1>6. CASE Die
  <2>1. UNCHANGED <<count, countTTL, passed>> /\ \A d \in Callers : caller'[d] = "idle"
    BY <1>6 DEF Die
  <2>2. OneCreator' /\ ~Creating'
    BY <2>1 DEF OneCreator, Creating
  <2>3. QED BY <2>1, <2>2, BoundGrows
<1>10. ASSUME NEW c \in Callers, IncrementLost(c) PROVE BoundInv'
  <2>1. /\ UNCHANGED <<countTTL, passed>> /\ count' = count + 1
        /\ \A d \in Callers : caller'[d] = "expire" <=> caller[d] = "expire"
    BY <1>n, <1>10 DEF IncrementLost, Await
  <2>2. (Creating' <=> Creating) /\ OneCreator'
    BY <2>1, ThrottleNumbers DEF Creating, BoundInv, OneCreator, Forever
  <2>3. count = 0 => countTTL = Forever
    BY DEF BoundInv, TwoCounters
  <2>4. QED BY <2>1, <2>2, <2>3, BoundGrows
<1>7. CASE Tick
  BY <1>7, BoundTick
<1>8. CASE UNCHANGED throttleVars
  BY <1>8, BoundQuiet DEF throttleVars
<1>9. QED
  BY <1>1, <1>2, <1>3, <1>4, <1>5, <1>6, <1>7, <1>8, <1>10 DEF ThrottleNext, Command

\* However calls overlap with each other and with the expiry of the counter
\* and of the lock, whichever commands fail and whenever the process stops: in
\* no window more than twice the limit is let through by count.
THEOREM WindowsAreBounded == ThrottleSpec => []WindowBound
<1>1. ThrottleTypeOK /\ BoundInv => WindowBound
  BY AdmittedValue, ThrottleNumbers DEF BoundInv, TwoCounters, WindowBound
<1>2. QED
  BY <1>1, ThrottleTypeInit, ThrottleTypeStep, BoundInit, BoundStep, PTL DEF ThrottleSpec

----------------------------------------------------------------------------
(* The safety half of OpensAgain: what closes the limiter runs out. *)

\* A counter without a TTL is one whose creator is about to send the EXPIRE.
Timed == count > 0 /\ countTTL = Forever => lost \/ Creating

\* No call renews the counter's TTL, only a call that had passed the look at
\* the lock renews the lock, and it ends with that; unless that look
\* fails, no call gets past a lock that is set.
RunsOut ==
  /\ countTTL # Forever =>
       \/ countTTL' = countTTL
       \/ countTTL' = countTTL - 1
       \/ count' = 0
  /\ lockTTL' > lockTTL => \E c \in Callers : caller[c] = "lock" /\ caller'[c] = "idle"
  /\ lockTTL > 0 /\ "exists" \notin RedisFaults =>
       \A c \in Callers : caller[c] = "idle" => caller'[c] = "idle"

ClosuresRunOut == []Timed /\ [][RunsOut]_throttleVars

\* One command of one call: the others stay where they are.
LEMMA AwaitOne ==
  ASSUME ThrottleTypeOK, NEW c \in Callers, NEW command, Await(c, command)
  PROVE  /\ caller'[c] = command
         /\ \A d \in Callers : d # c => caller'[d] = caller[d]
BY DEF ThrottleTypeOK, Await

LEMMA TimedStep ==
  ASSUME ThrottleTypeOK, ThrottleTypeOK', BoundInv, Timed, [ThrottleNext]_throttleVars
  PROVE  Timed'
<1>1. ASSUME NEW c \in Callers, caller[c] # "expire", NEW command, Await(c, command),
             countTTL' = countTTL, lost' = lost, count' = count \/ (count' > 0 /\ count > 0)
      PROVE  Timed'
  <2>1. Creating => Creating'
    BY <1>1, AwaitOne DEF Creating
  <2>2. QED BY <1>1, <2>1 DEF Timed, Forever
<1>2. ASSUME NEW c \in Callers, CheckLock(c) \/ IncrementFails(c) \/ SetLock(c) PROVE Timed'
  <2>1. caller[c] # "expire" /\ UNCHANGED <<count, countTTL, lost>>
    BY <1>2 DEF CheckLock, IncrementFails, SetLock
  <2>2. Await(c, "idle") \/ Await(c, "incr")
    BY <1>2 DEF CheckLock, IncrementFails, SetLock, Refuse
  <2>3. QED BY <1>1, <2>1, <2>2
<1>3. ASSUME NEW c \in Callers, Increment(c) PROVE Timed'
  <2>1. CASE count = 0
    <3>1. caller'[c] = "expire"
      BY <1>3, <2>1, AwaitOne, ThrottleNumbers, ThrottleAssumption DEF Increment
    <3>2. QED BY <3>1 DEF Timed, Creating
  <2>2. CASE count # 0
    <3>1. count' > 0 /\ count > 0 /\ count + 1 # 1
      BY <1>3, <2>2, ThrottleNumbers DEF Increment
    <3>2. QED BY <1>1, <1>3, <3>1 DEF Increment, Pass
  <2>3. QED BY <2>1, <2>2
<1>9. ASSUME NEW c \in Callers, IncrementLost(c) PROVE Timed'
  <2>1. CASE count = 0
    BY <1>9, <2>1 DEF IncrementLost, Timed
  <2>2. CASE count # 0
    <3>1. count' > 0 /\ count > 0
      BY <1>9, <2>2, ThrottleNumbers DEF IncrementLost, ThrottleTypeOK
    <3>2. Creating => Creating'
      BY <1>9, AwaitOne DEF Creating, IncrementLost
    <3>3. (lost => lost') /\ countTTL' = countTTL
      BY <1>9 DEF IncrementLost
    <3>4. QED BY <3>1, <3>2, <3>3 DEF Timed, Forever
  <2>3. QED BY <2>1, <2>2
<1>4. ASSUME NEW c \in Callers, SetExpiry(c) PROVE Timed'
  <2>1. countTTL' = Window \/ lost'
    BY <1>4 DEF SetExpiry
  <2>2. Window # Window + 1
    BY ThrottleAssumption
  <2>3. QED BY <2>1, <2>2 DEF Timed, Forever
<1>5. CASE Die
  BY <1>5 DEF Die, Timed, Creating, Forever
<1>6. CASE Tick
  <2>1. Creating' <=> Creating
    BY <1>6 DEF Tick, Creating
  <2>2. countTTL' = Forever => (countTTL = Forever /\ count' = count) \/ count' = 0
    BY <1>6, ThrottleNumbers DEF Tick, ThrottleTypeOK
  <2>3. QED BY <1>6, <2>1, <2>2, ThrottleNumbers DEF Timed, Tick, Forever
<1>7. CASE UNCHANGED throttleVars
  BY <1>7 DEF throttleVars, Timed, Creating, Forever
<1>8. QED
  BY <1>2, <1>3, <1>4, <1>5, <1>6, <1>7, <1>9 DEF ThrottleNext, Command

LEMMA RunsOutStep ==
  ASSUME ThrottleTypeOK, BoundInv, [ThrottleNext]_throttleVars
  PROVE  RunsOut
<1>n. lockTTL \in Nat /\ ~(lockTTL > lockTTL) /\ countTTL \in Nat
  BY ThrottleAssumption DEF ThrottleTypeOK, Forever
\* A call under way goes on or ends.
<1>1. ASSUME NEW c \in Callers, caller[c] # "idle", NEW command, Await(c, command)
      PROVE  \A d \in Callers : caller[d] = "idle" => caller'[d] = "idle"
  BY <1>1, AwaitOne
<1>2. ASSUME NEW c \in Callers, CheckLock(c) PROVE RunsOut
  <2>1. UNCHANGED <<countTTL, lockTTL>>
    BY <1>2 DEF CheckLock
  <2>2. ASSUME lockTTL > 0, "exists" \notin RedisFaults PROVE caller'[c] = "idle"
    BY <1>2, <1>n, <2>2, AwaitOne DEF CheckLock, Refuse
  <2>3. \A d \in Callers : d # c => caller'[d] = caller[d]
    BY <1>2, AwaitOne DEF CheckLock, Refuse
  <2>4. QED BY <1>n, <2>1, <2>2, <2>3 DEF RunsOut
<1>3. ASSUME NEW c \in Callers, Increment(c) \/ IncrementFails(c) \/ IncrementLost(c)
      PROVE  RunsOut
  <2>1. UNCHANGED <<countTTL, lockTTL>>
    BY <1>3 DEF Increment, IncrementFails, IncrementLost
  <2>2. \A d \in Callers : caller[d] = "idle" => caller'[d] = "idle"
    BY <1>1, <1>3 DEF Increment, IncrementFails, IncrementLost, Pass
  <2>3. QED BY <1>n, <2>1, <2>2 DEF RunsOut
\* The counter has no TTL yet: its creator is the only one to send an EXPIRE.
<1>4. ASSUME NEW c \in Callers, SetExpiry(c) PROVE RunsOut
  <2>1. countTTL = Forever /\ UNCHANGED lockTTL
    BY <1>4 DEF SetExpiry, BoundInv, OneCreator
  <2>2. \A d \in Callers : caller[d] = "idle" => caller'[d] = "idle"
    BY <1>1, <1>4 DEF SetExpiry, Pass
  <2>3. QED BY <1>n, <2>1, <2>2 DEF RunsOut
<1>5. ASSUME NEW c \in Callers, SetLock(c) PROVE RunsOut
  <2>1. UNCHANGED countTTL /\ caller[c] = "lock" /\ caller'[c] = "idle"
    BY <1>5, AwaitOne DEF SetLock, Refuse
  <2>2. \A d \in Callers : caller[d] = "idle" => caller'[d] = "idle"
    BY <1>1, <1>5 DEF SetLock, Refuse
  <2>3. QED BY <2>1, <2>2 DEF RunsOut
<1>6. CASE Die
  BY <1>6, <1>n DEF Die, RunsOut
<1>7. CASE Tick
  <2>1. ~(lockTTL' > lockTTL) /\ caller' = caller
    BY <1>7, <1>n DEF Tick
  <2>2. countTTL # Forever => countTTL' = countTTL - 1 \/ count' = 0
    BY <1>7 DEF Tick
  <2>3. QED BY <2>1, <2>2 DEF RunsOut
<1>8. CASE UNCHANGED throttleVars
  BY <1>8, <1>n DEF throttleVars, RunsOut
<1>9. QED
  BY <1>2, <1>3, <1>4, <1>5, <1>6, <1>7, <1>8 DEF ThrottleNext, Command

\* The limiter is closed only by what runs out, unless a counter was left
\* without its EXPIRE (Redis refused it, the process stopped first, or the
\* answer to the INCR that created it was lost): otherwise the counter has a
\* TTL, or the call that created it is about to set one, and no other renews it; the lock is renewed only by calls that had looked at
\* it before it was set.  What OpensAgain adds is that time passes.
THEOREM ClosuresEnd == ThrottleSpec => ClosuresRunOut
<1>1. ThrottleInit => Timed
  BY DEF ThrottleInit, Timed
<1>2. ThrottleTypeOK /\ BoundInv /\ [ThrottleNext]_throttleVars => [RunsOut]_throttleVars
  BY RunsOutStep
<1>3. ThrottleTypeOK /\ ThrottleTypeOK' /\ BoundInv /\ Timed /\ [ThrottleNext]_throttleVars => Timed'
  BY TimedStep
<1>4. QED
  BY <1>1, <1>2, <1>3, ThrottleTypeInit, ThrottleTypeStep, BoundInit, BoundStep, PTL
  DEF ThrottleSpec, ClosuresRunOut

----------------------------------------------------------------------------
(* The three side by side. *)

LEMMA AccessTypeStep == AccessTypeOK /\ [Next]_allVars => AccessTypeOK'
<1> SUFFICES ASSUME AccessTypeOK, [Next]_allVars PROVE AccessTypeOK'
  OBVIOUS
<1>1. [ThrottleNext]_throttleVars /\ [LockoutNext]_lockoutVars /\ [RecoveryNext]_recoveryVars
  BY DEF Next, allVars
<1>2. QED
  BY <1>1, ThrottleTypeStep, LockoutTypeStep, RecoveryTypeStep DEF AccessTypeOK

\* Type correctness of the limiter, the lockout and the recovery together:
\* none of them leaves its type, whichever of them runs.
THEOREM AccessTyping == AccessSpec => []AccessTypeOK
<1>1. Init => AccessTypeOK
  BY ThrottleTypeInit, LockoutTypeInit, RecoveryTypeInit DEF Init, AccessTypeOK
<1>2. QED BY <1>1, AccessTypeStep, PTL DEF AccessSpec
=============================================================================
