------------------------------ MODULE MCAccess ------------------------------
(***************************************************************************)
(* An instance of what guards the way into an account: the rate limiter,   *)
(* the lockout and the password's recovery.  The three share no variable,  *)
(* so a behaviour of one says nothing about the others: each behaviour     *)
(* here exercises one of them, which one is chosen at the start.  The      *)
(* recovery comes in two scopes, with resets of the password by mail or    *)
(* with refreshes; both have logins and changes of the password.           *)
(***************************************************************************)
EXTENDS Throttle, Lockout, Recovery

CONSTANTS c1, c2, l1, l2, h1, h2, p1, p2, k1, t1, t2

VARIABLE guard

allVars == <<guard, throttleVars, lockoutVars, recoveryVars>>

Init ==
  /\ guard \in {"throttle", "lockout", "reset", "refresh"}
  /\ ThrottleInit /\ LockoutInit /\ RecoveryInit

NoRefresh == \A h \in Handlers : handler'[h].pc \notin {"found", "renew"}

NoCode == code' = NoSecret

Next ==
  \/ guard = "throttle" /\ ThrottleNext /\ UNCHANGED <<guard, lockoutVars, recoveryVars>>
  \/ guard = "lockout" /\ LockoutNext /\ UNCHANGED <<guard, throttleVars, recoveryVars>>
  \/ guard = "reset" /\ RecoveryNext /\ NoRefresh /\ UNCHANGED <<guard, throttleVars, lockoutVars>>
  \/ guard = "refresh" /\ RecoveryNext /\ NoCode /\ UNCHANGED <<guard, throttleVars, lockoutVars>>

\* The limiter's fairness, where the limiter is what runs.
Fairness ==
  /\ \A c \in Callers : WF_allVars(guard = "throttle" /\ Command(c) /\ UNCHANGED <<guard, lockoutVars, recoveryVars>>)
  /\ WF_allVars(guard = "throttle" /\ Tick /\ UNCHANGED <<guard, lockoutVars, recoveryVars>>)

\* Every state of checkRateLimit, of the lockout and of the recovery is
\* well-formed.
AccessTypeOK == ThrottleTypeOK /\ LockoutTypeOK /\ RecoveryTypeOK

AccessSpec == Init /\ [][Next]_allVars /\ Fairness
=============================================================================
