----------------------------- MODULE MCSessions -----------------------------
(* Instances of Sessions, with and without its history, for TLC. *)
EXTENDS SessionsOverlap, TLC

CONSTANTS r1, r2, r3, j1, j2, j3, j4, j5

AllOps == Endpoints \cup {"block"}

\* LoginsSpec without the history.
SerialSpec ==
  OverlapInit /\ [][Next /\ OnlyLoginsOverlap' /\ UNCHANGED histories]_<<vars, histories>>

\* FairSpec with the part of the history that is about the lock.
LockNext == Next /\ RememberOutlasted /\ UNCHANGED <<shared, clean>>

LockFairSpec ==
  /\ OverlapInit
  /\ [][LockNext]_<<vars, histories>>
  /\ \A r \in Requests : WF_vars(Proceed(r))
  /\ WF_vars(ExpireLock)

JtiRequestSymmetry == Permutations(Jtis) \cup Permutations(Requests)
=============================================================================
