------------------------------ MODULE Throttle ------------------------------
(***************************************************************************)
(* AuthUtilsService.checkRateLimit for one key, as login, registration and *)
(* forgotPassword call it: a counter in Redis that expires a window after  *)
(* its first increment, and a lock that is set for a window by the request *)
(* that goes over the limit.  RedisService hides what Redis refuses:       *)
(* EXISTS answers no, INCR answers null, EXPIRE and SET are simply lost.   *)
(*                                                                         *)
(* Rate limiting is on, as it is in production.                            *)
(***************************************************************************)
EXTENDS Naturals

CONSTANTS
  Callers,      \* requests that can be in checkRateLimit at the same time
  MaxHits,      \* maxAttempts
  Window,       \* the window, in ticks of the clock
  CountBound,   \* bound on the counter
  RedisFaults,  \* the commands that can fail: "exists", "incr", "expire", "set"
  CallersDie    \* TRUE if the process can stop

ASSUME ThrottleAssumption ==
  /\ MaxHits \in Nat \ {0}
  /\ Window \in Nat \ {0}
  /\ CountBound \in Nat
  /\ MaxHits < CountBound
  /\ RedisFaults \subseteq {"exists", "incr", "expire", "set"}
  /\ CallersDie \in BOOLEAN

VARIABLES
  count,    \* the counter's value, 0 without the key
  countTTL, \* the ticks it has left, Forever without a TTL
  lockTTL,  \* the ticks the lock key has left, 0 without the key
  caller,   \* caller[c]: the next command of the call, "idle" without one
  passed,   \* passed[i]: calls let through by count in the last i ticks (a history)
  lost      \* some counter was left without its EXPIRE (a history)

throttleVars == <<count, countTTL, lockTTL, caller, passed, lost>>

\* More than any TTL.
Forever == Window + 1

ThrottleTypeOK ==
  /\ count \in 0..CountBound
  /\ countTTL \in 0..Forever
  /\ lockTTL \in 0..Window
  /\ caller \in [Callers -> {"idle", "incr", "expire", "lock"}]
  /\ passed \in [1..Window -> Nat]
  /\ lost \in BOOLEAN

----------------------------------------------------------------------------
ThrottleInit ==
  /\ count = 0
  /\ countTTL = Forever
  /\ lockTTL = 0
  /\ caller = [c \in Callers |-> "idle"]
  /\ passed = [i \in 1..Window |-> 0]
  /\ lost = FALSE

Await(c, command) == caller' = [caller EXCEPT ![c] = command]

\* The call returns true.
Pass(c) ==
  /\ Await(c, "idle")
  /\ passed' = [i \in 1..Window |-> passed[i] + 1]

\* The call throws TOO_MANY_REQUESTS.
Refuse(c) ==
  /\ Await(c, "idle")
  /\ UNCHANGED passed

\* A lock that a refused call sets anew.
CheckLockAgain(c) ==
  /\ caller[c] = "idle"
  /\ \/ lockTTL > 0 /\ Refuse(c) /\ lockTTL' = Window
     \/ lockTTL = 0 /\ Await(c, "incr") /\ UNCHANGED <<passed, lockTTL>>
  /\ UNCHANGED <<count, countTTL, lost>>

\* EXISTS on the lock key.
CheckLock(c) ==
  /\ caller[c] = "idle"
  /\ \/ lockTTL > 0 /\ Refuse(c)
     \/ (lockTTL = 0 \/ "exists" \in RedisFaults) /\ Await(c, "incr") /\ UNCHANGED passed
  /\ UNCHANGED <<count, countTTL, lockTTL, lost>>

\* A limit that is off by one.
OverLimitLate(n) == n > MaxHits + 1

OverLimit(n) == n > MaxHits

\* INCR creates the key without a TTL and keeps the TTL it has.
Increment(c) ==
  LET n == count + 1 IN
  /\ caller[c] = "incr"
  /\ count < CountBound
  /\ count' = n
  /\ \/ n = 1 /\ Await(c, "expire") /\ UNCHANGED passed
     \/ n # 1 /\ OverLimit(n) /\ Await(c, "lock") /\ UNCHANGED passed
     \/ n # 1 /\ ~OverLimit(n) /\ Pass(c)
  /\ UNCHANGED <<countTTL, lockTTL, lost>>

\* INCR does not reach Redis and answers null: the call passes uncounted.
IncrementFails(c) ==
  /\ caller[c] = "incr"
  /\ "incr" \in RedisFaults
  /\ Await(c, "idle")
  /\ UNCHANGED <<count, countTTL, lockTTL, passed, lost>>

\* INCR is executed and its answer lost: null again, so the call passes; if it
\* created the counter, no call will ever send the EXPIRE.
IncrementLost(c) ==
  /\ caller[c] = "incr"
  /\ "incr" \in RedisFaults
  /\ count < CountBound
  /\ count' = count + 1
  /\ lost' = (lost \/ count = 0)
  /\ Await(c, "idle")
  /\ UNCHANGED <<countTTL, lockTTL, passed>>

\* EXPIRE, if the key is still there; then the call passes.
SetExpiry(c) ==
  /\ caller[c] = "expire"
  /\ \/ countTTL' = Window /\ UNCHANGED lost
     \/ "expire" \in RedisFaults /\ lost' = TRUE /\ UNCHANGED countTTL
  /\ Pass(c)
  /\ UNCHANGED <<count, lockTTL>>

\* SETEX on the lock key, then the call throws.
SetLock(c) ==
  /\ caller[c] = "lock"
  /\ \/ lockTTL' = Window
     \/ "set" \in RedisFaults /\ UNCHANGED lockTTL
  /\ Refuse(c)
  /\ UNCHANGED <<count, countTTL, lost>>

\* The process stops between two commands.
Die ==
  /\ CallersDie
  /\ \E c \in Callers : caller[c] # "idle"
  /\ caller' = [c \in Callers |-> "idle"]
  /\ lost' = (lost \/ \E c \in Callers : caller[c] = "expire")
  /\ UNCHANGED <<count, countTTL, lockTTL, passed>>

\* Redis drops the keys whose time has come; the history forgets with them.
Tick ==
  /\ IF countTTL = Forever THEN UNCHANGED <<count, countTTL>>
     ELSE IF countTTL > 1 THEN countTTL' = countTTL - 1 /\ UNCHANGED count
     ELSE countTTL' = Forever /\ count' = 0
  /\ lockTTL' = IF lockTTL = 0 THEN 0 ELSE lockTTL - 1
  /\ passed' = [i \in 1..Window |-> IF i = 1 THEN 0 ELSE passed[i - 1]]
  /\ UNCHANGED <<caller, lost>>

Command(c) ==
  \/ Increment(c) \/ IncrementFails(c) \/ IncrementLost(c)
  \/ SetExpiry(c) \/ SetLock(c)

ThrottleNext ==
  \/ \E c \in Callers : CheckLock(c) \/ Command(c)
  \/ Die
  \/ Tick

ThrottleSpec == ThrottleInit /\ [][ThrottleNext]_throttleVars

\* Commands are answered or fail, and time passes; nobody has to call.
ThrottleFairness ==
  /\ \A c \in Callers : WF_throttleVars(Command(c))
  /\ WF_throttleVars(Tick)

----------------------------------------------------------------------------
\* Properties.

\* In no window, wherever it starts, does the limiter let more than twice the
\* limit through, however the calls interleave with the expiry of the counter
\* and of the lock; calls whose INCR got no answer are not counted here.
WindowBound == passed[Window] <= 2 * MaxHits

\* The next call would be let through.
Open == lockTTL = 0 /\ count < MaxHits

\* However the calls overlap, the limiter never closes for good: again and
\* again it lets a call through, or would, unless some counter was left without
\* its EXPIRE (Redis refused it, the process stopped before sending it, or the
\* answer to the INCR that created the counter was lost): no later call sends
\* it, and the counter stays over the limit.
OpensAgain == []<>(Open \/ passed[1] > 0) \/ <>lost

----------------------------------------------------------------------------
\* The inductive invariant behind WindowBound.

\* The request that created the counter has still to send its EXPIRE, so the
\* counter is there without a TTL, and no other request is at this point.
OneCreator ==
  \A c \in Callers : caller[c] = "expire" =>
    /\ count > 0 /\ countTTL = Forever
    /\ \A d \in Callers : caller[d] = "expire" => d = c

Creating == \E c \in Callers : caller[c] = "expire"

\* The calls the counter has let through: every one up to the limit, except the
\* one that is still at its EXPIRE.
Admitted ==
  LET counted == IF count <= MaxHits THEN count ELSE MaxHits
  IN  IF Creating THEN counted - 1 ELSE counted

\* A counter lives for a whole window after its EXPIRE, so a window meets two
\* counters at most: the one of now, and before it one that let MaxHits through
\* and of which nothing is left when the one of now expires.
TwoCounters ==
  /\ count = 0 => countTTL = Forever
  /\ \A i, j \in 1..Window : i <= j => passed[i] <= passed[j]
  /\ passed[1] <= Admitted
  /\ passed[Window] <= MaxHits + Admitted
  /\ countTTL # Forever => countTTL > 0 /\ passed[Window - countTTL + 1] <= Admitted
=============================================================================
