------------------------------ MODULE Sessions ------------------------------
(***************************************************************************)
(* The refresh-token sessions of one user, as AuthService and              *)
(* GoogleOAuthService keep them in Redis: a key per live token, named by   *)
(* its jti, a JSON list of the user's jtis, and a login lock.              *)
(*                                                                         *)
(* Requests interleave between awaits.  Commands a request issues in one   *)
(* tick go out back to back on the process's only Redis connection, so     *)
(* they form one action; a later command of the same request is another.   *)
(* The list is always read, changed in memory and written back.            *)
(*                                                                         *)
(* A 256-bit jti is never generated twice and never forged, so a presented *)
(* token whose JWT verifies is one that was issued: the token-hash         *)
(* comparison of refreshToken cannot fail and is left out.                 *)
(***************************************************************************)
EXTENDS Naturals, Sequences, FiniteSets

CONSTANTS
  Requests,    \* the requests that can be in flight at the same time
  Jtis,        \* token identifiers (bounds how many tokens are ever issued)
  MaxDevices,  \* MAX_DEVICES_PER_USER
  Ops,         \* what clients do, and "block": the account may be inactive
  SlowLogins,  \* TRUE if a login can outlast its lock's five seconds
  Faults,      \* TRUE if Redis commands can fail (RedisService hides it)
  Crashes,     \* TRUE if the process can stop and restart
  NoJti        \* not a jti

Logins == {"login", "google"}

Endpoints == Logins \cup {"refresh", "logout", "logoutAll"}

ASSUME SessionsAssumption ==
  /\ NoJti \notin Jtis
  /\ MaxDevices \in Nat \ {0}
  /\ Ops \subseteq Endpoints \cup {"block"}
  /\ SlowLogins \in BOOLEAN
  /\ Faults \in BOOLEAN
  /\ Crashes \in BOOLEAN

VARIABLES
  tokens,       \* the jtis whose refresh-token key is in Redis
  rotatedFrom,  \* rotatedFrom[j]: the jti token j replaced, as stored with it
  list,         \* the session list; <<>> when the key is missing
  lock,         \* the login lock is set
  stage,        \* stage[j]: "fresh", "made", "held" by a client, or "expired"
  proc          \* proc[r]: the request in flight and its local variables

vars == <<tokens, rotatedFrom, list, lock, stage, proc>>

LoginPhases ==
  {"store", "readList", "writeList", "readLimit", "evict", "trim", "unlock"}

Phases ==
  LoginPhases \cup
  {"idle", "lookup", "status", "rotate", "drop", "add", "readAll", "wipe", "forget"}

NoRequest ==
  [pc |-> "idle", op |-> "login", jti |-> NoJti, new |-> NoJti, seen |-> <<>>,
   gone |-> 0]

Process ==
  [pc : Phases, op : Endpoints, jti : Jtis \cup {NoJti}, new : Jtis \cup {NoJti},
   seen : Seq(Jtis), gone : Nat]

TypeOK ==
  /\ tokens \in SUBSET Jtis
  /\ rotatedFrom \in [Jtis -> Jtis \cup {NoJti}]
  /\ list \in Seq(Jtis)
  /\ lock \in BOOLEAN
  /\ stage \in [Jtis -> {"fresh", "made", "held", "expired"}]
  /\ proc \in [Requests -> Process]

----------------------------------------------------------------------------
\* Helpers.

Idle(r) == proc[r].pc = "idle"

\* The request is between taking the login lock and releasing it.
InLogin(r) == proc[r].pc \in LoginPhases

Elements(s) == {s[i] : i \in DOMAIN s}

\* s without j; a jti is pushed once, so it is in a list at most once.
Without(s, j) ==
  IF j \notin Elements(s) THEN s
  ELSE LET k == CHOOSE k \in DOMAIN s : s[k] = j
       IN  [i \in 1..(Len(s) - 1) |-> IF i < k THEN s[i] ELSE s[i + 1]]

Held == {j \in Jtis : stage[j] = "held"}

Move(r, pc) == proc' = [proc EXCEPT ![r] = [@ EXCEPT !.pc = pc]]

\* What a read of the list returns: RedisService turns a failure into null.
ListReads == {list} \cup (IF Faults THEN {<<>>} ELSE {})

\* The list is read into the request's memory.
ReadList(r, pc) ==
  \E s \in ListReads : proc' = [proc EXCEPT ![r] = [@ EXCEPT !.pc = pc, !.seen = s]]

\* A write that fails is logged by RedisService and the caller goes on.
WriteList(s) == list' = s \/ (Faults /\ UNCHANGED list)

\* The token keys D are deleted and A added, as far as Redis does it.
WriteTokens(D, A) ==
  \E d \in IF Faults THEN SUBSET D ELSE {D}, a \in IF Faults THEN SUBSET A ELSE {A} :
    tokens' = (tokens \ d) \cup a

\* The request is answered; a new token reaches the client with the answer.
Answer(r) ==
  /\ proc' = [proc EXCEPT ![r] = NoRequest]
  /\ stage' = IF proc[r].new = NoJti THEN stage
              ELSE [stage EXCEPT ![proc[r].new] = "held"]

\* A fault that evicts one token too few.
ExcessShort(op, s) == (Len(s) - MaxDevices) - 1

\* What enforceMaxDevices takes out of an over-long list s, oldest first: one
\* more than necessary in AuthService, just enough in GoogleOAuthService.
Excess(op, s) ==
  IF op = "login" THEN (Len(s) - MaxDevices) + 1 ELSE Len(s) - MaxDevices

Oldest(op, s) == SubSeq(s, 1, Excess(op, s))

\* A slice that keeps one too few.
NewestShort(op, s) == SubSeq(s, Excess(op, s) + 2, Len(s))

Newest(op, s) == SubSeq(s, Excess(op, s) + 1, Len(s))

----------------------------------------------------------------------------
Init ==
  /\ tokens = {}
  /\ rotatedFrom = [j \in Jtis |-> NoJti]
  /\ list = <<>>
  /\ lock = FALSE
  /\ stage = [j \in Jtis |-> "fresh"]
  /\ proc = [r \in Requests |-> NoRequest]

----------------------------------------------------------------------------
\* Login, with a password or with Google.

\* A login without the lock.
AcquireUnlocked(r, op, j) ==
  /\ Idle(r)
  /\ op \in Ops \cap Logins
  /\ stage[j] = "fresh"
  /\ lock' = TRUE
  /\ stage' = [stage EXCEPT ![j] = "made"]
  /\ proc' = [proc EXCEPT ![r] =
       [NoRequest EXCEPT !.pc = "store", !.op = op, !.new = j]]
  /\ UNCHANGED <<tokens, rotatedFrom, list>>

\* The credentials were accepted and SET NX succeeds; when it does not, the
\* request is refused and nothing changes.  The jti is generated next.
Acquire(r, op, j) ==
  /\ Idle(r)
  /\ op \in Ops \cap Logins
  /\ ~lock
  /\ stage[j] = "fresh"
  /\ lock' = TRUE
  /\ stage' = [stage EXCEPT ![j] = "made"]
  /\ proc' = [proc EXCEPT ![r] =
       [NoRequest EXCEPT !.pc = "store", !.op = op, !.new = j]]
  /\ UNCHANGED <<tokens, rotatedFrom, list>>

\* SET NX succeeds but its answer is lost: the login is refused as if another
\* one held the lock, and nobody will release it.
AcquireLost(r, op) ==
  /\ Faults
  /\ Idle(r)
  /\ op \in Ops \cap Logins
  /\ ~lock
  /\ lock' = TRUE
  /\ UNCHANGED <<tokens, rotatedFrom, list, stage, proc>>

Store(r) ==
  /\ proc[r].pc = "store"
  /\ WriteTokens({}, {proc[r].new})
  /\ Move(r, "readList")
  /\ UNCHANGED <<rotatedFrom, list, lock, stage>>

\* addUserSession.
ReadSessions(r) ==
  /\ proc[r].pc = "readList"
  /\ ReadList(r, "writeList")
  /\ UNCHANGED <<tokens, rotatedFrom, list, lock, stage>>

WriteSessions(r) ==
  /\ proc[r].pc = "writeList"
  /\ WriteList(Append(proc[r].seen, proc[r].new))
  /\ Move(r, "readLimit")
  /\ UNCHANGED <<tokens, rotatedFrom, lock, stage>>

\* enforceMaxDevices.
ReadForLimit(r) ==
  /\ proc[r].pc = "readLimit"
  /\ \E s \in ListReads :
       LET next == IF Len(s) <= MaxDevices THEN "unlock" ELSE "evict" IN
       proc' = [proc EXCEPT ![r] = [@ EXCEPT !.pc = next, !.seen = s]]
  /\ UNCHANGED <<tokens, rotatedFrom, list, lock, stage>>

Evict(r) ==
  LET q == proc[r] IN
  /\ q.pc = "evict"
  /\ q.op = "login"
  /\ WriteTokens(Elements(Oldest(q.op, q.seen)), {})
  /\ Move(r, "trim")
  /\ UNCHANGED <<rotatedFrom, list, lock, stage>>

\* GoogleOAuthService deletes them one by one.
EvictNext(r) ==
  LET q == proc[r]
      next == IF q.gone + 1 < Excess(q.op, q.seen) THEN "evict" ELSE "trim"
  IN /\ q.pc = "evict"
     /\ q.op = "google"
     /\ WriteTokens({q.seen[q.gone + 1]}, {})
     /\ proc' = [proc EXCEPT ![r] = [q EXCEPT !.pc = next, !.gone = q.gone + 1]]
     /\ UNCHANGED <<rotatedFrom, list, lock, stage>>

Trim(r) ==
  LET q == proc[r] IN
  /\ q.pc = "trim"
  /\ WriteList(Newest(q.op, q.seen))
  /\ Move(r, "unlock")
  /\ UNCHANGED <<tokens, rotatedFrom, lock, stage>>

\* The finally block deletes the lock, whoever set it; RedisService swallows
\* the failure of a DEL.
Unlock(r) ==
  /\ proc[r].pc = "unlock"
  /\ lock' = FALSE \/ (Faults /\ UNCHANGED lock)
  /\ Answer(r)
  /\ UNCHANGED <<tokens, rotatedFrom, list>>

----------------------------------------------------------------------------
\* Refresh, with any token a client still holds and whose JWT is valid.

StartRefresh(r, j) ==
  /\ Idle(r)
  /\ "refresh" \in Ops
  /\ stage[j] = "held"
  /\ proc' = [proc EXCEPT ![r] =
       [NoRequest EXCEPT !.pc = "lookup", !.op = "refresh", !.jti = j]]
  /\ UNCHANGED <<tokens, rotatedFrom, list, lock, stage>>

\* A token that is not stored was rotated or revoked: revoke everything.
Lookup(r) ==
  /\ proc[r].pc = "lookup"
  /\ \/ proc[r].jti \in tokens /\ Move(r, "status")
     \/ (proc[r].jti \notin tokens \/ Faults) /\ Move(r, "readAll")
  /\ UNCHANGED <<tokens, rotatedFrom, list, lock, stage>>

\* A look-up of the user that prolongs the token presented.
CheckUserTouch(r) ==
  /\ proc[r].pc = "status"
  /\ WriteTokens({}, {proc[r].jti})
  /\ Move(r, "rotate") \/ ("block" \in Ops /\ Move(r, "readAll"))
  /\ UNCHANGED <<rotatedFrom, list, lock, stage>>

\* The user is read from MongoDB; one that is not active loses everything.
CheckUser(r) ==
  /\ proc[r].pc = "status"
  /\ Move(r, "rotate") \/ ("block" \in Ops /\ Move(r, "readAll"))
  /\ UNCHANGED <<tokens, rotatedFrom, list, lock, stage>>

\* A rotation that leaves the old token.
RotateKeep(r, j) ==
  LET q == proc[r] IN
  /\ q.pc = "rotate"
  /\ stage[j] = "fresh"
  /\ WriteTokens({}, {j})
  /\ rotatedFrom' = [rotatedFrom EXCEPT ![j] = q.jti]
  /\ stage' = [stage EXCEPT ![j] = "made"]
  /\ \E s \in ListReads :
       proc' = [proc EXCEPT ![r] = [q EXCEPT !.pc = "drop", !.new = j, !.seen = s]]
  /\ UNCHANGED <<list, lock>>

\* Promise.all issues four commands in one tick: DEL the old token, GET the
\* list to remove it, SETEX the new token, GET the list to add it.
Rotate(r, j) ==
  LET q == proc[r] IN
  /\ q.pc = "rotate"
  /\ stage[j] = "fresh"
  /\ WriteTokens({q.jti}, {j})
  /\ rotatedFrom' = [rotatedFrom EXCEPT ![j] = q.jti]
  /\ stage' = [stage EXCEPT ![j] = "made"]
  /\ \E s \in ListReads :
       proc' = [proc EXCEPT ![r] = [q EXCEPT !.pc = "drop", !.new = j, !.seen = s]]
  /\ UNCHANGED <<list, lock>>

\* Both list writes start from the list as it was read: first removeUserSession
\* writes it without the old jti ...
Drop(r) ==
  /\ proc[r].pc = "drop"
  /\ WriteList(Without(proc[r].seen, proc[r].jti))
  /\ Move(r, "add")
  /\ UNCHANGED <<tokens, rotatedFrom, lock, stage>>

\* ... then addUserSession writes it with the new one, and the old one.
Add(r) ==
  /\ proc[r].pc = "add"
  /\ WriteList(Append(proc[r].seen, proc[r].new))
  /\ Answer(r)
  /\ UNCHANGED <<tokens, rotatedFrom, lock>>

----------------------------------------------------------------------------
\* revokeAllUserTokens, for refresh and for logoutAllDevices.

StartLogoutAll(r) ==
  /\ Idle(r)
  /\ "logoutAll" \in Ops
  /\ proc' = [proc EXCEPT ![r] = [NoRequest EXCEPT !.pc = "readAll", !.op = "logoutAll"]]
  /\ UNCHANGED <<tokens, rotatedFrom, list, lock, stage>>

ReadAll(r) ==
  /\ proc[r].pc = "readAll"
  /\ ReadList(r, "wipe")
  /\ UNCHANGED <<tokens, rotatedFrom, list, lock, stage>>

\* A revocation that only forgets the list.
WipeList(r) ==
  /\ proc[r].pc = "wipe"
  /\ WriteList(<<>>)
  /\ Answer(r)
  /\ UNCHANGED <<tokens, rotatedFrom, lock>>

Wipe(r) ==
  /\ proc[r].pc = "wipe"
  /\ WriteTokens(Elements(proc[r].seen), {})
  /\ WriteList(<<>>)
  /\ Answer(r)
  /\ UNCHANGED <<rotatedFrom, lock>>

----------------------------------------------------------------------------
\* logout: DEL the token and GET the list in one tick, then write the list.

Logout(r, j) ==
  /\ Idle(r)
  /\ "logout" \in Ops
  /\ stage[j] = "held"
  /\ WriteTokens({j}, {})
  /\ \E s \in ListReads :
       proc' = [proc EXCEPT ![r] =
         [NoRequest EXCEPT !.pc = "forget", !.op = "logout", !.jti = j, !.seen = s]]
  /\ UNCHANGED <<rotatedFrom, list, lock, stage>>

Forget(r) ==
  /\ proc[r].pc = "forget"
  /\ WriteList(Without(proc[r].seen, proc[r].jti))
  /\ Answer(r)
  /\ UNCHANGED <<tokens, rotatedFrom, lock>>

----------------------------------------------------------------------------
\* Time and the process.

\* A token lives for days, a request for seconds.  Its JWT and its key expire
\* together; the list is rewritten later than the tokens it holds were stored,
\* so it goes only after them.
ExpireToken(j) ==
  /\ \A r \in Requests : Idle(r)
  /\ stage[j] \in {"made", "held"}
  /\ stage' = [stage EXCEPT ![j] = "expired"]
  /\ tokens' = tokens \ {j}
  /\ UNCHANGED <<rotatedFrom, list, lock, proc>>

ExpireList ==
  /\ \A r \in Requests : Idle(r)
  /\ list # <<>>
  /\ Elements(list) \cap tokens = {}
  /\ list' = <<>>
  /\ UNCHANGED <<tokens, rotatedFrom, lock, stage, proc>>

\* A lock that was set without a TTL.
ExpireLockNever ==
  /\ FALSE
  /\ UNCHANGED vars

\* The lock's five seconds pass, with its login over or still under way.
ExpireLock ==
  /\ lock
  /\ SlowLogins \/ \A r \in Requests : ~InLogin(r)
  /\ lock' = FALSE
  /\ UNCHANGED <<tokens, rotatedFrom, list, stage, proc>>

\* The process stops and comes back: the requests in flight are gone, and
\* Redis holds what they had written.
Crash ==
  /\ Crashes
  /\ \E r \in Requests : ~Idle(r)
  /\ proc' = [r \in Requests |-> NoRequest]
  /\ UNCHANGED <<tokens, rotatedFrom, list, lock, stage>>

----------------------------------------------------------------------------
\* What a request in flight does next.
Proceed(r) ==
  \/ Store(r) \/ ReadSessions(r) \/ WriteSessions(r) \/ ReadForLimit(r)
  \/ Evict(r) \/ EvictNext(r) \/ Trim(r) \/ Unlock(r)
  \/ Lookup(r) \/ CheckUser(r) \/ Drop(r) \/ Add(r)
  \/ (\E j \in Jtis : Rotate(r, j))
  \/ ReadAll(r) \/ Wipe(r) \/ Forget(r)

Start(r) ==
  \/ \E op \in Logins : AcquireLost(r, op) \/ \E j \in Jtis : Acquire(r, op, j)
  \/ \E j \in Jtis : StartRefresh(r, j) \/ Logout(r, j)
  \/ StartLogoutAll(r)

Next ==
  \/ \E r \in Requests : Start(r) \/ Proceed(r)
  \/ \E j \in Jtis : ExpireToken(j)
  \/ ExpireList
  \/ ExpireLock
  \/ Crash

Spec == Init /\ [][Next]_vars

\* Logins overlap with each other, every other request is served alone.
OnlyLoginsOverlap ==
  \A r, s \in Requests : r # s /\ ~Idle(r) /\ ~Idle(s) =>
    proc[r].op \in Logins /\ proc[s].op \in Logins

LoginsSpec == Init /\ [][Next /\ OnlyLoginsOverlap']_vars

\* A command is answered, or fails after commandTimeout, so a request that is
\* under way and not lost goes on; Redis expires the lock on its own.
FairSpec ==
  /\ Spec
  /\ \A r \in Requests : WF_vars(Proceed(r))
  /\ WF_vars(ExpireLock)

----------------------------------------------------------------------------
\* Properties.

\* Every live token a client holds is in the session list, where eviction and
\* revocation look for it.
HeldTracked == tokens \cap Held \subseteq Elements(list)

\* No user has more than MaxDevices usable refresh tokens.
DeviceLimit == Cardinality(tokens \cap Held) <= MaxDevices

\* A token that stopped working, because it was rotated, revoked, evicted or
\* expired, never works again, and none works before it reached its client;
\* whatever overlaps, fails or stops.
LifeOf ==
  [j \in Jtis |-> IF stage[j] \in {"fresh", "made"} THEN "unissued"
                  ELSE IF j \in tokens \cap Held THEN "usable" ELSE "over"]

Life == INSTANCE TokenLife WITH life <- LifeOf

ImplementsTokenLife == Life!Spec

\* The login lock does not stay: neither a crash nor a release that Redis
\* refused locks the user out.
LockReleased == lock ~> ~lock

----------------------------------------------------------------------------
\* The inductive invariants behind them, for LoginsSpec without Redis failures
\* and with logins that do not outlast their lock.

\* The lock serves the logins one by one, so that all are.
Serial == \A r, s \in Requests : ~Idle(r) /\ ~Idle(s) => r = s

\* The logins are the requests between taking the lock and releasing it.
LoginsLock == \A r \in Requests : ~Idle(r) => (proc[r].op \in Logins <=> InLogin(r))

\* A token that was never made is not stored, and one that was rotated is not
\* stored any more.
Retired ==
  /\ \A j \in Jtis : stage[j] = "fresh" => j \notin tokens /\ rotatedFrom[j] = NoJti
  /\ \A j \in Jtis : rotatedFrom[j] # NoJti =>
       rotatedFrom[j] \notin tokens /\ stage[rotatedFrom[j]] \in {"held", "expired"}

\* A request that is under way: what it makes, what it presents, what it read,
\* and what it has still to enter in the list.
Underway(p) ==
  /\ p.pc \in LoginPhases => p.op \in Logins /\ rotatedFrom[p.new] = NoJti
  /\ p.pc \in LoginPhases \cup {"drop", "add"} => p.new \in Jtis /\ stage[p.new] = "made"
  /\ p.pc \in {"lookup", "status", "rotate", "readAll", "wipe", "forget"} => p.new = NoJti
  /\ p.pc \in {"lookup", "status", "rotate"} => p.jti \in Jtis /\ stage[p.jti] = "held"
  /\ p.pc \in {"status", "rotate"} => p.jti \in tokens
  /\ p.pc \in {"drop", "forget"} => p.jti \notin tokens
  /\ p.pc \in {"writeList", "evict", "trim", "drop", "wipe", "forget"} => p.seen = list
  /\ p.pc \in {"readLimit", "evict", "trim", "unlock"} /\ p.new \in tokens =>
       p.new \in Elements(list)
  /\ p.pc = "unlock" => Len(list) <= MaxDevices
  /\ p.pc = "add" => tokens \cap Held \subseteq Elements(p.seen)
  /\ p.pc \in {"drop", "add"} => Cardinality((tokens \cap Held) \cup {p.new}) <= MaxDevices

\* The oldest tokens that were evicted so far are not stored.
Evicting(p) ==
  /\ p.pc \in {"store", "readList", "writeList", "readLimit"} => p.gone = 0
  /\ p.pc = "evict" /\ p.op = "google" =>
       p.gone < Excess(p.op, p.seen) /\ \A i \in 1..p.gone : p.seen[i] \notin tokens
  /\ p.pc = "trim" => \A i \in 1..Excess(p.op, p.seen) : p.seen[i] \notin tokens

UnderwayAll == \A r \in Requests : Underway(proc[r]) /\ Evicting(proc[r])

----------------------------------------------------------------------------
\* The inductive invariant behind ImplementsTokenLife, for Spec.

\* A token on its way to the client is with the one request that made it, and
\* nobody holds it yet; a request that makes none carries none.
MadeBy ==
  \A r \in Requests :
    /\ proc[r].pc \notin LoginPhases \cup {"drop", "add"} => proc[r].new = NoJti
    /\ proc[r].new \in Jtis =>
         /\ stage[proc[r].new] = "made"
         /\ \A s \in Requests : proc[s].new = proc[r].new => s = r

=============================================================================
