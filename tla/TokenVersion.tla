---------------------------- MODULE TokenVersion ----------------------------
(***************************************************************************)
(* The token version of one user.  Access tokens carry the version of the  *)
(* user's document when they were made; AuthGuard compares it with a copy  *)
(* of the version in Redis, filled from the document on a miss, and        *)
(* incrementTokenVersion raises the document's version and deletes the     *)
(* copy.  Both are a few awaits long and interleave.                       *)
(***************************************************************************)
EXTENDS Naturals

CONSTANTS
  Requests,    \* the requests that can be in flight at the same time
  MaxVersion,  \* bound: how many times the version is incremented
  Ops,         \* "guard", "revoke", and "admin": the account changes
  NoVersion,   \* what stands for a missing key: not a version
  Faults,      \* TRUE if Redis commands can fail (RedisService hides it)
  Crashes      \* TRUE if the process can stop and restart

ASSUME TokenVersionAssumption ==
  /\ MaxVersion \in Nat
  /\ NoVersion \notin Nat
  /\ Ops \subseteq {"guard", "revoke", "admin"}
  /\ Faults \in BOOLEAN
  /\ Crashes \in BOOLEAN

VARIABLES
  version,  \* tokenVersion of the user's document
  user,     \* "active", "inactive" (any other status), or "gone"
  cache,    \* the token_version key in Redis, or NoVersion
  proc      \* proc[r]: the request in flight and its local variables

vars == <<version, user, cache, proc>>

Phases ==
  {"idle", "readCache", "readUser", "fill", "serve", "anonymous", "increment",
   "invalidate"}

NoRequest == [pc |-> "idle", token |-> 0, seen |-> 0]

Process == [pc : Phases, token : Nat, seen : Nat]

TypeOK ==
  /\ version \in Nat
  /\ user \in {"active", "inactive", "gone"}
  /\ cache \in Nat \cup {NoVersion}
  /\ proc \in [Requests -> Process]

----------------------------------------------------------------------------
Idle(r) == proc[r].pc = "idle"

Move(r, pc) == proc' = [proc EXCEPT ![r] = [@ EXCEPT !.pc = pc]]

Finish(r) == proc' = [proc EXCEPT ![r] = NoRequest]

\* AuthGuard answers 401; OptionalAuthGuard lets the request go on without a
\* user.  Which of the two guards the route shows only here.
Refuse(r) ==
  Finish(r) \/ proc' = [proc EXCEPT ![r] = [NoRequest EXCEPT !.pc = "anonymous"]]

\* A guard that also accepts older tokens.
DecideOlder(r, v) == IF v >= proc[r].token THEN Move(r, "serve") ELSE Refuse(r)

\* The guard knows the current version is v: it lets the request through as
\* the token's user, or refuses it.
Decide(r, v) == IF v = proc[r].token THEN Move(r, "serve") ELSE Refuse(r)

Init ==
  /\ version = 0
  /\ user = "active"
  /\ cache = NoVersion
  /\ proc = [r \in Requests |-> NoRequest]

----------------------------------------------------------------------------
\* AuthGuard.canActivate; OptionalAuthGuard reads and fills the same way, and
\* refuses differently.

\* A request arrives with an access token whose JWT is valid.
StartGuard(r, t) ==
  /\ Idle(r)
  /\ "guard" \in Ops
  /\ t <= version
  /\ proc' = [proc EXCEPT ![r] = [NoRequest EXCEPT !.pc = "readCache", !.token = t]]
  /\ UNCHANGED <<version, user, cache>>

\* A failed read is a miss.
ReadCache(r) ==
  /\ proc[r].pc = "readCache"
  /\ \/ cache # NoVersion /\ Decide(r, cache)
     \/ (cache = NoVersion \/ Faults) /\ Move(r, "readUser")
  /\ UNCHANGED <<version, user, cache>>

\* The document is read; only here is the account's status looked at.
ReadUser(r) ==
  /\ proc[r].pc = "readUser"
  /\ IF user = "active"
       THEN proc' = [proc EXCEPT ![r] = [@ EXCEPT !.pc = "fill", !.seen = version]]
       ELSE Refuse(r)
  /\ UNCHANGED <<version, user, cache>>

\* What was read is cached, whatever happened since.
Fill(r) ==
  /\ proc[r].pc = "fill"
  /\ cache' = proc[r].seen \/ (Faults /\ UNCHANGED cache)
  /\ Decide(r, proc[r].seen)
  /\ UNCHANGED <<version, user>>

\* The handler behind the guard runs, with a user or without.
Serve(r) ==
  /\ proc[r].pc \in {"serve", "anonymous"}
  /\ Finish(r)
  /\ UNCHANGED <<version, user, cache>>

----------------------------------------------------------------------------
\* incrementTokenVersion: after a password change or reset, a logout from all
\* devices, and when an account is locked.

StartRevoke(r) ==
  /\ Idle(r)
  /\ "revoke" \in Ops
  /\ version < MaxVersion
  /\ proc' = [proc EXCEPT ![r] = [NoRequest EXCEPT !.pc = "increment"]]
  /\ UNCHANGED <<version, user, cache>>

\* $inc on the document, if there still is one.
Increment(r) ==
  /\ proc[r].pc = "increment"
  /\ version' = IF user = "gone" THEN version ELSE version + 1
  /\ Move(r, "invalidate")
  /\ UNCHANGED <<user, cache>>

Invalidate(r) ==
  /\ proc[r].pc = "invalidate"
  /\ cache' = NoVersion \/ (Faults /\ UNCHANGED cache)
  /\ Finish(r)
  /\ UNCHANGED <<version, user>>

----------------------------------------------------------------------------
\* Around it.

\* An admin changes the status or deletes the account; neither touches the
\* version or the cache.
ChangeUser(st) ==
  /\ "admin" \in Ops
  /\ user # "gone"
  /\ user' = st
  /\ UNCHANGED <<version, cache, proc>>

\* An entry without a TTL.
ExpireNever ==
  /\ FALSE
  /\ UNCHANGED vars

\* The entry is one hour old.
Expire ==
  /\ cache # NoVersion
  /\ cache' = NoVersion
  /\ UNCHANGED <<version, user, proc>>

Crash ==
  /\ Crashes
  /\ \E r \in Requests : ~Idle(r)
  /\ proc' = [r \in Requests |-> NoRequest]
  /\ UNCHANGED <<version, user, cache>>

----------------------------------------------------------------------------
Proceed(r) ==
  \/ ReadCache(r) \/ ReadUser(r) \/ Fill(r) \/ Serve(r)
  \/ Increment(r) \/ Invalidate(r)

Next ==
  \/ \E r \in Requests : Proceed(r) \/ StartRevoke(r)
  \/ \E r \in Requests, t \in 0..MaxVersion : StartGuard(r, t)
  \/ \E st \in {"active", "inactive", "gone"} : ChangeUser(st)
  \/ Expire
  \/ Crash

Spec == Init /\ [][Next]_vars

\* Commands are answered or fail, so a request that is not lost goes on, and
\* Redis expires the entry: a hit does not renew it.
FairSpec ==
  /\ Spec
  /\ \A r \in Requests : WF_vars(Proceed(r))
  /\ WF_vars(Expire)

----------------------------------------------------------------------------
\* Properties.

\* What an increment can leave behind: requests that read the document before
\* it, and requests that got through with a token it ended.
Stale == {r \in Requests : proc[r].pc = "fill" /\ proc[r].seen # version}

Outdated == {r \in Requests : proc[r].pc = "serve" /\ proc[r].token # version}

Coherent == cache \in {NoVersion, version}

\* The copy is never ahead of the document, nor is what a guard is about to
\* put there: no token is let through before its version exists.
NeverAhead ==
  /\ cache # NoVersion => cache <= version
  /\ \A r \in Requests : proc[r].pc \in {"fill", "serve"} => proc[r].seen <= version

\* With nothing in flight the copy is the document's version, or missing.
CoherentAtRest ==
  (\A r \in Requests : Idle(r)) => Coherent

\* A request is served as its token's user only with the current version.
ServesCurrent == \A r \in Requests : proc[r].pc = "serve" => proc[r].token = version

\* How far a revocation can fail to take effect.  After it nobody joins those
\* who remember an older version; only they can make the copy stale again, and
\* each of them once; and a request gets past the guard with an ended token
\* only if it is one of them or meets a stale copy.
RevocationsStick ==
  [][ version' = version =>
        /\ Stale' \subseteq Stale
        /\ ~Coherent' => cache' = cache \/ \E r \in Stale \ Stale' : cache' = proc[r].seen
        /\ Coherent => Outdated' \subseteq Outdated \cup Stale ]_vars

\* Whatever a guard, a crash or a lost command left in Redis, in the end every
\* revocation is effective: the copy is the document's version, or missing.
RevocationsPrevail == <>[]Coherent
=============================================================================
