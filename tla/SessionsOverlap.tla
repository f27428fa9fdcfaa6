-------------------------- MODULE SessionsOverlap --------------------------
(***************************************************************************)
(* Sessions with a memory of which requests overlapped.  The session list  *)
(* is read, changed in memory and written back without a lock that covers  *)
(* refreshes, logouts and revocations, so what the program promises holds  *)
(* up to overlap; this module says exactly up to which.  Its variables are *)
(* history: no action of Sessions reads them.                              *)
(***************************************************************************)
EXTENDS Sessions

VARIABLES
  shared,     \* the requests in flight that were in flight together with another
  clean,      \* the tokens handed out by a request that overlapped no other
  outlasted   \* the lock expired under one of the logins in flight, or under
              \* one that was in flight together with one of them, and so on

histories == <<shared, clean, outlasted>>

InFlight == {r \in Requests : ~Idle(r)}

LoginUnderWay == \E r \in Requests : InLogin(r)

OverlapTypeOK ==
  /\ shared \subseteq InFlight
  /\ clean \subseteq Jtis
  /\ outlasted \in BOOLEAN

OverlapInit ==
  /\ Init
  /\ shared = {}
  /\ clean = {}
  /\ outlasted = FALSE

\* A request is shared from the first state on in which another is in flight.
RememberShared ==
  shared' = {r \in InFlight' : r \in shared \/ \E s \in InFlight' : s # r}

\* The tokens that reach their client in this step.
HandedOut(r) == {j \in Jtis : j = proc[r].new /\ stage'[j] = "held"}

RememberClean ==
  clean' = clean \cup UNION {HandedOut(r) : r \in {x \in InFlight \ shared : Idle(x)'}}

\* Forgotten when no login is in flight.
RememberOutlasted ==
  outlasted' = (LoginUnderWay' /\ (outlasted \/ (LoginUnderWay /\ ExpireLock)))

OverlapNext == Next /\ RememberShared /\ RememberClean /\ RememberOutlasted

OverlapSpec == OverlapInit /\ [][OverlapNext]_<<vars, histories>>

----------------------------------------------------------------------------
\* Properties.

\* Logins exclude each other as long as none outlasts the lock.  Once one did,
\* its finally block deletes the lock of the next, which lets a third one in
\* beside it, so the damage lasts until no login is in flight: but no longer.
LoginMutex ==
  ~outlasted => \A r, s \in Requests : InLogin(r) /\ InLogin(s) => r = s

\* A usable token is missing from the session list, where eviction and
\* revocation look for it, only if the request that issued it overlapped
\* another; no later overlap, not even of stale list writes, loses it.
LostOnlyByOverlap ==
  \A j \in tokens \cap Held \cap clean : j \in Elements(list)

\* revokeAllUserTokens, run for a logout from all devices, an inactive account
\* or a replayed token, leaves no usable token behind but those issued by a
\* request that overlapped another: a refresh that stored its token while the
\* list was being wiped.
RevokeIsComplete ==
  [][ \A r \in Requests : Wipe(r) => tokens' \cap Held \cap clean = {} ]_<<vars, histories>>

\* A token is exchanged for at most one other, unless the two exchanges
\* overlapped: then neither of the tokens they issue counts as clean.
RotatedOnce ==
  \A j, k \in Jtis :
    j # k /\ rotatedFrom[j] = rotatedFrom[k] /\ rotatedFrom[j] # NoJti =>
      j \notin clean /\ k \notin clean

----------------------------------------------------------------------------
\* The inductive invariants behind them, without Redis failures.

\* A request that overlaps no other is alone.
Alone == \A r, s \in InFlight : r # s => r \in shared

\* The clean tokens a client can use, and what request r must not lose: those
\* and its own new token, as long as it is alone.
Good == tokens \cap Held \cap clean

Safe(r) == Good \cup {j \in tokens : j = proc[r].new /\ r \notin shared}

\* A request under way read all the good tokens, and deletes none of them but
\* the oldest ones; an alone one finds its own token in the list.
Careful(r) ==
  LET p == proc[r] IN
  /\ p.pc \in {"writeList", "drop", "add", "wipe", "forget"} => Good \subseteq Elements(p.seen)
  /\ p.pc \in {"evict", "trim"} => Safe(r) \subseteq Elements(p.seen)
  /\ p.pc \in {"readLimit", "unlock"} => Safe(r) \subseteq Elements(list)
  /\ p.pc \in {"drop", "forget"} => p.jti \notin Good
  /\ p.pc \in {"store", "readList", "writeList", "readLimit"} => p.gone = 0
  /\ p.pc = "evict" /\ p.op = "google" =>
       p.gone < Excess(p.op, p.seen) /\ \A i \in 1..p.gone : p.seen[i] \notin Safe(r)
  /\ p.pc = "trim" => \A i \in 1..Excess(p.op, p.seen) : p.seen[i] \notin Safe(r)

\* A clean token reached its client.
CleanWereHeld == \A j \in clean : j \in Jtis /\ stage[j] \in {"held", "expired"}

\* What a refresh presents was handed out.
Presents ==
  \A r \in Requests : proc[r].pc \in {"lookup", "status", "rotate"} =>
    proc[r].jti \in Jtis /\ stage[proc[r].jti] = "held"

\* Token j is not clean, and will not be when the request that carries it ends.
NeverClean(j) == j \notin clean /\ \A r \in Requests : proc[r].new = j => r \in shared

\* A second exchange of a token that was found before the first one overlaps it.
Exchanges ==
  /\ \A j, k \in Jtis :
       j # k /\ rotatedFrom[j] = rotatedFrom[k] /\ rotatedFrom[j] # NoJti => NeverClean(j)
  /\ \A r \in Requests, k \in Jtis :
       proc[r].pc \in {"status", "rotate"} /\ rotatedFrom[k] = proc[r].jti =>
         r \in shared /\ NeverClean(k)
=============================================================================
