------------------------- MODULE TokenVersionProofs -------------------------
(***************************************************************************)
(* Proofs about TokenVersion, for every set of requests and every bound,   *)
(* with faults and crashes allowed.                                        *)
(***************************************************************************)
EXTENDS TokenVersion, TLAPS

\* What the proofs need of the two helpers that move a request on.
LEMMA MoveType ==
  ASSUME NEW r \in Requests, NEW pc \in Phases, TypeOK, Move(r, pc)
  PROVE  proc' \in [Requests -> Process]
<1>1. proc[r] \in Process
  BY DEF TypeOK
<1>2. [proc[r] EXCEPT !.pc = pc] \in Process
  BY <1>1 DEF Process
<1>3. QED BY <1>2 DEF TypeOK, Move

LEMMA FinishType ==
  ASSUME NEW r \in Requests, TypeOK, Finish(r)
  PROVE  proc' \in [Requests -> Process]
<1>1. NoRequest \in Process
  BY DEF NoRequest, Process, Phases
<1>2. QED BY <1>1 DEF TypeOK, Finish

LEMMA RefuseType ==
  ASSUME NEW r \in Requests, TypeOK, Refuse(r)
  PROVE  proc' \in [Requests -> Process]
<1>1. [NoRequest EXCEPT !.pc = "anonymous"] \in Process
  BY DEF NoRequest, Process, Phases
<1>2. QED BY <1>1, FinishType DEF Refuse, TypeOK

LEMMA DecideType ==
  ASSUME NEW r \in Requests, NEW v, TypeOK, Decide(r, v)
  PROVE  proc' \in [Requests -> Process]
<1>1. CASE v = proc[r].token
  BY <1>1, MoveType DEF Decide, Phases
<1>2. CASE v # proc[r].token
  BY <1>2, RefuseType DEF Decide
<1>3. QED BY <1>1, <1>2

----------------------------------------------------------------------------
(* Type correctness. *)

LEMMA TypeInit == Init => TypeOK
BY DEF Init, TypeOK, NoRequest, Process, Phases

LEMMA TypeStep == TypeOK /\ [Next]_vars => TypeOK'
<1> SUFFICES ASSUME TypeOK, [Next]_vars PROVE TypeOK'
  OBVIOUS
<1> USE DEF TypeOK
<1>1. ASSUME NEW r \in Requests, NEW t \in 0..MaxVersion, StartGuard(r, t) PROVE TypeOK'
  <2>1. t \in Nat
    BY TokenVersionAssumption
  <2>2. [NoRequest EXCEPT !.pc = "readCache", !.token = t] \in Process
    BY <2>1 DEF NoRequest, Process, Phases
  <2>3. QED BY <1>1, <2>2 DEF StartGuard
<1>2. ASSUME NEW r \in Requests, ReadCache(r) PROVE TypeOK'
  BY <1>2, MoveType, DecideType DEF ReadCache, Phases
<1>3. ASSUME NEW r \in Requests, ReadUser(r) PROVE TypeOK'
  <2>1. CASE user = "active"
    <3>1. [proc[r] EXCEPT !.pc = "fill", !.seen = version] \in Process
      BY DEF Process, Phases
    <3>2. QED BY <1>3, <2>1, <3>1 DEF ReadUser
  <2>2. CASE user # "active"
    BY <1>3, <2>2, RefuseType DEF ReadUser
  <2>3. QED BY <2>1, <2>2
<1>4. ASSUME NEW r \in Requests, Fill(r) PROVE TypeOK'
  <2>1. proc[r].seen \in Nat
    BY DEF Process
  <2>2. proc' \in [Requests -> Process]
    BY <1>4, DecideType DEF Fill
  <2>3. QED BY <1>4, <2>1, <2>2 DEF Fill
<1>5. ASSUME NEW r \in Requests, Serve(r) PROVE TypeOK'
  BY <1>5, FinishType DEF Serve
<1>6. ASSUME NEW r \in Requests, StartRevoke(r) PROVE TypeOK'
  <2>1. [NoRequest EXCEPT !.pc = "increment"] \in Process
    BY DEF NoRequest, Process, Phases
  <2>2. QED BY <1>6, <2>1 DEF StartRevoke
<1>7. ASSUME NEW r \in Requests, Increment(r) PROVE TypeOK'
  <2>1. proc' \in [Requests -> Process]
    BY <1>7, MoveType DEF Increment, Phases
  <2>2. QED BY <1>7, <2>1 DEF Increment
<1>8. ASSUME NEW r \in Requests, Invalidate(r) PROVE TypeOK'
  <2>1. proc' \in [Requests -> Process]
    BY <1>8, FinishType DEF Invalidate
  <2>2. QED BY <1>8, <2>1 DEF Invalidate
<1>9. ASSUME NEW st \in {"active", "inactive", "gone"}, ChangeUser(st) PROVE TypeOK'
  BY <1>9 DEF ChangeUser
<1>10. CASE Expire
  BY <1>10 DEF Expire
<1>11. CASE Crash
  BY <1>11 DEF Crash, NoRequest, Process, Phases
<1>12. CASE UNCHANGED vars
  BY <1>12 DEF vars
<1>13. QED
  BY <1>1, <1>2, <1>3, <1>4, <1>5, <1>6, <1>7, <1>8, <1>9, <1>10, <1>11, <1>12
  DEF Next, Proceed

\* Type correctness of every reachable state: incrementTokenVersion's two
\* steps and the guard's four keep version, copy and requests well-formed.
THEOREM Typing == Spec => []TypeOK
<1>1. QED BY TypeInit, TypeStep, PTL DEF Spec

----------------------------------------------------------------------------
(* The copy is never ahead of the document. *)

\* NeverAhead for every request, wherever it is.
SeenInv == \A r \in Requests : proc[r].seen <= version

AheadInv == NeverAhead /\ SeenInv

LEMMA AheadInit == Init => AheadInv
BY DEF Init, AheadInv, NeverAhead, SeenInv, NoRequest

\* A step that gives a request p instead, with a version that exists.
LEMMA AheadMove ==
  ASSUME TypeOK, SeenInv, NEW r \in Requests, NEW p,
         p.seen <= version, proc' = [proc EXCEPT ![r] = p]
  PROVE  \A q \in Requests : proc'[q].seen <= version
<1>1. TAKE q \in Requests
<1>2. CASE q = r
  BY <1>2 DEF TypeOK
<1>3. CASE q # r
  BY <1>3 DEF TypeOK, SeenInv
<1>4. QED BY <1>2, <1>3

LEMMA AheadStep == TypeOK /\ AheadInv /\ [Next]_vars => AheadInv'
<1> SUFFICES ASSUME TypeOK, AheadInv, [Next]_vars PROVE AheadInv'
  OBVIOUS
<1> USE DEF AheadInv, NeverAhead, SeenInv
<1>a. \A q \in Requests : /\ proc[q].seen \in Nat
                          /\ [proc[q] EXCEPT !.seen = version].seen = version
                          /\ \A pc : /\ [proc[q] EXCEPT !.pc = pc].seen <= version
                                     /\ [proc[q] EXCEPT !.pc = pc, !.seen = version].seen <= version
  BY DEF TypeOK, Process
<1>b. 0 <= version /\ NoRequest.seen = 0
  BY DEF TypeOK, NoRequest
\* A request moves on or ends.
<1>c. ASSUME NEW r \in Requests, \/ Finish(r)
                                 \/ \E pc : Move(r, pc)
                                 \/ \E v : Decide(r, v)
                                 \/ Refuse(r)
      PROVE  \A q \in Requests : proc'[q].seen <= version
  <2>1. PICK p : p.seen <= version /\ proc' = [proc EXCEPT ![r] = p]
    BY <1>a, <1>b, <1>c DEF Finish, Move, Decide, Refuse, NoRequest
  <2>2. QED BY <2>1, AheadMove
<1>1. ASSUME NEW r \in Requests, NEW t \in 0..MaxVersion, StartGuard(r, t) PROVE AheadInv'
  <2>1. [NoRequest EXCEPT !.pc = "readCache", !.token = t].seen <= version
    BY <1>b DEF NoRequest
  <2>2. \A q \in Requests : proc'[q].seen <= version
    BY <1>1, <2>1, AheadMove DEF StartGuard
  <2>3. QED BY <1>1, <2>2 DEF StartGuard
<1>2. ASSUME NEW r \in Requests, ReadCache(r) PROVE AheadInv'
  <2>1. \A q \in Requests : proc'[q].seen <= version
    BY <1>2, <1>c DEF ReadCache
  <2>2. QED BY <1>2, <2>1 DEF ReadCache
<1>3. ASSUME NEW r \in Requests, ReadUser(r) PROVE AheadInv'
  <2>1. CASE user = "active"
    BY <1>3, <2>1, <1>a, AheadMove DEF ReadUser
  <2>2. CASE user # "active"
    BY <1>3, <2>2, <1>c DEF ReadUser
  <2>3. QED BY <2>1, <2>2
\* What is filled in was read from the document, whose version only grows.
<1>4. ASSUME NEW r \in Requests, Fill(r) PROVE AheadInv'
  <2>1. \A q \in Requests : proc'[q].seen <= version
    BY <1>4, <1>c DEF Fill
  <2>2. QED BY <1>4, <2>1 DEF Fill
<1>5. ASSUME NEW r \in Requests, Serve(r) PROVE AheadInv'
  BY <1>5, <1>c DEF Serve
<1>6. ASSUME NEW r \in Requests, StartRevoke(r) PROVE AheadInv'
  <2>1. [NoRequest EXCEPT !.pc = "increment"].seen <= version
    BY <1>b DEF NoRequest
  <2>2. \A q \in Requests : proc'[q].seen <= version
    BY <1>6, <2>1, AheadMove DEF StartRevoke
  <2>3. QED BY <1>6, <2>2 DEF StartRevoke
<1>7. ASSUME NEW r \in Requests, Increment(r) PROVE AheadInv'
  <2>1. \A q \in Requests : proc'[q].seen <= version
    BY <1>7, <1>c DEF Increment
  <2>2. proc' \in [Requests -> Process] /\ cache' = cache
    BY <1>7, MoveType DEF Increment, Phases
  <2>3. \A q \in Requests : proc'[q].seen \in Nat
    BY <2>2 DEF Process
  <2>4. version' \in Nat /\ version <= version'
    BY <1>7 DEF Increment, TypeOK
  <2>5. SeenInv'
    BY <2>1, <2>3, <2>4 DEF TypeOK
  <2>6. (cache # NoVersion => cache <= version)'
    BY <2>2, <2>4 DEF TypeOK
  <2>7. QED BY <2>5, <2>6
<1>8. ASSUME NEW r \in Requests, Invalidate(r) PROVE AheadInv'
  <2>1. \A q \in Requests : proc'[q].seen <= version
    BY <1>8, <1>c DEF Invalidate
  <2>2. QED BY <1>8, <2>1 DEF Invalidate
<1>9. ASSUME NEW st \in {"active", "inactive", "gone"}, ChangeUser(st) PROVE AheadInv'
  BY <1>9 DEF ChangeUser
<1>10. CASE Expire
  BY <1>10 DEF Expire
<1>11. CASE Crash
  BY <1>11, <1>b DEF Crash
<1>12. CASE UNCHANGED vars
  BY <1>12 DEF vars
<1>13. QED
  BY <1>1, <1>2, <1>3, <1>4, <1>5, <1>6, <1>7, <1>8, <1>9, <1>10, <1>11, <1>12
  DEF Next, Proceed

\* AuthGuard never works with a version the document has not reached, and
\* never puts one in Redis, whatever interleaves, fails or restarts: a copy
\* that is wrong is only ever too old.
THEOREM CopyNotAhead == Spec => []NeverAhead
<1>1. AheadInv => NeverAhead
  BY DEF AheadInv
<1>2. QED BY <1>1, TypeInit, TypeStep, AheadInit, AheadStep, PTL DEF Spec

----------------------------------------------------------------------------
(* One request at a time, and neither faults nor crashes. *)

Serial ==
  /\ \A q, r \in Requests : q = r
  /\ ~Faults
  /\ ~Crashes

\* Only between its two steps does incrementTokenVersion leave an old copy,
\* and nothing that reads it runs then.
SerialInv ==
  /\ cache \notin {NoVersion, version} => \E r \in Requests : proc[r].pc = "invalidate"
  /\ \A r \in Requests : /\ proc[r].pc = "fill" => proc[r].seen = version
                         /\ proc[r].pc = "serve" => proc[r].token = version

LEMMA SerialInit == Init => SerialInv
BY DEF Init, SerialInv, NoRequest

\* The only request that can be there, once it is r.
LEMMA SerialCopy ==
  ASSUME Serial, SerialInv, NEW r \in Requests, proc[r].pc # "invalidate"
  PROVE  cache \in {NoVersion, version}
BY DEF Serial, SerialInv

\* What a step of the only request has to establish.
LEMMA SerialMove ==
  ASSUME Serial, TypeOK, NEW r \in Requests, NEW p, proc' = [proc EXCEPT ![r] = p],
         cache' \notin {NoVersion, version'} => p.pc = "invalidate",
         p.pc = "fill" => p.seen = version',
         p.pc = "serve" => p.token = version'
  PROVE  SerialInv'
<1>1. \A q \in Requests : proc'[q] = p
  BY DEF Serial, TypeOK
<1>2. QED BY <1>1 DEF SerialInv

LEMMA SerialStep == Serial /\ TypeOK /\ SerialInv /\ [Next]_vars => SerialInv'
<1> SUFFICES ASSUME Serial, TypeOK, SerialInv, [Next]_vars PROVE SerialInv'
  OBVIOUS
<1>a. \A r \in Requests : proc[r] \in Process
  BY DEF TypeOK
<1>b. NoRequest.pc = "idle"
  BY DEF NoRequest
<1>1. ASSUME NEW r \in Requests, NEW t \in 0..MaxVersion, StartGuard(r, t) PROVE SerialInv'
  <2>1. cache \in {NoVersion, version}
    BY <1>1, SerialCopy DEF StartGuard, Idle
  <2>2. [NoRequest EXCEPT !.pc = "readCache", !.token = t].pc = "readCache"
    BY DEF NoRequest
  <2>3. QED BY <1>1, <2>1, <2>2, SerialMove DEF StartGuard
\* A hit is the document's version: the token that matches it is current.
<1>2. ASSUME NEW r \in Requests, ReadCache(r) PROVE SerialInv'
  <2>1. cache \in {NoVersion, version} /\ UNCHANGED <<version, cache>>
    BY <1>2, SerialCopy DEF ReadCache
  <2>2. CASE cache # NoVersion /\ cache = proc[r].token
    <3> DEFINE p == [proc[r] EXCEPT !.pc = "serve"]
    <3>1. p.pc = "serve" /\ p.token = version
      BY <1>a, <2>1, <2>2 DEF Process
    <3>2. proc' = [proc EXCEPT ![r] = p] \/ proc' = [proc EXCEPT ![r] = [@ EXCEPT !.pc = "readUser"]]
      BY <1>2, <2>2 DEF ReadCache, Decide, Move
    <3>3. [proc[r] EXCEPT !.pc = "readUser"].pc = "readUser"
      BY <1>a DEF Process
    <3>4. QED BY <2>1, <3>1, <3>2, <3>3, SerialMove
  <2>3. CASE ~(cache # NoVersion /\ cache = proc[r].token)
    <3>1. PICK p : p.pc \in {"idle", "anonymous", "readUser"} /\ proc' = [proc EXCEPT ![r] = p]
      BY <1>2, <2>3, <1>a, <1>b DEF ReadCache, Decide, Refuse, Move, Finish, Process, NoRequest
    <3>2. QED BY <2>1, <3>1, SerialMove
  <2>4. QED BY <2>2, <2>3
<1>3. ASSUME NEW r \in Requests, ReadUser(r) PROVE SerialInv'
  <2>1. cache \in {NoVersion, version} /\ UNCHANGED <<version, cache>>
    BY <1>3, SerialCopy DEF ReadUser
  <2>2. PICK p : /\ p.pc \in {"idle", "anonymous"} \/ (p.pc = "fill" /\ p.seen = version)
                 /\ proc' = [proc EXCEPT ![r] = p]
    BY <1>3, <1>a, <1>b DEF ReadUser, Refuse, Finish, Process, NoRequest
  <2>3. QED BY <2>1, <2>2, SerialMove
\* What was read is still the document's version when it is written.
<1>4. ASSUME NEW r \in Requests, Fill(r) PROVE SerialInv'
  <2>1. proc[r].seen = version /\ version' = version /\ cache' = version
    BY <1>4 DEF Fill, SerialInv, Serial
  <2>2. PICK p : /\ p.pc \in {"idle", "anonymous"} \/ (p.pc = "serve" /\ p.token = version)
                 /\ proc' = [proc EXCEPT ![r] = p]
    BY <1>4, <2>1, <1>a, <1>b DEF Fill, Decide, Refuse, Move, Finish, Process, NoRequest
  <2>3. QED BY <2>1, <2>2, SerialMove
<1>5. ASSUME NEW r \in Requests, Serve(r) PROVE SerialInv'
  <2>1. cache \in {NoVersion, version} /\ UNCHANGED <<version, cache>>
    BY <1>5, SerialCopy DEF Serve
  <2>2. QED BY <1>5, <2>1, <1>b, SerialMove DEF Serve, Finish
<1>6. ASSUME NEW r \in Requests, StartRevoke(r) PROVE SerialInv'
  <2>1. cache \in {NoVersion, version} /\ UNCHANGED <<version, cache>>
    BY <1>6, SerialCopy DEF StartRevoke, Idle
  <2>2. [NoRequest EXCEPT !.pc = "increment"].pc = "increment"
    BY DEF NoRequest
  <2>3. QED BY <1>6, <2>1, <2>2, SerialMove DEF StartRevoke
\* The copy may be old from here on, and the request is about to delete it.
<1>7. ASSUME NEW r \in Requests, Increment(r) PROVE SerialInv'
  <2>1. [proc[r] EXCEPT !.pc = "invalidate"].pc = "invalidate"
    BY <1>a DEF Process
  <2>2. QED BY <1>7, <2>1, SerialMove DEF Increment, Move
<1>8. ASSUME NEW r \in Requests, Invalidate(r) PROVE SerialInv'
  <2>1. cache' = NoVersion
    BY <1>8 DEF Invalidate, Serial
  <2>2. QED BY <1>8, <2>1, <1>b, SerialMove DEF Invalidate, Finish
<1>9. ASSUME NEW st \in {"active", "inactive", "gone"}, ChangeUser(st) PROVE SerialInv'
  BY <1>9 DEF ChangeUser, SerialInv
<1>10. CASE Expire
  BY <1>10 DEF Expire, SerialInv
<1>11. CASE Crash
  BY <1>11 DEF Crash, Serial
<1>12. CASE UNCHANGED vars
  BY <1>12 DEF vars, SerialInv
<1>13. QED
  BY <1>1, <1>2, <1>3, <1>4, <1>5, <1>6, <1>7, <1>8, <1>9, <1>10, <1>11, <1>12
  DEF Next, Proceed

\* As long as requests do not overlap and nothing fails, the copy AuthGuard
\* compares with is the document's version or missing whenever the server is at
\* rest, and no request gets past the guard with a revoked token.
THEOREM SerialRevocation ==
  ASSUME Serial
  PROVE  Spec => [](CoherentAtRest /\ ServesCurrent)
<1>1. SerialInv => CoherentAtRest
  BY DEF SerialInv, CoherentAtRest, Coherent, Idle
<1>2. SerialInv => ServesCurrent
  BY DEF SerialInv, ServesCurrent
<1>3. Init => SerialInv
  BY SerialInit
<1>4. TypeOK /\ SerialInv /\ [Next]_vars => SerialInv'
  BY SerialStep
<1>5. QED BY <1>1, <1>2, <1>3, <1>4, TypeInit, TypeStep, PTL DEF Spec

----------------------------------------------------------------------------
(* What a revocation leaves behind runs out. *)

Sticks ==
  /\ Stale' \subseteq Stale
  /\ ~Coherent' => cache' = cache \/ \E r \in Stale \ Stale' : cache' = proc[r].seen
  /\ Coherent => Outdated' \subseteq Outdated \cup Stale

\* A request that goes on as p, knowing no older version than before.
LEMMA StickMove ==
  ASSUME TypeOK, NEW r \in Requests, NEW p, proc' = [proc EXCEPT ![r] = p],
         version' = version,
         p.pc = "fill" => p.seen = version,
         cache' \in {cache, NoVersion} \/ (proc[r].pc = "fill" /\ cache' = proc[r].seen),
         Coherent /\ p.pc = "serve" => p.token = version \/ r \in Stale
  PROVE  Sticks
<1>1. \A q \in Requests : q # r => proc'[q] = proc[q]
  BY DEF TypeOK
<1>2. proc'[r] = p
  BY DEF TypeOK
<1>3. Stale' = Stale \ {r}
  BY <1>1, <1>2 DEF Stale
<1>4. ASSUME ~Coherent', cache' # cache PROVE r \in Stale /\ cache' = proc[r].seen
  BY <1>4 DEF Coherent, Stale
<1>5. ASSUME Coherent PROVE Outdated' \subseteq Outdated \cup Stale
  BY <1>1, <1>2, <1>5 DEF Outdated
<1>6. QED BY <1>3, <1>4, <1>5 DEF Sticks

LEMMA StickStep == TypeOK /\ [Next]_vars /\ version' = version => Sticks
<1> SUFFICES ASSUME TypeOK, [Next]_vars, version' = version PROVE Sticks
  OBVIOUS
<1>a. \A r \in Requests : proc[r] \in Process
  BY DEF TypeOK
<1>b. NoRequest.pc = "idle"
  BY DEF NoRequest
<1>1. ASSUME NEW r \in Requests, NEW t \in 0..MaxVersion, StartGuard(r, t) PROVE Sticks
  <2>1. [NoRequest EXCEPT !.pc = "readCache", !.token = t].pc = "readCache"
    BY DEF NoRequest
  <2>2. QED BY <1>1, <2>1, StickMove DEF StartGuard
\* A hit is trusted: the copy is the version, unless it is stale already.
<1>2. ASSUME NEW r \in Requests, ReadCache(r) PROVE Sticks
  <2>1. CASE cache # NoVersion /\ cache = proc[r].token /\ Move(r, "serve")
    <3> DEFINE p == [proc[r] EXCEPT !.pc = "serve"]
    <3>1. p.pc = "serve" /\ p.token = cache
      BY <1>a, <2>1 DEF Process
    <3>2. proc' = [proc EXCEPT ![r] = p] /\ cache' = cache
      BY <1>2, <2>1 DEF ReadCache, Move
    <3>3. Coherent => p.token = version
      BY <2>1, <3>1 DEF Coherent
    <3> HIDE DEF p
    <3>4. QED BY <3>1, <3>2, <3>3, StickMove
  <2>2. CASE ~(cache # NoVersion /\ cache = proc[r].token /\ Move(r, "serve"))
    <3>1. PICK p : p.pc \in {"idle", "anonymous", "readUser"} /\ proc' = [proc EXCEPT ![r] = p]
      BY <1>2, <2>2, <1>a, <1>b DEF ReadCache, Decide, Refuse, Move, Finish, Process, NoRequest
    <3>2. QED BY <1>2, <3>1, StickMove DEF ReadCache
  <2>3. QED BY <2>1, <2>2
<1>3. ASSUME NEW r \in Requests, ReadUser(r) PROVE Sticks
  <2>1. PICK p : /\ p.pc \in {"idle", "anonymous"} \/ (p.pc = "fill" /\ p.seen = version)
                 /\ proc' = [proc EXCEPT ![r] = p]
    BY <1>3, <1>a, <1>b DEF ReadUser, Refuse, Finish, Process, NoRequest
  <2>2. QED BY <1>3, <2>1, StickMove DEF ReadUser
\* Only here a stale copy is written, by a request that is stale no longer.
<1>4. ASSUME NEW r \in Requests, Fill(r) PROVE Sticks
  <2>1. PICK p : /\ p.pc \in {"idle", "anonymous"} \/ (p.pc = "serve" /\ p.token = proc[r].seen)
                 /\ proc' = [proc EXCEPT ![r] = p]
    BY <1>4, <1>a, <1>b DEF Fill, Decide, Refuse, Move, Finish, Process, NoRequest
  <2>2. proc[r].seen = version \/ r \in Stale
    BY <1>4 DEF Fill, Stale
  <2>3. QED BY <1>4, <2>1, <2>2, StickMove DEF Fill
<1>5. ASSUME NEW r \in Requests, Serve(r) PROVE Sticks
  BY <1>5, <1>b, StickMove DEF Serve, Finish
<1>6. ASSUME NEW r \in Requests, StartRevoke(r) PROVE Sticks
  <2>1. [NoRequest EXCEPT !.pc = "increment"].pc = "increment"
    BY DEF NoRequest
  <2>2. QED BY <1>6, <2>1, StickMove DEF StartRevoke
\* The account is gone, or the version would have changed.
<1>7. ASSUME NEW r \in Requests, Increment(r) PROVE Sticks
  <2>1. [proc[r] EXCEPT !.pc = "invalidate"].pc = "invalidate"
    BY <1>a DEF Process
  <2>2. QED BY <1>7, <2>1, StickMove DEF Increment, Move
<1>8. ASSUME NEW r \in Requests, Invalidate(r) PROVE Sticks
  BY <1>8, <1>b, StickMove DEF Invalidate, Finish
<1>9. ASSUME UNCHANGED proc, cache' \in {cache, NoVersion} PROVE Sticks
  BY <1>9 DEF Sticks, Stale, Outdated, Coherent
<1>10. CASE Crash
  <2>1. Stale' = {} /\ Outdated' = {} /\ cache' = cache
    BY <1>10, <1>b DEF Crash, Stale, Outdated
  <2>2. QED BY <2>1 DEF Sticks
<1>11. QED
  BY <1>1, <1>2, <1>3, <1>4, <1>5, <1>6, <1>7, <1>8, <1>9, <1>10
  DEF Next, Proceed, ChangeUser, Expire, vars

\* However requests overlap, fail or are lost: once the version was raised
\* nobody new remembers the old one, those who do can each make the copy stale
\* once more, and only they, or a stale copy, let an ended token through.
THEOREM RevocationsLast == Spec => RevocationsStick
<1>1. TypeOK /\ [Next]_vars => [version' = version => Sticks]_vars
  BY StickStep
<1>2. QED
  BY <1>1, TypeInit, TypeStep, PTL DEF Spec, RevocationsStick, Sticks
=============================================================================
