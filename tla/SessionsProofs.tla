--------------------------- MODULE SessionsProofs ---------------------------
(***************************************************************************)
(* Theorems about Sessions and SessionsOverlap, for every number of        *)
(* requests and tokens and every device limit.                             *)
(***************************************************************************)
EXTENDS SessionsOverlap, SequenceTheorems, FiniteSetTheorems, TLAPS

----------------------------------------------------------------------------
\* Removing a jti from a list leaves a list.
LEMMA WithoutTyped ==
  ASSUME NEW s \in Seq(Jtis), NEW j
  PROVE  Without(s, j) \in Seq(Jtis)
  <1>1. CASE j \notin Elements(s)
    BY <1>1 DEF Without
  <1>2. CASE j \in Elements(s)
    <2> DEFINE k == CHOOSE k \in DOMAIN s : s[k] = j
    <2>1. Len(s) \in Nat /\ Len(s) >= 1
      BY <1>2 DEF Elements
    <2>2. \A i \in 1..(Len(s) - 1) : (IF i < k THEN s[i] ELSE s[i + 1]) \in Jtis
      BY <2>1
    <2>3. Without(s, j) = [i \in 1..(Len(s) - 1) |-> IF i < k THEN s[i] ELSE s[i + 1]]
      BY <1>2 DEF Without
    <2>4. Len(s) - 1 \in Nat
      BY <2>1
    <2>. HIDE DEF k
    <2>. QED
      BY <2>2, <2>3, <2>4, SeqDef
  <1>. QED
    BY <1>1, <1>2

LEMMA NoRequestTyped == NoRequest \in Process /\ NoRequest.pc = "idle"
  <1>1. <<>> \in Seq(Jtis)
    OBVIOUS
  <1>. QED
    BY <1>1 DEF NoRequest, Process, Phases, LoginPhases, Endpoints, Logins

\* The ways a step changes the request it belongs to, and no other.
LEMMA MoveEffect ==
  ASSUME proc \in [Requests -> Process], NEW r \in Requests, NEW pc \in Phases, Move(r, pc)
  PROVE  /\ proc' \in [Requests -> Process]
         /\ proc'[r].pc = pc
         /\ proc'[r].new = proc[r].new /\ proc'[r].seen = proc[r].seen
         /\ \A x \in Requests : x # r => proc'[x] = proc[x]
  <1> DEFINE q == [proc[r] EXCEPT !.pc = pc]
  <1>1. q \in Process /\ q.pc = pc /\ q.new = proc[r].new /\ q.seen = proc[r].seen
    BY DEF Process
  <1>2. proc' = [proc EXCEPT ![r] = q]
    BY DEF Move
  <1>. HIDE DEF q
  <1>. QED
    BY <1>1, <1>2

LEMMA ReadsTyped ==
  ASSUME list \in Seq(Jtis)
  PROVE  \A s \in ListReads : s \in Seq(Jtis)
  <1>1. <<>> \in Seq(Jtis)
    OBVIOUS
  <1>2. ListReads \subseteq {list, <<>>}
    BY DEF ListReads
  <1>. QED
    BY <1>1, <1>2

LEMMA ReadListEffect ==
  ASSUME proc \in [Requests -> Process], list \in Seq(Jtis),
         NEW r \in Requests, NEW pc \in Phases, ReadList(r, pc)
  PROVE  /\ proc' \in [Requests -> Process]
         /\ proc'[r].pc = pc
         /\ proc'[r].new = proc[r].new
         /\ \A x \in Requests : x # r => proc'[x] = proc[x]
  <1>1. PICK s \in ListReads :
          proc' = [proc EXCEPT ![r] = [proc[r] EXCEPT !.pc = pc, !.seen = s]]
    BY DEF ReadList
  <1> DEFINE q == [proc[r] EXCEPT !.pc = pc, !.seen = s]
  <1>2. s \in Seq(Jtis)
    BY ReadsTyped
  <1>3. q \in Process /\ q.pc = pc /\ q.new = proc[r].new
    BY <1>2 DEF Process
  <1>4. proc' = [proc EXCEPT ![r] = q]
    BY <1>1
  <1>. HIDE DEF q
  <1>. QED
    BY <1>3, <1>4

LEMMA AnswerEffect ==
  ASSUME TypeOK, NEW r \in Requests, Answer(r)
  PROVE  /\ proc' \in [Requests -> Process]
         /\ proc'[r].pc = "idle"
         /\ \A x \in Requests : x # r => proc'[x] = proc[x]
         /\ stage' \in [Jtis -> {"fresh", "made", "held", "expired"}]
  <1>1. proc' = [proc EXCEPT ![r] = NoRequest]
    BY DEF Answer
  <1>2. stage' \in [Jtis -> {"fresh", "made", "held", "expired"}]
    BY DEF Answer, TypeOK
  <1>. QED
    BY <1>1, <1>2, NoRequestTyped DEF TypeOK

LEMMA WriteTokensTyped ==
  ASSUME tokens \in SUBSET Jtis, NEW D, NEW A \in SUBSET Jtis, WriteTokens(D, A)
  PROVE  tokens' \in SUBSET Jtis
  BY DEF WriteTokens

LEMMA WriteListTyped ==
  ASSUME list \in Seq(Jtis), NEW s \in Seq(Jtis), WriteList(s)
  PROVE  list' \in Seq(Jtis)
  BY DEF WriteList

----------------------------------------------------------------------------
\* What the phase of a request says of its variables: it has made a jti, and
\* it only evicts from a list that is too long.
LocalInv ==
  \A r \in Requests :
    /\ proc[r].pc \in LoginPhases \cup {"drop", "add"} => proc[r].new \in Jtis
    /\ proc[r].pc \in {"evict", "trim"} => Len(proc[r].seen) > MaxDevices

SessionsInv == TypeOK /\ LocalInv

\* The typed parts of the state, for one step of request r.
StepTyped(r) ==
  /\ proc' \in [Requests -> Process]
  /\ \A x \in Requests : x # r => proc'[x] = proc[x]
  /\ proc'[r].pc \in LoginPhases \cup {"drop", "add"} => proc'[r].new \in Jtis
  /\ proc'[r].pc \in {"evict", "trim"} => Len(proc'[r].seen) > MaxDevices
  /\ proc'[r].pc \in LoginPhases => InLogin(r)
  /\ InLogin(r) /\ proc'[r].pc \notin LoginPhases => Unlock(r)

LEMMA LoginProceeds ==
  ASSUME SessionsInv, NEW r \in Requests,
         \/ Store(r) \/ ReadSessions(r) \/ WriteSessions(r) \/ ReadForLimit(r)
         \/ Evict(r) \/ EvictNext(r) \/ Trim(r) \/ Unlock(r)
  PROVE  StepTyped(r) /\ TypeOK'
  <1>0. /\ TypeOK /\ proc \in [Requests -> Process] /\ list \in Seq(Jtis)
        /\ tokens \in SUBSET Jtis /\ proc[r] \in Process
    BY DEF SessionsInv, TypeOK
  <1>1. /\ proc[r].pc \in LoginPhases => proc[r].new \in Jtis
        /\ proc[r].pc \in {"evict", "trim"} => Len(proc[r].seen) > MaxDevices
        /\ proc[r].seen \in Seq(Jtis) /\ proc[r].gone \in Nat
    BY <1>0 DEF SessionsInv, LocalInv, Process
  <1>2. LoginPhases \subseteq Phases /\ "idle" \notin LoginPhases
    BY DEF Phases, LoginPhases
  <1>3. CASE Store(r)
    <2>1. tokens' \in SUBSET Jtis
      <3>1. WriteTokens({}, {proc[r].new}) /\ {proc[r].new} \in SUBSET Jtis
        BY <1>1, <1>3 DEF Store, LoginPhases
      <3>. QED
        BY <1>0, <3>1, WriteTokensTyped
    <2>. QED
      BY <1>0, <1>1, <1>2, <1>3, <2>1, MoveEffect
      DEF Store, StepTyped, InLogin, LoginPhases, TypeOK
  <1>4. CASE ReadSessions(r)
    BY <1>0, <1>1, <1>2, <1>4, ReadListEffect
    DEF ReadSessions, StepTyped, InLogin, LoginPhases, TypeOK
  <1>5. CASE WriteSessions(r)
    <2>1. Append(proc[r].seen, proc[r].new) \in Seq(Jtis)
      BY <1>1, <1>5 DEF WriteSessions, LoginPhases
    <2>2. list' \in Seq(Jtis)
      BY <1>0, <1>5, <2>1, WriteListTyped DEF WriteSessions
    <2>. QED
      BY <1>0, <1>1, <1>2, <1>5, <2>2, MoveEffect
      DEF WriteSessions, StepTyped, InLogin, LoginPhases, TypeOK
  <1>6. CASE ReadForLimit(r)
    <2>1. PICK s \in ListReads :
            proc' = [proc EXCEPT ![r] = [proc[r] EXCEPT
              !.pc = IF Len(s) <= MaxDevices THEN "unlock" ELSE "evict", !.seen = s]]
      BY <1>6 DEF ReadForLimit
    <2>2. s \in Seq(Jtis) /\ Len(s) \in Nat /\ MaxDevices \in Nat
      BY <1>0, ReadsTyped, SessionsAssumption
    <2> DEFINE next == IF Len(s) <= MaxDevices THEN "unlock" ELSE "evict"
               q == [proc[r] EXCEPT !.pc = next, !.seen = s]
    <2>3. /\ next \in {"unlock", "evict"} /\ next \in Phases
          /\ next = "evict" => Len(s) > MaxDevices
      BY <2>2 DEF Phases, LoginPhases
    <2>4. /\ q \in Process /\ q.pc = next /\ q.seen = s /\ q.new = proc[r].new
      BY <1>0, <2>2, <2>3 DEF Process
    <2>5. proc' = [proc EXCEPT ![r] = q]
      BY <2>1
    <2> HIDE DEF q, next
    <2>6. /\ proc' \in [Requests -> Process] /\ proc'[r] = q
          /\ \A x \in Requests : x # r => proc'[x] = proc[x]
      BY <1>0, <2>4, <2>5
    <2>7. proc[r].pc = "readLimit" /\ UNCHANGED <<tokens, rotatedFrom, list, lock, stage>>
      BY <1>6 DEF ReadForLimit
    <2>. QED
      BY <1>0, <1>1, <2>3, <2>4, <2>6, <2>7 DEF StepTyped, InLogin, LoginPhases, TypeOK
  <1>7. CASE Evict(r)
    <2>1. tokens' \in SUBSET Jtis
      <3>1. WriteTokens(Elements(Oldest(proc[r].op, proc[r].seen)), {}) /\ {} \in SUBSET Jtis
        BY <1>7 DEF Evict
      <3>. QED
        BY <1>0, <3>1, WriteTokensTyped
    <2>. QED
      BY <1>0, <1>1, <1>2, <1>7, <2>1, MoveEffect
      DEF Evict, StepTyped, InLogin, LoginPhases, TypeOK
  <1>8. CASE EvictNext(r)
    <2>1. tokens' \in SUBSET Jtis
      <3>1. WriteTokens({proc[r].seen[proc[r].gone + 1]}, {}) /\ {} \in SUBSET Jtis
        BY <1>8 DEF EvictNext
      <3>. QED
        BY <1>0, <3>1, WriteTokensTyped
    <2> DEFINE next == IF proc[r].gone + 1 < Excess(proc[r].op, proc[r].seen)
                         THEN "evict" ELSE "trim"
               q == [proc[r] EXCEPT !.pc = next, !.gone = proc[r].gone + 1]
    <2>2. proc' = [proc EXCEPT ![r] = q]
      BY <1>8 DEF EvictNext
    <2>3. next \in {"evict", "trim"} /\ next \in Phases /\ proc[r].gone + 1 \in Nat
      BY <1>1 DEF Phases, LoginPhases
    <2> HIDE DEF next
    <2>4. /\ q \in Process /\ q.pc = next
          /\ q.seen = proc[r].seen /\ q.new = proc[r].new
      BY <1>0, <2>3 DEF Process
    <2>5. proc' = [proc EXCEPT ![r] = q]
      BY <2>2
    <2> HIDE DEF q
    <2>6. /\ proc' \in [Requests -> Process] /\ proc'[r] = q
          /\ \A x \in Requests : x # r => proc'[x] = proc[x]
      BY <1>0, <2>4, <2>5
    <2>7. proc[r].pc = "evict" /\ UNCHANGED <<rotatedFrom, list, lock, stage>>
      BY <1>8 DEF EvictNext
    <2>. QED
      BY <1>0, <1>1, <2>1, <2>3, <2>4, <2>6, <2>7 DEF StepTyped, InLogin, LoginPhases, TypeOK
  <1>9. CASE Trim(r)
    <2> DEFINE s == proc[r].seen
               m == Excess(proc[r].op, s) + 1
    <2>1. Len(s) > MaxDevices /\ Len(s) \in Nat /\ MaxDevices \in Nat
      BY <1>1, <1>9, SessionsAssumption DEF Trim
    <2>2. m \in Int /\ m >= 1
      BY <2>1 DEF Excess
    <2>3. \A i \in 1..Len(s) : s[i] \in Jtis
      BY <1>1
    <2>3b. \A i \in m..Len(s) : i \in 1..Len(s)
      BY <2>1, <2>2
    <2> HIDE DEF m
    <2>4. SubSeq(s, m, Len(s)) \in Seq(Jtis)
      BY <2>1, <2>2, <2>3, <2>3b, SubSeqProperties
    <2>5. Newest(proc[r].op, s) \in Seq(Jtis)
      BY <2>4 DEF Newest, m
    <2>6. list' \in Seq(Jtis)
      BY <1>0, <1>9, <2>5, WriteListTyped DEF Trim
    <2>. QED
      BY <1>0, <1>1, <1>2, <1>9, <2>6, MoveEffect
      DEF Trim, StepTyped, InLogin, LoginPhases, TypeOK
  <1>10. CASE Unlock(r)
    BY <1>0, <1>10, <1>2, AnswerEffect DEF Unlock, StepTyped, InLogin, LoginPhases, TypeOK
  <1>. QED
    BY <1>3, <1>4, <1>5, <1>6, <1>7, <1>8, <1>9, <1>10

LEMMA OthersProceed ==
  ASSUME SessionsInv, NEW r \in Requests,
         \/ Lookup(r) \/ CheckUser(r) \/ Drop(r) \/ Add(r)
         \/ (\E j \in Jtis : Rotate(r, j))
         \/ ReadAll(r) \/ Wipe(r) \/ Forget(r)
  PROVE  StepTyped(r) /\ TypeOK' /\ UNCHANGED lock /\ ~InLogin(r)
  <1>0. /\ TypeOK /\ proc \in [Requests -> Process] /\ list \in Seq(Jtis)
        /\ tokens \in SUBSET Jtis /\ proc[r] \in Process
    BY DEF SessionsInv, TypeOK
  <1>1. /\ proc[r].pc \in {"drop", "add"} => proc[r].new \in Jtis
        /\ proc[r].seen \in Seq(Jtis)
    BY <1>0 DEF SessionsInv, LocalInv, Process
  <1>2. {"idle", "lookup", "status", "rotate", "drop", "add", "readAll", "wipe", "forget"}
          \subseteq Phases
    BY DEF Phases
  <1>3. CASE Lookup(r) \/ CheckUser(r)
    BY <1>0, <1>2, <1>3, MoveEffect
    DEF Lookup, CheckUser, StepTyped, InLogin, LoginPhases, TypeOK
  <1>4. CASE Drop(r)
    <2>1. list' \in Seq(Jtis)
      BY <1>0, <1>1, <1>4, WithoutTyped, WriteListTyped DEF Drop
    <2>. QED
      BY <1>0, <1>1, <1>2, <1>4, <2>1, MoveEffect
      DEF Drop, StepTyped, InLogin, LoginPhases, TypeOK
  <1>5. CASE Add(r)
    <2>1. Append(proc[r].seen, proc[r].new) \in Seq(Jtis)
      BY <1>1, <1>5 DEF Add
    <2>2. list' \in Seq(Jtis)
      BY <1>0, <1>5, <2>1, WriteListTyped DEF Add
    <2>. QED
      BY <1>0, <1>5, <2>2, AnswerEffect DEF Add, StepTyped, InLogin, LoginPhases, TypeOK
  <1>6. CASE \E j \in Jtis : Rotate(r, j)
    <2>1. PICK j \in Jtis : Rotate(r, j)
      BY <1>6
    <2>2. PICK s \in ListReads :
            proc' = [proc EXCEPT ![r] = [proc[r] EXCEPT !.pc = "drop", !.new = j, !.seen = s]]
      BY <2>1 DEF Rotate
    <2> DEFINE q == [proc[r] EXCEPT !.pc = "drop", !.new = j, !.seen = s]
    <2>3. s \in Seq(Jtis)
      BY <1>0, ReadsTyped
    <2>4. q \in Process /\ q.pc = "drop" /\ q.new = j
      BY <1>0, <1>2, <2>3 DEF Process
    <2>5. proc' = [proc EXCEPT ![r] = q]
      BY <2>2
    <2> HIDE DEF q
    <2>6. /\ proc' \in [Requests -> Process] /\ proc'[r] = q
          /\ \A x \in Requests : x # r => proc'[x] = proc[x]
      BY <1>0, <2>4, <2>5
    <2>7. tokens' \in SUBSET Jtis
      <3>1. WriteTokens({proc[r].jti}, {j}) /\ {j} \in SUBSET Jtis
        BY <2>1 DEF Rotate
      <3>. QED
        BY <1>0, <3>1, WriteTokensTyped
    <2>8. rotatedFrom' \in [Jtis -> Jtis \cup {NoJti}]
      <3>1. proc[r].jti \in Jtis \cup {NoJti}
        BY <1>0 DEF Process
      <3>2. rotatedFrom' = [rotatedFrom EXCEPT ![j] = proc[r].jti]
        BY <2>1 DEF Rotate
      <3>. QED
        BY <1>0, <3>1, <3>2 DEF TypeOK
    <2>9. stage' \in [Jtis -> {"fresh", "made", "held", "expired"}]
      BY <1>0, <2>1 DEF Rotate, TypeOK
    <2>10. proc[r].pc = "rotate" /\ UNCHANGED <<list, lock>>
      BY <2>1 DEF Rotate
    <2>. QED
      BY <1>0, <2>4, <2>6, <2>7, <2>8, <2>9, <2>10 DEF StepTyped, InLogin, LoginPhases, TypeOK
  <1>7. CASE ReadAll(r)
    BY <1>0, <1>2, <1>7, ReadListEffect DEF ReadAll, StepTyped, InLogin, LoginPhases, TypeOK
  <1>8. CASE Wipe(r)
    <2>1. <<>> \in Seq(Jtis)
      OBVIOUS
    <2>2. list' \in Seq(Jtis)
      BY <1>0, <1>8, <2>1, WriteListTyped DEF Wipe
    <2>3. tokens' \in SUBSET Jtis
      <3>1. WriteTokens(Elements(proc[r].seen), {}) /\ {} \in SUBSET Jtis
        BY <1>8 DEF Wipe
      <3>. QED
        BY <1>0, <3>1, WriteTokensTyped
    <2>. QED
      BY <1>0, <1>8, <2>2, <2>3, AnswerEffect DEF Wipe, StepTyped, InLogin, LoginPhases, TypeOK
  <1>9. CASE Forget(r)
    <2>1. list' \in Seq(Jtis)
      BY <1>0, <1>1, <1>9, WithoutTyped, WriteListTyped DEF Forget
    <2>. QED
      BY <1>0, <1>9, <2>1, AnswerEffect DEF Forget, StepTyped, InLogin, LoginPhases, TypeOK
  <1>. QED
    BY <1>3, <1>4, <1>5, <1>6, <1>7, <1>8, <1>9

\* A login that takes the lock without learning it leaves everything else.
LEMMA LostAnswer ==
  ASSUME NEW r \in Requests, NEW op \in Logins, AcquireLost(r, op)
  PROVE  Faults /\ Idle(r) /\ ~lock /\ lock' /\ UNCHANGED <<tokens, rotatedFrom, list, stage, proc>>
  BY DEF AcquireLost

\* A request starts outside the login phases, unless it takes the lock.
LEMMA StartEffect ==
  ASSUME SessionsInv, NEW r \in Requests, Start(r)
  PROVE  /\ TypeOK'
         /\ \A x \in Requests : x # r => proc'[x] = proc[x]
         /\ proc'[r].pc \in {"idle", "store", "lookup", "readAll", "forget"}
         /\ proc'[r].pc = "store" => proc'[r].new \in Jtis /\ ~lock /\ lock'
         /\ UNCHANGED lock \/ (~lock /\ lock')
         /\ proc'[r].pc = "idle" =>
              Faults /\ UNCHANGED <<tokens, rotatedFrom, list, stage, proc>>
         /\ Idle(r) /\ ~InLogin(r)
  <1>0. /\ TypeOK /\ proc \in [Requests -> Process] /\ list \in Seq(Jtis)
        /\ tokens \in SUBSET Jtis /\ NoRequest \in Process
    BY NoRequestTyped DEF SessionsInv, TypeOK
  <1>1. {"store", "lookup", "readAll", "forget"} \subseteq Phases
    BY DEF Phases, LoginPhases
  <1>2. Idle(r) /\ ~InLogin(r)
    BY DEF Start, AcquireLost, Acquire, StartRefresh, Logout, StartLogoutAll, Idle, InLogin, LoginPhases
  <1>3. ASSUME NEW op \in Logins, NEW j \in Jtis, Acquire(r, op, j)
        PROVE  /\ TypeOK'
               /\ \A x \in Requests : x # r => proc'[x] = proc[x]
               /\ proc'[r].pc = "store" /\ proc'[r].new \in Jtis /\ ~lock /\ lock'
    <2> DEFINE q == [NoRequest EXCEPT !.pc = "store", !.op = op, !.new = j]
    <2>1. op \in Endpoints
      BY DEF Endpoints
    <2>2. q \in Process /\ q.pc = "store" /\ q.new = j
      BY <1>0, <1>1, <2>1 DEF Process
    <2>3. proc' = [proc EXCEPT ![r] = q]
      BY <1>3 DEF Acquire
    <2> HIDE DEF q
    <2>4. /\ proc' \in [Requests -> Process] /\ proc'[r] = q
          /\ \A x \in Requests : x # r => proc'[x] = proc[x]
      BY <1>0, <2>2, <2>3
    <2>. QED
      BY <1>0, <1>3, <2>2, <2>4 DEF Acquire, TypeOK
  <1>4. ASSUME NEW j \in Jtis, StartRefresh(r, j)
        PROVE  /\ TypeOK'
               /\ \A x \in Requests : x # r => proc'[x] = proc[x]
               /\ proc'[r].pc = "lookup" /\ UNCHANGED lock
    <2> DEFINE q == [NoRequest EXCEPT !.pc = "lookup", !.op = "refresh", !.jti = j]
    <2>1. "refresh" \in Endpoints
      BY DEF Endpoints
    <2>2. q \in Process /\ q.pc = "lookup"
      BY <1>0, <1>1, <2>1 DEF Process
    <2>3. proc' = [proc EXCEPT ![r] = q]
      BY <1>4 DEF StartRefresh
    <2> HIDE DEF q
    <2>4. /\ proc' \in [Requests -> Process] /\ proc'[r] = q
          /\ \A x \in Requests : x # r => proc'[x] = proc[x]
      BY <1>0, <2>2, <2>3
    <2>. QED
      BY <1>0, <1>4, <2>2, <2>4 DEF StartRefresh, TypeOK
  <1>5. ASSUME NEW j \in Jtis, Logout(r, j)
        PROVE  /\ TypeOK'
               /\ \A x \in Requests : x # r => proc'[x] = proc[x]
               /\ proc'[r].pc = "forget" /\ UNCHANGED lock
    <2>1. PICK s \in ListReads :
            proc' = [proc EXCEPT ![r] =
              [NoRequest EXCEPT !.pc = "forget", !.op = "logout", !.jti = j, !.seen = s]]
      BY <1>5 DEF Logout
    <2> DEFINE q == [NoRequest EXCEPT !.pc = "forget", !.op = "logout", !.jti = j, !.seen = s]
    <2>2. s \in Seq(Jtis) /\ "logout" \in Endpoints
      BY <1>0, ReadsTyped DEF Endpoints
    <2>3. q \in Process /\ q.pc = "forget"
      BY <1>0, <1>1, <2>2 DEF Process
    <2>4. proc' = [proc EXCEPT ![r] = q]
      BY <2>1
    <2> HIDE DEF q
    <2>5. /\ proc' \in [Requests -> Process] /\ proc'[r] = q
          /\ \A x \in Requests : x # r => proc'[x] = proc[x]
      BY <1>0, <2>3, <2>4
    <2>6. tokens' \in SUBSET Jtis
      <3>1. WriteTokens({j}, {}) /\ {} \in SUBSET Jtis
        BY <1>5 DEF Logout
      <3>. QED
        BY <1>0, <3>1, WriteTokensTyped
    <2>. QED
      BY <1>0, <1>5, <2>3, <2>5, <2>6 DEF Logout, TypeOK
  <1>6. ASSUME StartLogoutAll(r)
        PROVE  /\ TypeOK'
               /\ \A x \in Requests : x # r => proc'[x] = proc[x]
               /\ proc'[r].pc = "readAll" /\ UNCHANGED lock
    <2> DEFINE q == [NoRequest EXCEPT !.pc = "readAll", !.op = "logoutAll"]
    <2>1. "logoutAll" \in Endpoints
      BY DEF Endpoints
    <2>2. q \in Process /\ q.pc = "readAll"
      BY <1>0, <1>1, <2>1 DEF Process
    <2>3. proc' = [proc EXCEPT ![r] = q]
      BY <1>6 DEF StartLogoutAll
    <2> HIDE DEF q
    <2>4. /\ proc' \in [Requests -> Process] /\ proc'[r] = q
          /\ \A x \in Requests : x # r => proc'[x] = proc[x]
      BY <1>0, <2>2, <2>3
    <2>. QED
      BY <1>0, <1>6, <2>2, <2>4 DEF StartLogoutAll, TypeOK
  <1>7. ASSUME NEW op \in Logins, AcquireLost(r, op)
        PROVE  /\ TypeOK' /\ proc'[r].pc = "idle" /\ ~lock /\ lock'
               /\ Faults /\ UNCHANGED <<tokens, rotatedFrom, list, stage, proc>>
    BY <1>0, <1>7, LostAnswer DEF TypeOK, Idle
  <1>. QED
    BY <1>2, <1>3, <1>4, <1>5, <1>6, <1>7 DEF Start

LEMMA SessionsInit == Init => SessionsInv
  <1> SUFFICES ASSUME Init PROVE SessionsInv
    OBVIOUS
  <1>1. <<>> \in Seq(Jtis)
    OBVIOUS
  <1>2. TypeOK
    BY <1>1, NoRequestTyped DEF Init, TypeOK
  <1>3. LocalInv
    BY NoRequestTyped DEF Init, LocalInv, LoginPhases
  <1>. QED
    BY <1>2, <1>3 DEF SessionsInv

LEMMA SessionsStep == SessionsInv /\ [Next]_vars => SessionsInv'
  <1> SUFFICES ASSUME SessionsInv, [Next]_vars PROVE SessionsInv'
    OBVIOUS
  <1>1. ASSUME NEW r \in Requests, Start(r)
        PROVE  SessionsInv'
    BY <1>1, StartEffect DEF SessionsInv, LocalInv, LoginPhases
  <1>2. ASSUME NEW r \in Requests, Proceed(r)
        PROVE  SessionsInv'
    <2>1. StepTyped(r) /\ TypeOK'
      BY <1>2, LoginProceeds, OthersProceed DEF Proceed
    <2>. QED
      BY <2>1 DEF StepTyped, SessionsInv, LocalInv
  <1>3. ASSUME NEW j \in Jtis, ExpireToken(j)
        PROVE  SessionsInv'
    BY <1>3 DEF ExpireToken, SessionsInv, LocalInv, TypeOK
  <1>4. CASE ExpireList
    <2>1. <<>> \in Seq(Jtis)
      OBVIOUS
    <2>. QED
      BY <1>4, <2>1 DEF ExpireList, SessionsInv, LocalInv, TypeOK
  <1>5. CASE ExpireLock
    BY <1>5 DEF ExpireLock, SessionsInv, LocalInv, TypeOK
  <1>6. CASE Crash
    <2>1. \A r \in Requests : proc'[r] = NoRequest
      BY <1>6 DEF Crash
    <2>2. proc' \in [Requests -> Process]
      BY <1>6, NoRequestTyped DEF Crash
    <2>3. LocalInv'
      BY <2>1, NoRequestTyped DEF LocalInv, LoginPhases
    <2>. QED
      BY <1>6, <2>2, <2>3 DEF Crash, SessionsInv, TypeOK
  <1>7. CASE UNCHANGED vars
    BY <1>7 DEF vars, SessionsInv, LocalInv, TypeOK
  <1>. QED
    BY <1>1, <1>2, <1>3, <1>4, <1>5, <1>6, <1>7 DEF Next

\* The type invariant holds in every run.
THEOREM Typing == Spec => []TypeOK
  <1>1. SessionsInv => TypeOK
    BY DEF SessionsInv
  <1>. QED
    BY <1>1, SessionsInit, SessionsStep, PTL DEF Spec

----------------------------------------------------------------------------
(***************************************************************************)
(* The login lock.  A login enters its critical section only by setting    *)
(* the lock, and none but a login under way deletes it, as long as it has  *)
(* not expired under one: then at most one login is inside, and the lock   *)
(* is set.                                                                 *)
(***************************************************************************)

OneLogin ==
  /\ \A r, s \in Requests : InLogin(r) /\ InLogin(s) => r = s
  /\ LoginUnderWay => lock

LockServes == ~outlasted => OneLogin

LEMMA LoginsTakeTurns ==
  ASSUME SessionsInv, OneLogin, Next, ~(LoginUnderWay /\ ExpireLock)
  PROVE  OneLogin'
  <1> SUFFICES ASSUME LoginUnderWay' PROVE OneLogin'
    BY DEF OneLogin, LoginUnderWay
  <1>1. ASSUME NEW r \in Requests, Start(r) PROVE OneLogin'
    <2>1. /\ \A x \in Requests : x # r => (InLogin(x)' <=> InLogin(x))
          /\ InLogin(r)' => ~lock /\ lock'
          /\ UNCHANGED lock \/ (~lock /\ lock')
          /\ ~InLogin(r)
      BY <1>1, StartEffect DEF InLogin, LoginPhases
    <2>. QED
      BY <2>1 DEF OneLogin, LoginUnderWay
  <1>2. ASSUME NEW r \in Requests, Proceed(r) PROVE OneLogin'
    <2>1. /\ \A x \in Requests : x # r => (InLogin(x)' <=> InLogin(x))
          /\ InLogin(r)' => InLogin(r)
      BY <1>2, LoginProceeds, OthersProceed DEF Proceed, StepTyped, InLogin
    <2>2. ~Unlock(r)
      <3> SUFFICES ASSUME Unlock(r) PROVE FALSE
        OBVIOUS
      <3>1. InLogin(r)
        BY DEF Unlock, InLogin, LoginPhases
      <3>2. proc'[r].pc = "idle"
        BY AnswerEffect DEF Unlock, SessionsInv
      <3>3. \A x \in Requests : ~InLogin(x)'
        BY <2>1, <3>1, <3>2 DEF OneLogin, InLogin, LoginPhases
      <3>. QED
        BY <3>3 DEF LoginUnderWay
    <2>3. UNCHANGED lock
      BY <1>2, <2>2
      DEF Proceed, Store, ReadSessions, WriteSessions, ReadForLimit, Evict, EvictNext, Trim,
          Lookup, CheckUser, Drop, Add, Rotate, ReadAll, Wipe, Forget
    <2>. QED
      BY <2>1, <2>3 DEF OneLogin, LoginUnderWay
  <1>3. CASE ExpireLock
    BY <1>3 DEF ExpireLock, LoginUnderWay, InLogin
  <1>4. CASE Crash
    BY <1>4, NoRequestTyped DEF Crash, LoginUnderWay, InLogin, LoginPhases
  <1>5. CASE (\E j \in Jtis : ExpireToken(j)) \/ ExpireList
    <2>1. UNCHANGED <<proc, lock>>
      BY <1>5 DEF ExpireToken, ExpireList
    <2>. QED
      BY <2>1 DEF OneLogin, LoginUnderWay, InLogin
  <1>. QED
    BY <1>1, <1>2, <1>3, <1>4, <1>5 DEF Next

LEMMA LockStep ==
  ASSUME SessionsInv, LockServes, [Next /\ RememberOutlasted]_<<vars, histories>>
  PROVE  LockServes'
  <1>1. CASE UNCHANGED <<vars, histories>>
    BY <1>1 DEF LockServes, OneLogin, LoginUnderWay, InLogin, vars, histories
  <1>2. CASE Next /\ RememberOutlasted
    <2>1. CASE ~LoginUnderWay'
      BY <2>1 DEF LockServes, OneLogin, LoginUnderWay
    <2>2. CASE LoginUnderWay' /\ ~outlasted'
      <3>1. ~outlasted /\ ~(LoginUnderWay /\ ExpireLock)
        BY <1>2, <2>2 DEF RememberOutlasted
      <3>. QED
        BY <1>2, <3>1, LoginsTakeTurns DEF LockServes
    <2>. QED
      BY <2>1, <2>2 DEF LockServes
  <1>. QED
    BY <1>1, <1>2

\* Logins exclude each other until one outlasts the lock, and again as soon as
\* none of those it let in is left: with any number of requests, Redis
\* failures, releases that get lost and crashes.
THEOREM LoginExclusion == OverlapSpec => []LoginMutex
  <1>1. OverlapInit => SessionsInv /\ LockServes
    BY SessionsInit, NoRequestTyped
    DEF OverlapInit, Init, LockServes, OneLogin, LoginUnderWay, InLogin, LoginPhases
  <1>2. SessionsInv /\ LockServes /\ [OverlapNext]_<<vars, histories>>
          => SessionsInv' /\ LockServes'
    BY SessionsStep, LockStep DEF OverlapNext, vars, histories
  <1>3. LockServes => LoginMutex
    BY DEF LockServes, OneLogin, LoginMutex
  <1>. QED
    BY <1>1, <1>2, <1>3, PTL DEF OverlapSpec

----------------------------------------------------------------------------
(***************************************************************************)
(* Sessions whose logins alone overlap (LoginsSpec).  The lock makes them  *)
(* take turns, so that every request is alone from its start to its end,   *)
(* though any of them may be cut short.                                    *)
(***************************************************************************)

\* Lists and what is in them.

LEMMA ElementsOfAppend ==
  ASSUME NEW s \in Seq(Jtis), NEW j \in Jtis
  PROVE  Elements(Append(s, j)) = Elements(s) \cup {j}
  <1> DEFINE t == Append(s, j)
  <1>1. /\ Len(s) \in Nat /\ DOMAIN s = 1..Len(s) /\ DOMAIN t = 1..(Len(s) + 1)
        /\ \A i \in 1..Len(s) : t[i] = s[i]
        /\ t[Len(s) + 1] = j
    BY AppendProperties, LenProperties
  <1>. HIDE DEF t
  <1>2. ASSUME NEW i \in DOMAIN t PROVE t[i] \in Elements(s) \cup {j}
    <2>1. CASE i = Len(s) + 1
      BY <1>1, <2>1
    <2>2. CASE i # Len(s) + 1
      BY <1>1, <2>2 DEF Elements
    <2>. QED
      BY <2>1, <2>2
  <1>3. ASSUME NEW i \in DOMAIN s PROVE s[i] \in Elements(t)
    BY <1>1 DEF Elements
  <1>4. j \in Elements(t)
    BY <1>1 DEF Elements
  <1>. QED
    BY <1>2, <1>3, <1>4 DEF Elements, t

LEMMA ElementsOfWithout ==
  ASSUME NEW s \in Seq(Jtis), NEW j
  PROVE  Elements(s) \ {j} \subseteq Elements(Without(s, j))
  <1>1. CASE j \notin Elements(s)
    BY <1>1 DEF Without
  <1>2. CASE j \in Elements(s)
    <2> DEFINE k == CHOOSE k \in DOMAIN s : s[k] = j
               w == [i \in 1..(Len(s) - 1) |-> IF i < k THEN s[i] ELSE s[i + 1]]
    <2>1. k \in DOMAIN s /\ s[k] = j
      BY <1>2 DEF Elements
    <2>2. DOMAIN s = 1..Len(s) /\ Len(s) \in Nat
      OBVIOUS
    <2>3. Without(s, j) = w
      BY <1>2 DEF Without
    <2>. HIDE DEF k
    <2>4. ASSUME NEW i \in DOMAIN s, s[i] # j PROVE s[i] \in Elements(w)
      <3>1. i # k
        BY <2>1, <2>4
      <3>2. CASE i < k
        BY <2>1, <2>2, <3>2 DEF Elements
      <3>3. CASE i > k
        <4>1. i - 1 \in 1..(Len(s) - 1) /\ ~(i - 1 < k) /\ i - 1 + 1 = i
          BY <2>1, <2>2, <3>3
        <4>2. w[i - 1] = s[i]
          BY <4>1
        <4>. QED
          BY <4>1, <4>2 DEF Elements
      <3>. QED
        BY <2>1, <2>2, <3>1, <3>2, <3>3
    <2>. QED
      BY <2>3, <2>4 DEF Elements
  <1>. QED
    BY <1>1, <1>2

LEMMA ElementsFinite ==
  ASSUME NEW s \in Seq(Jtis)
  PROVE  IsFiniteSet(Elements(s)) /\ Cardinality(Elements(s)) <= Len(s)
  <1>1. Len(s) \in Nat /\ DOMAIN s = 1..Len(s)
    OBVIOUS
  <1>2. s \in Surjection(1..Len(s), Elements(s))
    BY <1>1, SMTT(30) DEF Surjection, Elements
  <1>3. IsFiniteSet(1..Len(s)) /\ Cardinality(1..Len(s)) = Len(s)
    BY <1>1, FS_Interval
  <1>. QED
    BY <1>2, <1>3, FS_Surjection

\* An over-long list is what is evicted and what is kept.
LEMMA ExcessSplits ==
  ASSUME NEW s \in Seq(Jtis), NEW op, Len(s) > MaxDevices
  PROVE  LET n == Excess(op, s) IN
         /\ n \in 1..Len(s)
         /\ Elements(Oldest(op, s)) = {s[i] : i \in 1..n}
         /\ Newest(op, s) \in Seq(Jtis) /\ Len(Newest(op, s)) <= MaxDevices
         /\ Elements(s) \subseteq {s[i] : i \in 1..n} \cup Elements(Newest(op, s))
  <1> DEFINE n == Excess(op, s)
             a == SubSeq(s, 1, n)
             b == SubSeq(s, n + 1, Len(s))
  <1>1. Len(s) \in Nat /\ MaxDevices \in Nat \ {0} /\ DOMAIN s = 1..Len(s)
    BY SessionsAssumption
  <1>2. n \in 1..Len(s) /\ Len(s) - n <= MaxDevices
    BY <1>1 DEF Excess
  <1>. HIDE DEF n
  <1>3. /\ a \in Seq(Jtis) /\ Len(a) = n /\ \A i \in 1..n : a[i] = s[i]
    BY <1>1, <1>2, SubSeqProperties
  <1>4. /\ b \in Seq(Jtis) /\ Len(b) = Len(s) - n
        /\ \A i \in 1..(Len(s) - n) : b[i] = s[n + i]
    <2>1. \A i \in (n + 1)..Len(s) : s[i] \in Jtis
      BY <1>1, <1>2
    <2>2. /\ b \in Seq(Jtis)
          /\ Len(b) = IF n + 1 <= Len(s) THEN Len(s) - (n + 1) + 1 ELSE 0
          /\ \A i \in 1..(Len(s) - (n + 1) + 1) : b[i] = s[(n + 1) + i - 1]
      BY <1>1, <1>2, <2>1, SubSeqProperties
    <2>3. Len(s) - (n + 1) + 1 = Len(s) - n
      BY <1>1, <1>2
    <2>4. \A i \in 1..(Len(s) - n) : (n + 1) + i - 1 = n + i
      BY <1>1, <1>2
    <2>5. ~(n + 1 <= Len(s)) => Len(s) - n = 0
      <3>1. \A l, m \in Int : m <= l /\ ~(m + 1 <= l) => l - m = 0
        OBVIOUS
      <3>2. n \in Int /\ Len(s) \in Int /\ n <= Len(s)
        BY <1>1, <1>2
      <3>. QED
        BY <3>1, <3>2
    <2>. QED
      BY <2>2, <2>3, <2>4, <2>5
  <1>. HIDE DEF a, b
  <1>5. Elements(a) = {s[i] : i \in 1..n}
    <2>1. DOMAIN a = 1..n
      BY <1>3
    <2>. QED
      BY <1>3, <2>1 DEF Elements
  <1>6. ASSUME NEW i \in DOMAIN s, i \notin 1..n PROVE s[i] \in Elements(b)
    <2>1. i - n \in 1..(Len(s) - n) /\ n + (i - n) = i
      BY <1>1, <1>2, <1>6
    <2>2. b[i - n] = s[i] /\ i - n \in DOMAIN b
      BY <1>4, <2>1
    <2>. QED
      BY <2>2 DEF Elements
  <1>7. Elements(s) \subseteq {s[i] : i \in 1..n} \cup Elements(b)
    BY <1>6 DEF Elements
  <1>8. Oldest(op, s) = a /\ Newest(op, s) = b
    BY DEF Oldest, Newest, a, b, n
  <1>. QED
    BY <1>2, <1>4, <1>5, <1>7, <1>8 DEF n

\* Without failures a read returns what is there and a write is done.
LEMMA NoFaults ==
  ASSUME ~Faults
  PROVE  /\ ListReads = {list}
         /\ \A s : WriteList(s) => list' = s
         /\ \A D, A : WriteTokens(D, A) => tokens' = (tokens \ D) \cup A
  BY DEF ListReads, WriteList, WriteTokens

\* Two states of a request that differ in its phase alone.
SameRequest(p, q) ==
  q.op = p.op /\ q.jti = p.jti /\ q.new = p.new /\ q.gone = p.gone

LEMMA MoveKeeps ==
  ASSUME TypeOK, NEW r \in Requests, NEW pc, Move(r, pc)
  PROVE  /\ proc'[r].pc = pc /\ proc'[r].seen = proc[r].seen /\ SameRequest(proc[r], proc'[r])
         /\ \A x \in Requests : x # r => proc'[x] = proc[x]
  <1> DEFINE q == [proc[r] EXCEPT !.pc = pc]
  <1>1. proc[r] \in Process /\ proc \in [Requests -> Process]
    BY DEF TypeOK
  <1>2. q.pc = pc /\ q.seen = proc[r].seen /\ SameRequest(proc[r], q)
    BY <1>1 DEF Process, SameRequest
  <1>3. proc' = [proc EXCEPT ![r] = q]
    BY DEF Move
  <1>. HIDE DEF q
  <1>. QED
    BY <1>1, <1>2, <1>3

LEMMA ReadKeeps ==
  ASSUME ~Faults, TypeOK, NEW r \in Requests, NEW pc, ReadList(r, pc)
  PROVE  /\ proc'[r].pc = pc /\ proc'[r].seen = list /\ SameRequest(proc[r], proc'[r])
         /\ \A x \in Requests : x # r => proc'[x] = proc[x]
  <1> DEFINE q == [proc[r] EXCEPT !.pc = pc, !.seen = list]
  <1>1. proc[r] \in Process /\ proc \in [Requests -> Process]
    BY DEF TypeOK
  <1>2. q.pc = pc /\ q.seen = list /\ SameRequest(proc[r], q)
    BY <1>1 DEF Process, SameRequest
  <1>3. proc' = [proc EXCEPT ![r] = q]
    BY NoFaults DEF ReadList
  <1>. HIDE DEF q
  <1>. QED
    BY <1>1, <1>2, <1>3

LEMMA AnswerEnds ==
  ASSUME TypeOK, NEW r \in Requests, Answer(r)
  PROVE  proc'[r] = NoRequest /\ \A x \in Requests : x # r => proc'[x] = proc[x]
  BY DEF Answer, TypeOK

\* What a request is when it starts, whatever it starts.
Begins(r, pc, op, jti, new, seen) ==
  /\ proc'[r].pc = pc /\ proc'[r].op = op /\ proc'[r].jti = jti /\ proc'[r].new = new
  /\ proc'[r].seen = seen /\ proc'[r].gone = 0
  /\ \A x \in Requests : x # r => proc'[x] = proc[x]

LEMMA Beginnings ==
  ASSUME ~Faults, TypeOK, NEW r \in Requests
  PROVE  /\ \A op \in Logins, j \in Jtis :
              Acquire(r, op, j) => Begins(r, "store", op, NoJti, j, <<>>)
         /\ \A j \in Jtis :
              /\ StartRefresh(r, j) => Begins(r, "lookup", "refresh", j, NoJti, <<>>)
              /\ Logout(r, j) => Begins(r, "forget", "logout", j, NoJti, list)
         /\ StartLogoutAll(r) => Begins(r, "readAll", "logoutAll", NoJti, NoJti, <<>>)
  <1>1. proc \in [Requests -> Process]
    BY DEF TypeOK
  <1>2. ASSUME NEW q, proc' = [proc EXCEPT ![r] = q]
        PROVE  /\ proc'[r] = q
               /\ \A x \in Requests : x # r => proc'[x] = proc[x]
    BY <1>1, <1>2
  <1>n. /\ NoRequest \in Process
        /\ NoRequest.jti = NoJti /\ NoRequest.new = NoJti
        /\ NoRequest.seen = <<>> /\ NoRequest.gone = 0
    BY NoRequestTyped DEF NoRequest
  <1>3. ASSUME NEW op \in Logins, NEW j \in Jtis, Acquire(r, op, j)
        PROVE  Begins(r, "store", op, NoJti, j, <<>>)
    <2> DEFINE q == [NoRequest EXCEPT !.pc = "store", !.op = op, !.new = j]
    <2>1. proc' = [proc EXCEPT ![r] = q]
      BY <1>3 DEF Acquire
    <2>2. /\ q.pc = "store" /\ q.op = op /\ q.jti = NoJti /\ q.new = j
          /\ q.seen = <<>> /\ q.gone = 0
      BY <1>n DEF Process
    <2>. HIDE DEF q
    <2>. QED
      BY <1>2, <2>1, <2>2 DEF Begins
  <1>4. ASSUME NEW j \in Jtis, StartRefresh(r, j)
        PROVE  Begins(r, "lookup", "refresh", j, NoJti, <<>>)
    <2> DEFINE q == [NoRequest EXCEPT !.pc = "lookup", !.op = "refresh", !.jti = j]
    <2>1. proc' = [proc EXCEPT ![r] = q]
      BY <1>4 DEF StartRefresh
    <2>2. /\ q.pc = "lookup" /\ q.op = "refresh" /\ q.jti = j /\ q.new = NoJti
          /\ q.seen = <<>> /\ q.gone = 0
      BY <1>n DEF Process
    <2>. HIDE DEF q
    <2>. QED
      BY <1>2, <2>1, <2>2 DEF Begins
  <1>5. ASSUME NEW j \in Jtis, Logout(r, j)
        PROVE  Begins(r, "forget", "logout", j, NoJti, list)
    <2> DEFINE q == [NoRequest EXCEPT !.pc = "forget", !.op = "logout", !.jti = j, !.seen = list]
    <2>1. proc' = [proc EXCEPT ![r] = q]
      BY <1>5, NoFaults DEF Logout
    <2>2. /\ q.pc = "forget" /\ q.op = "logout" /\ q.jti = j /\ q.new = NoJti
          /\ q.seen = list /\ q.gone = 0
      BY <1>n DEF Process
    <2>. HIDE DEF q
    <2>. QED
      BY <1>2, <2>1, <2>2 DEF Begins
  <1>6. ASSUME StartLogoutAll(r)
        PROVE  Begins(r, "readAll", "logoutAll", NoJti, NoJti, <<>>)
    <2> DEFINE q == [NoRequest EXCEPT !.pc = "readAll", !.op = "logoutAll"]
    <2>1. proc' = [proc EXCEPT ![r] = q]
      BY <1>6 DEF StartLogoutAll
    <2>2. /\ q.pc = "readAll" /\ q.op = "logoutAll" /\ q.jti = NoJti /\ q.new = NoJti
          /\ q.seen = <<>> /\ q.gone = 0
      BY <1>n DEF Process
    <2>. HIDE DEF q
    <2>. QED
      BY <1>2, <2>1, <2>2 DEF Begins
  <1>. QED
    BY <1>3, <1>4, <1>5, <1>6

\* The other changes a request under way undergoes.
LEMMA LimitRead ==
  ASSUME ~Faults, TypeOK, NEW r \in Requests, ReadForLimit(r)
  PROVE  /\ proc'[r].pc = (IF Len(list) <= MaxDevices THEN "unlock" ELSE "evict")
         /\ proc'[r].seen = list /\ SameRequest(proc[r], proc'[r])
         /\ \A x \in Requests : x # r => proc'[x] = proc[x]
  <1> DEFINE next == IF Len(list) <= MaxDevices THEN "unlock" ELSE "evict"
             q == [proc[r] EXCEPT !.pc = next, !.seen = list]
  <1>1. proc[r] \in Process /\ proc \in [Requests -> Process]
    BY DEF TypeOK
  <1>3. proc' = [proc EXCEPT ![r] = q]
    BY NoFaults DEF ReadForLimit
  <1>. HIDE DEF next
  <1>2. q.pc = next /\ q.seen = list /\ SameRequest(proc[r], q)
    BY <1>1 DEF Process, SameRequest
  <1>. HIDE DEF q
  <1>. QED
    BY <1>1, <1>2, <1>3 DEF next

LEMMA NextEvicted ==
  ASSUME TypeOK, NEW r \in Requests, EvictNext(r)
  PROVE  LET p == proc[r]  q == proc'[r] IN
         /\ q.pc = (IF p.gone + 1 < Excess(p.op, p.seen) THEN "evict" ELSE "trim")
         /\ q.op = p.op /\ q.jti = p.jti /\ q.new = p.new /\ q.seen = p.seen
         /\ q.gone = p.gone + 1
         /\ \A x \in Requests : x # r => proc'[x] = proc[x]
  <1> DEFINE p == proc[r]
             next == IF p.gone + 1 < Excess(p.op, p.seen) THEN "evict" ELSE "trim"
             q == [p EXCEPT !.pc = next, !.gone = p.gone + 1]
  <1>1. p \in Process /\ proc \in [Requests -> Process]
    BY DEF TypeOK
  <1>2. proc' = [proc EXCEPT ![r] = q]
    BY DEF EvictNext
  <1>. HIDE DEF next
  <1>3. /\ q.pc = next /\ q.op = p.op /\ q.jti = p.jti /\ q.new = p.new /\ q.seen = p.seen
        /\ q.gone = p.gone + 1
    BY <1>1 DEF Process
  <1>. HIDE DEF q
  <1>4. proc'[r] = q /\ \A x \in Requests : x # r => proc'[x] = proc[x]
    BY <1>1, <1>2
  <1>. QED
    BY <1>3, <1>4 DEF next

LEMMA RotationRead ==
  ASSUME ~Faults, TypeOK, NEW r \in Requests, NEW j \in Jtis, Rotate(r, j)
  PROVE  /\ proc'[r].pc = "drop" /\ proc'[r].op = proc[r].op /\ proc'[r].jti = proc[r].jti
         /\ proc'[r].new = j /\ proc'[r].seen = list /\ proc'[r].gone = proc[r].gone
         /\ \A x \in Requests : x # r => proc'[x] = proc[x]
  <1> DEFINE q == [proc[r] EXCEPT !.pc = "drop", !.new = j, !.seen = list]
  <1>1. proc[r] \in Process /\ proc \in [Requests -> Process]
    BY DEF TypeOK
  <1>2. proc' = [proc EXCEPT ![r] = q]
    BY NoFaults DEF Rotate
  <1>3. /\ q.pc = "drop" /\ q.op = proc[r].op /\ q.jti = proc[r].jti /\ q.new = j
        /\ q.seen = list /\ q.gone = proc[r].gone
    BY <1>1 DEF Process
  <1>. HIDE DEF q
  <1>. QED
    BY <1>1, <1>2, <1>3

----------------------------------------------------------------------------
\* What holds of the tokens, the list and a request under way.

Sound == Retired /\ HeldTracked /\ DeviceLimit

Fine(r) == Underway(proc[r]) /\ Evicting(proc[r])

LEMMA HeldFinite ==
  ASSUME TypeOK, HeldTracked
  PROVE  IsFiniteSet(tokens \cap Held) /\ Cardinality(tokens \cap Held) \in Nat
  <1>1. IsFiniteSet(Elements(list))
    BY ElementsFinite DEF TypeOK
  <1>2. IsFiniteSet(tokens \cap Held)
    BY <1>1, FS_Subset DEF HeldTracked
  <1>. QED
    BY <1>2, FS_CardinalityType

\* A step that leaves the tokens and the list.
LEMMA SoundKept ==
  ASSUME Sound, UNCHANGED <<tokens, rotatedFrom, list, stage>>
  PROVE  Sound'
  BY DEF Sound, Retired, HeldTracked, DeviceLimit, Held, Elements

\* Fewer tokens are as many at most.
LEMMA LimitShrinks ==
  ASSUME TypeOK, HeldTracked, DeviceLimit, tokens' \cap Held' \subseteq tokens \cap Held
  PROVE  DeviceLimit'
  <1>1. Cardinality(tokens' \cap Held') <= Cardinality(tokens \cap Held)
        /\ IsFiniteSet(tokens' \cap Held')
    BY HeldFinite, FS_Subset
  <1>2. Cardinality(tokens' \cap Held') \in Nat /\ Cardinality(tokens \cap Held) \in Nat
    BY <1>1, HeldFinite, FS_CardinalityType
  <1>3. Cardinality(tokens \cap Held) <= MaxDevices /\ MaxDevices \in Nat
    BY SessionsAssumption DEF DeviceLimit
  <1>. QED
    BY <1>1, <1>2, <1>3 DEF DeviceLimit

\* Tokens go, and the list still holds those that are held.
LEMMA SoundShrinks ==
  ASSUME TypeOK, Sound, tokens' \subseteq tokens, UNCHANGED <<rotatedFrom, stage>>, HeldTracked'
  PROVE  Sound'
  <1>1. Held' = Held
    BY DEF Held
  <1>2. Retired'
    BY DEF Sound, Retired
  <1>3. DeviceLimit'
    BY <1>1, LimitShrinks DEF Sound
  <1>. QED
    BY <1>2, <1>3 DEF Sound

\* A request that is over.
LEMMA FineOver ==
  ASSUME NEW r \in Requests, proc'[r] = NoRequest
  PROVE  Fine(r)'
  BY NoRequestTyped DEF Fine, Underway, Evicting, LoginPhases

LEMMA FineIdle ==
  ASSUME NEW r \in Requests, Idle(r)'
  PROVE  Fine(r)'
  BY DEF Idle, Fine, Underway, Evicting, LoginPhases

\* Steps that touch neither the tokens nor the list.
LEMMA AloneReads ==
  ASSUME ~Faults, TypeOK, Sound, NEW r \in Requests, Fine(r),
         ReadSessions(r) \/ ReadForLimit(r) \/ Lookup(r) \/ CheckUser(r) \/ ReadAll(r)
  PROVE  Fine(r)' /\ Sound'
  <1>0. UNCHANGED <<tokens, rotatedFrom, list, stage>>
    BY DEF ReadSessions, ReadForLimit, Lookup, CheckUser, ReadAll
  <1>1. Sound' /\ Held' = Held
    BY <1>0, SoundKept DEF Held
  <1>2. CASE ReadSessions(r)
    <2>1. /\ proc[r].pc = "readList" /\ proc'[r].pc = "writeList" /\ proc'[r].seen = list
          /\ SameRequest(proc[r], proc'[r])
      BY <1>2, ReadKeeps DEF ReadSessions
    <2>2. Underway(proc[r])'
      BY <1>0, <2>1 DEF Fine, Underway, SameRequest, LoginPhases
    <2>3. Evicting(proc[r])'
      BY <2>1 DEF Fine, Evicting, SameRequest
    <2>. QED
      BY <1>1, <2>2, <2>3 DEF Fine
  <1>3. CASE ReadForLimit(r)
    <2>1. /\ proc[r].pc = "readLimit" /\ proc'[r].seen = list
          /\ SameRequest(proc[r], proc'[r])
          /\ proc'[r].pc = (IF Len(list) <= MaxDevices THEN "unlock" ELSE "evict")
      BY <1>3, LimitRead DEF ReadForLimit
    <2>2. Len(list) \in Nat /\ MaxDevices \in Nat
      BY SessionsAssumption DEF TypeOK
    <2>3. CASE Len(list) <= MaxDevices
      <3>1. Underway(proc[r])'
        BY <1>0, <2>1, <2>3 DEF Fine, Underway, SameRequest, LoginPhases, Elements
      <3>2. Evicting(proc[r])'
        BY <2>1, <2>3 DEF Fine, Evicting, SameRequest
      <3>. QED
        BY <1>1, <3>1, <3>2 DEF Fine
    <2>4. CASE ~(Len(list) <= MaxDevices)
      <3>1. Underway(proc[r])'
        BY <1>0, <2>1, <2>4 DEF Fine, Underway, SameRequest, LoginPhases, Elements
      <3>2. proc'[r].gone = 0 /\ proc'[r].pc = "evict"
        BY <2>1, <2>4 DEF Fine, Evicting, SameRequest
      <3>3. proc'[r].op = "google" => 0 < Excess(proc'[r].op, proc'[r].seen)
        BY <2>1, <2>2, <2>4 DEF Excess
      <3>4. Evicting(proc[r])'
        BY <3>2, <3>3 DEF Evicting
      <3>. QED
        BY <1>1, <3>1, <3>4 DEF Fine
    <2>. QED
      BY <2>3, <2>4
  <1>4. CASE Lookup(r)
    <2>1. /\ proc[r].pc = "lookup" /\ SameRequest(proc[r], proc'[r])
          /\ \/ proc'[r].pc = "status" /\ proc[r].jti \in tokens
             \/ proc'[r].pc = "readAll"
      BY <1>4, MoveKeeps DEF Lookup
    <2>2. Underway(proc[r])' /\ Evicting(proc[r])'
      BY <1>0, <2>1 DEF Fine, Underway, Evicting, SameRequest, LoginPhases
    <2>. QED
      BY <1>1, <2>2 DEF Fine
  <1>5. CASE CheckUser(r)
    <2>1. /\ proc[r].pc = "status" /\ SameRequest(proc[r], proc'[r])
          /\ proc'[r].pc \in {"rotate", "readAll"}
      BY <1>5, MoveKeeps DEF CheckUser
    <2>2. Underway(proc[r])' /\ Evicting(proc[r])'
      BY <1>0, <2>1 DEF Fine, Underway, Evicting, SameRequest, LoginPhases
    <2>. QED
      BY <1>1, <2>2 DEF Fine
  <1>6. CASE ReadAll(r)
    <2>1. /\ proc[r].pc = "readAll" /\ SameRequest(proc[r], proc'[r])
          /\ proc'[r].pc = "wipe" /\ proc'[r].seen = list
      BY <1>6, ReadKeeps DEF ReadAll
    <2>2. Underway(proc[r])' /\ Evicting(proc[r])'
      BY <1>0, <2>1 DEF Fine, Underway, Evicting, SameRequest, LoginPhases
    <2>. QED
      BY <1>1, <2>2 DEF Fine
  <1>. QED
    BY <1>2, <1>3, <1>4, <1>5, <1>6

\* A request that starts.
LEMMA AloneStarts ==
  ASSUME ~Faults, TypeOK, Sound, NEW r \in Requests, Start(r)
  PROVE  Fine(r)' /\ Sound'
  <1>1. CASE \E op \in Logins, j \in Jtis : Acquire(r, op, j)
    <2>1. PICK op \in Logins, j \in Jtis : Acquire(r, op, j)
      BY <1>1
    <2>2. /\ stage[j] = "fresh" /\ stage' = [stage EXCEPT ![j] = "made"]
          /\ UNCHANGED <<tokens, rotatedFrom, list>>
      BY <2>1 DEF Acquire
    <2>3. Held' = Held
      BY <2>2 DEF Held, TypeOK
    <2>4. Begins(r, "store", op, NoJti, j, <<>>)
      BY <2>1, Beginnings
    <2>5. rotatedFrom[j] = NoJti /\ stage'[j] = "made"
      BY <2>2 DEF Sound, Retired, TypeOK
    <2>6. Fine(r)'
      BY <2>2, <2>4, <2>5 DEF Fine, Underway, Evicting, Begins, LoginPhases
    <2>7. Retired'
      <3>1. \A k \in Jtis : rotatedFrom[k] # NoJti => rotatedFrom[k] \in Jtis \ {j}
        BY <2>2 DEF Sound, Retired, TypeOK
      <3>. QED
        BY <2>2, <3>1 DEF Sound, Retired, TypeOK
    <2>8. HeldTracked' /\ DeviceLimit'
      BY <2>2, <2>3 DEF Sound, HeldTracked, DeviceLimit, Elements
    <2>. QED
      BY <2>6, <2>7, <2>8 DEF Sound
  <1>2. CASE \E j \in Jtis : StartRefresh(r, j)
    <2>1. PICK j \in Jtis : StartRefresh(r, j)
      BY <1>2
    <2>2. /\ stage[j] = "held" /\ UNCHANGED <<tokens, rotatedFrom, list, stage>>
          /\ Begins(r, "lookup", "refresh", j, NoJti, <<>>)
      BY <2>1, Beginnings DEF StartRefresh
    <2>3. Fine(r)'
      BY <2>2 DEF Fine, Underway, Evicting, Begins, LoginPhases
    <2>. QED
      BY <2>2, <2>3, SoundKept
  <1>3. CASE StartLogoutAll(r)
    <2>1. /\ UNCHANGED <<tokens, rotatedFrom, list, stage>>
          /\ Begins(r, "readAll", "logoutAll", NoJti, NoJti, <<>>)
      BY <1>3, Beginnings DEF StartLogoutAll
    <2>2. Fine(r)'
      BY <2>1 DEF Fine, Underway, Evicting, Begins, LoginPhases
    <2>. QED
      BY <2>1, <2>2, SoundKept
  <1>4. CASE \E j \in Jtis : Logout(r, j)
    <2>1. PICK j \in Jtis : Logout(r, j)
      BY <1>4
    <2>2. /\ tokens' = tokens \ {j} /\ UNCHANGED <<rotatedFrom, list, stage>>
          /\ Begins(r, "forget", "logout", j, NoJti, list)
      <3>1. WriteTokens({j}, {}) /\ UNCHANGED <<rotatedFrom, list, stage>>
        BY <2>1 DEF Logout
      <3>2. tokens' = tokens \ {j}
        BY <3>1, NoFaults
      <3>. QED
        BY <2>1, <3>1, <3>2, Beginnings
    <2>3. Fine(r)'
      BY <2>2 DEF Fine, Underway, Evicting, Begins, LoginPhases
    <2>4. HeldTracked'
      BY <2>2 DEF Sound, HeldTracked, Held, Elements
    <2>. QED
      BY <2>2, <2>3, <2>4, SoundShrinks
  <1>. QED
    BY <1>1, <1>2, <1>3, <1>4, LostAnswer DEF Start

\* A login stores its token and enters it in the list.
LEMMA AloneLogins ==
  ASSUME ~Faults, TypeOK, Sound, NEW r \in Requests, Fine(r), Store(r) \/ WriteSessions(r)
  PROVE  Fine(r)' /\ Sound'
  <1> DEFINE p == proc[r]
  <1>1. /\ p.pc \in {"store", "writeList"} /\ p.new \in Jtis /\ stage[p.new] = "made"
        /\ rotatedFrom[p.new] = NoJti /\ p.op \in Logins /\ p.gone = 0
    BY DEF Store, WriteSessions, Fine, Underway, Evicting, LoginPhases
  <1>2. CASE Store(r)
    <2>1. WriteTokens({}, {p.new}) /\ UNCHANGED <<rotatedFrom, list, stage>> /\ Move(r, "readList")
      BY <1>2 DEF Store
    <2>2. tokens' = tokens \cup {p.new}
      BY <2>1, NoFaults
    <2>3. proc'[r].pc = "readList" /\ SameRequest(p, proc'[r])
      BY <2>1, MoveKeeps
    <2>4. Fine(r)'
      BY <1>1, <2>1, <2>3 DEF Fine, Underway, Evicting, SameRequest, LoginPhases
    <2>5. tokens' \cap Held' = tokens \cap Held
      BY <1>1, <2>1, <2>2 DEF Held
    <2>6. HeldTracked' /\ DeviceLimit'
      BY <2>1, <2>5 DEF Sound, HeldTracked, DeviceLimit, Elements
    <2>7. Retired'
      BY <1>1, <2>1, <2>2 DEF Sound, Retired
    <2>. QED
      BY <2>4, <2>6, <2>7 DEF Sound
  <1>3. CASE WriteSessions(r)
    <2>1. p.pc = "writeList" /\ p.seen = list
      BY <1>3 DEF WriteSessions, Fine, Underway
    <2>2. /\ UNCHANGED <<tokens, rotatedFrom, stage>> /\ Move(r, "readLimit")
          /\ WriteList(Append(p.seen, p.new))
      BY <1>3 DEF WriteSessions
    <2>3. list' = Append(list, p.new)
      BY <2>1, <2>2, NoFaults
    <2>4. Elements(list') = Elements(list) \cup {p.new}
      BY <1>1, <2>3, ElementsOfAppend DEF TypeOK
    <2>5. proc'[r].pc = "readLimit" /\ SameRequest(p, proc'[r])
      BY <2>2, MoveKeeps
    <2>6. p.new \in Elements(list)'
      BY <2>4 DEF Elements
    <2>7. Underway(proc[r])'
      BY <1>1, <2>2, <2>5, <2>6 DEF Underway, SameRequest, LoginPhases
    <2>8. Evicting(proc[r])'
      BY <1>1, <2>5 DEF Evicting, SameRequest
    <2>9. HeldTracked'
      BY <2>2, <2>4 DEF Sound, HeldTracked, Held, Elements
    <2>. QED
      BY <2>2, <2>7, <2>8, <2>9, SoundShrinks DEF Fine
  <1>. QED
    BY <1>2, <1>3

\* The limit: what was evicted is not stored, what is kept is in the list.
LEMMA AloneEvicts ==
  ASSUME ~Faults, TypeOK, LocalInv, Sound, NEW r \in Requests, Fine(r),
         Evict(r) \/ EvictNext(r) \/ Trim(r)
  PROVE  Fine(r)' /\ Sound'
  <1> DEFINE p == proc[r]
             n == Excess(p.op, p.seen)
  <1>1. /\ p.pc \in {"evict", "trim"} /\ p.new \in Jtis /\ stage[p.new] = "made"
        /\ rotatedFrom[p.new] = NoJti /\ p.op \in Logins /\ p.seen = list
        /\ p.new \in tokens => p.new \in Elements(list)
        /\ Len(p.seen) > MaxDevices
    BY DEF Evict, EvictNext, Trim, Fine, Underway, LocalInv, LoginPhases
  <1>2. p.seen \in Seq(Jtis) /\ p.gone \in Nat /\ list \in Seq(Jtis)
    BY DEF TypeOK, Process
  <1>3. /\ n \in 1..Len(p.seen)
        /\ Elements(Oldest(p.op, p.seen)) = {p.seen[i] : i \in 1..n}
        /\ Newest(p.op, p.seen) \in Seq(Jtis) /\ Len(Newest(p.op, p.seen)) <= MaxDevices
        /\ Elements(p.seen) \subseteq {p.seen[i] : i \in 1..n} \cup Elements(Newest(p.op, p.seen))
    BY <1>1, <1>2, ExcessSplits
  <1>. HIDE DEF n
  <1>4. CASE Evict(r)
    <2>1. /\ WriteTokens(Elements(Oldest(p.op, p.seen)), {})
          /\ Move(r, "trim") /\ UNCHANGED <<rotatedFrom, list, stage>>
      BY <1>4 DEF Evict
    <2>2. tokens' = tokens \ {p.seen[i] : i \in 1..n}
      BY <1>3, <2>1, NoFaults
    <2>3. proc'[r].pc = "trim" /\ proc'[r].seen = p.seen /\ SameRequest(p, proc'[r])
      BY <2>1, MoveKeeps
    <2>4. Underway(proc[r])'
      BY <1>1, <2>1, <2>2, <2>3 DEF Underway, SameRequest, LoginPhases, Elements
    <2>5. Excess(proc'[r].op, proc'[r].seen) = n
      BY <2>3 DEF SameRequest, n
    <2>6. \A i \in 1..n : p.seen[i] \notin tokens'
      BY <2>2
    <2>7. Evicting(proc[r])'
      BY <2>3, <2>5, <2>6 DEF Evicting, Excess
    <2>8. HeldTracked'
      BY <2>1, <2>2 DEF Sound, HeldTracked, Held, Elements
    <2>. QED
      BY <2>1, <2>2, <2>4, <2>7, <2>8, SoundShrinks DEF Fine
  <1>5. CASE EvictNext(r)
    <2>1. /\ WriteTokens({p.seen[p.gone + 1]}, {}) /\ p.pc = "evict" /\ p.op = "google"
          /\ UNCHANGED <<rotatedFrom, list, stage>>
      BY <1>5 DEF EvictNext
    <2>2. tokens' = tokens \ {p.seen[p.gone + 1]}
      BY <2>1, NoFaults
    <2>3. /\ proc'[r].pc = (IF p.gone + 1 < n THEN "evict" ELSE "trim")
          /\ proc'[r].op = p.op /\ proc'[r].jti = p.jti /\ proc'[r].new = p.new
          /\ proc'[r].seen = p.seen /\ proc'[r].gone = p.gone + 1
      BY <1>5, NextEvicted DEF n
    <2>4. p.gone < n /\ \A i \in 1..p.gone : p.seen[i] \notin tokens
      BY <2>1 DEF Fine, Evicting, n
    <2>5. \A i \in 1..(p.gone + 1) : p.seen[i] \notin tokens'
      <3>1. \A i \in 1..(p.gone + 1) : i = p.gone + 1 \/ i \in 1..p.gone
        BY <1>2
      <3>. QED
        BY <2>2, <2>4, <3>1
    <2>6. n \in Nat
      BY <1>3
    <2>7. Excess(proc'[r].op, proc'[r].seen) = n
      BY <2>3 DEF n
    <2>10. HeldTracked'
      BY <2>1, <2>2 DEF Sound, HeldTracked, Held, Elements
    <2>11. Sound'
      BY <2>1, <2>2, <2>10, SoundShrinks
    <2>8. CASE p.gone + 1 < n
      <3>1. proc'[r].pc = "evict"
        BY <2>3, <2>8
      <3>2. Underway(proc[r])'
        BY <1>1, <2>1, <2>2, <2>3, <3>1 DEF Underway, LoginPhases, Elements
      <3>3. Evicting(proc[r])'
        BY <2>3, <2>5, <2>7, <2>8, <3>1 DEF Evicting, Excess
      <3>. QED
        BY <2>11, <3>2, <3>3 DEF Fine
    <2>9. CASE ~(p.gone + 1 < n)
      <3>1. proc'[r].pc = "trim"
        BY <2>3, <2>9
      <3>2. Underway(proc[r])'
        BY <1>1, <2>1, <2>2, <2>3, <3>1 DEF Underway, LoginPhases, Elements
      <3>3. p.gone + 1 = n
        BY <1>2, <2>4, <2>6, <2>9
      <3>4. Evicting(proc[r])'
        BY <2>3, <2>5, <2>7, <3>1, <3>3 DEF Evicting, Excess
      <3>. QED
        BY <2>11, <3>2, <3>4 DEF Fine
    <2>. QED
      BY <2>8, <2>9
  <1>6. CASE Trim(r)
    <2>1. /\ WriteList(Newest(p.op, p.seen)) /\ p.pc = "trim"
          /\ Move(r, "unlock") /\ UNCHANGED <<tokens, rotatedFrom, stage>>
      BY <1>6 DEF Trim
    <2>2. list' = Newest(p.op, p.seen)
      BY <2>1, NoFaults
    <2>3. \A i \in 1..n : p.seen[i] \notin tokens
      BY <2>1 DEF Fine, Evicting, n
    <2>4. \A x \in tokens : x \in Elements(list) => x \in Elements(list')
      BY <1>1, <1>3, <2>2, <2>3
    <2>5. proc'[r].pc = "unlock" /\ SameRequest(p, proc'[r])
      BY <2>1, MoveKeeps
    <2>6. Elements(list)' = Elements(list')
      BY DEF Elements
    <2>7. Len(list') <= MaxDevices
      BY <1>3, <2>2
    <2>8. Underway(proc[r])'
      BY <1>1, <2>1, <2>4, <2>5, <2>6, <2>7 DEF Underway, SameRequest, LoginPhases
    <2>9. Evicting(proc[r])'
      BY <2>5 DEF Evicting
    <2>10. HeldTracked'
      BY <2>1, <2>4, <2>6 DEF Sound, HeldTracked, Held
    <2>. QED
      BY <2>1, <2>8, <2>9, <2>10, SoundShrinks DEF Fine
  <1>. QED
    BY <1>4, <1>5, <1>6

----------------------------------------------------------------------------
\* The steps that change what is held.

\* The answer hands the new token, when there is one, to the client.
LEMMA AnswerHolds ==
  ASSUME TypeOK, NEW r \in Requests, Answer(r)
  PROVE  /\ proc[r].new = NoJti => UNCHANGED stage /\ Held' = Held
         /\ proc[r].new \in Jtis =>
              /\ stage' = [stage EXCEPT ![proc[r].new] = "held"]
              /\ Held' = Held \cup {proc[r].new}
  <1>1. NoJti \notin Jtis
    BY SessionsAssumption
  <1>2. CASE proc[r].new = NoJti
    BY <1>1, <1>2 DEF Answer, Held
  <1>3. CASE proc[r].new \in Jtis
    <2>1. stage' = [stage EXCEPT ![proc[r].new] = "held"]
      BY <1>1, <1>3 DEF Answer
    <2>2. Held' = Held \cup {proc[r].new}
      BY <1>3, <2>1 DEF Held, TypeOK
    <2>. QED
      BY <1>1, <1>3, <2>1, <2>2
  <1>. QED
    BY <1>2, <1>3

\* The tokens that are held become others, without those that were rotated.
LEMMA AnswerKeeps ==
  ASSUME TypeOK, NEW r \in Requests, Answer(r), Retired,
         tokens' = tokens, UNCHANGED rotatedFrom,
         proc[r].new \in Jtis, stage[proc[r].new] = "made"
  PROVE  Retired'
  <1>1. stage' = [stage EXCEPT ![proc[r].new] = "held"]
    BY AnswerHolds
  <1>2. \A j \in Jtis : rotatedFrom[j] # NoJti => rotatedFrom[j] \in Jtis
    BY DEF TypeOK
  <1>. QED
    BY <1>1, <1>2 DEF Retired, TypeOK

\* A list within the limit, and every held token in it.
LEMMA LimitByList ==
  ASSUME TypeOK', HeldTracked', Len(list') <= MaxDevices
  PROVE  DeviceLimit'
  <1>1. list' \in Seq(Jtis) /\ Len(list') \in Nat /\ MaxDevices \in Nat
    BY SessionsAssumption DEF TypeOK
  <1>2. IsFiniteSet(Elements(list')) /\ Cardinality(Elements(list')) <= Len(list')
    BY <1>1, ElementsFinite
  <1>3. tokens' \cap Held' \subseteq Elements(list')
    BY DEF HeldTracked, Elements
  <1>4. /\ IsFiniteSet(tokens' \cap Held')
        /\ Cardinality(tokens' \cap Held') <= Cardinality(Elements(list'))
    BY <1>2, <1>3, FS_Subset
  <1>5. Cardinality(tokens' \cap Held') \in Nat /\ Cardinality(Elements(list')) \in Nat
    BY <1>2, <1>4, FS_CardinalityType
  <1>6. Cardinality(tokens' \cap Held') <= MaxDevices
    BY <1>1, <1>2, <1>4, <1>5
  <1>. QED
    BY <1>6 DEF DeviceLimit

LEMMA AloneUnlocks ==
  ASSUME TypeOK, TypeOK', Sound, NEW r \in Requests, Fine(r), Unlock(r)
  PROVE  Fine(r)' /\ Sound'
  <1> DEFINE p == proc[r]
  <1>1. /\ p.new \in Jtis /\ stage[p.new] = "made"
        /\ p.new \in tokens => p.new \in Elements(list)
        /\ Len(list) <= MaxDevices
    BY DEF Unlock, Fine, Underway, LoginPhases
  <1>2. Answer(r) /\ UNCHANGED <<tokens, rotatedFrom, list>>
    BY DEF Unlock
  <1>3. Held' = Held \cup {p.new}
    BY <1>1, <1>2, AnswerHolds
  <1>4. HeldTracked'
    BY <1>1, <1>2, <1>3 DEF Sound, HeldTracked, Elements
  <1>5. DeviceLimit'
    BY <1>1, <1>2, <1>4, LimitByList
  <1>6. Retired'
    BY <1>1, <1>2, AnswerKeeps DEF Sound
  <1>7. Fine(r)'
    BY <1>2, AnswerEnds, FineOver
  <1>. QED
    BY <1>4, <1>5, <1>6, <1>7 DEF Sound

LEMMA AloneRotates ==
  ASSUME ~Faults, TypeOK, Sound, NEW r \in Requests, Fine(r), NEW j \in Jtis, Rotate(r, j)
  PROVE  Fine(r)' /\ Sound'
  <1> DEFINE i == proc[r].jti
             S == tokens \cap Held
  <1>1. /\ i \in Jtis /\ i \in tokens /\ stage[i] = "held" /\ stage[j] = "fresh"
        /\ stage' = [stage EXCEPT ![j] = "made"]
        /\ rotatedFrom' = [rotatedFrom EXCEPT ![j] = i]
        /\ list' = list
    BY DEF Rotate, Fine, Underway
  <1>2. tokens' = (tokens \ {i}) \cup {j}
    BY NoFaults DEF Rotate
  <1>3. /\ i # j /\ j \notin tokens /\ rotatedFrom[j] = NoJti
        /\ \A k \in Jtis : rotatedFrom[k] # NoJti =>
             rotatedFrom[k] \notin tokens /\ rotatedFrom[k] \in Jtis \ {j}
    BY <1>1 DEF Sound, Retired, TypeOK
  <1>4. Held' = Held
    BY <1>1 DEF Held, TypeOK
  <1>5. tokens' \cap Held' = S \ {i} /\ i \in S /\ j \notin S
    BY <1>1, <1>2, <1>3, <1>4 DEF Held
  <1>6. Retired'
    <2>1. ASSUME NEW k \in Jtis, stage'[k] = "fresh"
          PROVE  k \notin tokens' /\ rotatedFrom'[k] = NoJti
      <3>1. k # j /\ stage[k] = "fresh"
        BY <1>1, <2>1 DEF TypeOK
      <3>. QED
        BY <1>1, <1>2, <3>1 DEF Sound, Retired, TypeOK
    <2>2. ASSUME NEW k \in Jtis, rotatedFrom'[k] # NoJti
          PROVE  rotatedFrom'[k] \notin tokens' /\ stage'[rotatedFrom'[k]] \in {"held", "expired"}
      <3>1. CASE k = j
        BY <1>1, <1>2, <1>3, <3>1 DEF TypeOK
      <3>2. CASE k # j
        <4>1. rotatedFrom'[k] = rotatedFrom[k]
          BY <1>1, <3>2 DEF TypeOK
        <4>. QED
          BY <1>1, <1>2, <1>3, <2>2, <4>1 DEF Sound, Retired, TypeOK
      <3>. QED
        BY <3>1, <3>2
    <2>. QED
      BY <2>1, <2>2 DEF Retired
  <1>8. HeldTracked' /\ DeviceLimit'
    <2>1. HeldTracked'
      BY <1>1, <1>5 DEF Sound, HeldTracked, Elements
    <2>2. tokens' \cap Held' \subseteq tokens \cap Held
      BY <1>5
    <2>. QED
      BY <2>1, <2>2, LimitShrinks DEF Sound
  <1>9. Cardinality((tokens' \cap Held') \cup {j}) <= MaxDevices
    <2>1. IsFiniteSet(S) /\ Cardinality(S) \in Nat /\ Cardinality(S) <= MaxDevices
      BY HeldFinite DEF Sound, DeviceLimit
    <2>2. IsFiniteSet(S \ {i}) /\ Cardinality(S \ {i}) = Cardinality(S) - 1
      BY <1>5, <2>1, FS_RemoveElement
    <2>3. Cardinality((S \ {i}) \cup {j}) = Cardinality(S \ {i}) + 1
      BY <1>5, <2>2, FS_AddElement
    <2>4. Cardinality((S \ {i}) \cup {j}) = Cardinality(S)
      BY <2>1, <2>2, <2>3
    <2>. QED
      BY <1>5, <2>1, <2>4
  <1>10. /\ proc'[r].pc = "drop" /\ proc'[r].jti = i /\ proc'[r].new = j
         /\ proc'[r].seen = list
    BY RotationRead
  <1>11. Underway(proc[r])'
    <2>1. stage'[j] = "made" /\ i \notin tokens'
      BY <1>1, <1>2, <1>3 DEF TypeOK
    <2>. QED
      BY <1>1, <1>9, <1>10, <2>1 DEF Underway, LoginPhases
  <1>12. Evicting(proc[r])'
    BY <1>10 DEF Evicting
  <1>. QED
    BY <1>6, <1>8, <1>11, <1>12 DEF Sound, Fine

\* The two writes of the list that follow a rotation.
LEMMA AloneDrops ==
  ASSUME ~Faults, TypeOK, Sound, NEW r \in Requests, Fine(r), Drop(r)
  PROVE  Fine(r)' /\ Sound'
  <1> DEFINE p == proc[r]
  <1>1. /\ p.new \in Jtis /\ stage[p.new] = "made" /\ p.jti \notin tokens /\ p.seen = list
        /\ Cardinality((tokens \cap Held) \cup {p.new}) <= MaxDevices
    BY DEF Drop, Fine, Underway, LoginPhases
  <1>2. UNCHANGED <<tokens, rotatedFrom, stage>> /\ Held' = Held
    BY DEF Drop, Held
  <1>3. list' = Without(list, p.jti)
    BY <1>1, NoFaults DEF Drop
  <1>4. Elements(list) \ {p.jti} \subseteq Elements(list')
    BY <1>3, ElementsOfWithout DEF TypeOK
  <1>5. HeldTracked'
    BY <1>1, <1>2, <1>4 DEF Sound, HeldTracked, Elements
  <1>6. /\ proc'[r].pc = "add" /\ proc'[r].seen = p.seen /\ SameRequest(p, proc'[r])
    BY MoveKeeps DEF Drop
  <1>7. Underway(proc[r])'
    <2>1. tokens' \cap Held' \subseteq Elements(proc'[r].seen)
      BY <1>1, <1>2, <1>6 DEF Sound, HeldTracked
    <2>. QED
      BY <1>1, <1>2, <1>6, <2>1 DEF Underway, SameRequest, LoginPhases, Elements
  <1>8. Evicting(proc[r])'
    BY <1>6 DEF Evicting
  <1>. QED
    BY <1>2, <1>5, <1>7, <1>8, SoundShrinks DEF Fine

LEMMA AloneAdds ==
  ASSUME ~Faults, TypeOK, Sound, NEW r \in Requests, Fine(r), Add(r)
  PROVE  Fine(r)' /\ Sound'
  <1> DEFINE p == proc[r]
             S == tokens \cap Held
  <1>1. /\ p.new \in Jtis /\ stage[p.new] = "made" /\ S \subseteq Elements(p.seen)
        /\ Cardinality(S \cup {p.new}) <= MaxDevices
    BY DEF Add, Fine, Underway, LoginPhases
  <1>2. Answer(r) /\ UNCHANGED <<tokens, rotatedFrom>>
    BY DEF Add
  <1>3. list' = Append(p.seen, p.new)
    BY NoFaults DEF Add
  <1>4. p.seen \in Seq(Jtis)
    BY DEF TypeOK, Process
  <1>5. Elements(list') = Elements(p.seen) \cup {p.new}
    BY <1>1, <1>3, <1>4, ElementsOfAppend
  <1>6. Held' = Held \cup {p.new}
    BY <1>1, <1>2, AnswerHolds
  <1>7. tokens' \cap Held' \subseteq S \cup {p.new}
    BY <1>2, <1>6
  <1>8. HeldTracked'
    BY <1>1, <1>5, <1>7 DEF HeldTracked, Elements
  <1>9. DeviceLimit'
    <2>1. IsFiniteSet(S \cup {p.new})
      BY HeldFinite, FS_AddElement DEF Sound
    <2>2. /\ IsFiniteSet(tokens' \cap Held')
          /\ Cardinality(tokens' \cap Held') <= Cardinality(S \cup {p.new})
      BY <1>7, <2>1, FS_Subset
    <2>3. /\ Cardinality(tokens' \cap Held') \in Nat /\ Cardinality(S \cup {p.new}) \in Nat
          /\ MaxDevices \in Nat
      BY <2>1, <2>2, FS_CardinalityType, SessionsAssumption
    <2>4. Cardinality(tokens' \cap Held') <= MaxDevices
      BY <1>1, <2>2, <2>3
    <2>. QED
      BY <2>4 DEF DeviceLimit
  <1>10. Retired'
    BY <1>1, <1>2, AnswerKeeps DEF Sound
  <1>11. Fine(r)'
    BY <1>2, AnswerEnds, FineOver
  <1>. QED
    BY <1>8, <1>9, <1>10, <1>11 DEF Sound

\* A revocation deletes every token of the list, which are all those held.
LEMMA AloneWipes ==
  ASSUME ~Faults, TypeOK, Sound, NEW r \in Requests, Fine(r), Wipe(r)
  PROVE  Fine(r)' /\ Sound' /\ tokens' \cap Held = {}
  <1> DEFINE p == proc[r]
  <1>1. p.new = NoJti /\ p.seen = list
    BY DEF Wipe, Fine, Underway
  <1>2. Answer(r) /\ UNCHANGED rotatedFrom
    BY DEF Wipe
  <1>3. UNCHANGED stage /\ Held' = Held
    BY <1>1, <1>2, AnswerHolds
  <1>4. tokens' = tokens \ Elements(list)
    BY <1>1, NoFaults DEF Wipe
  <1>5. tokens' \cap Held = {}
    BY <1>4 DEF Sound, HeldTracked
  <1>6. HeldTracked'
    BY <1>3, <1>5 DEF HeldTracked
  <1>7. Sound'
    BY <1>2, <1>3, <1>4, <1>6, SoundShrinks
  <1>8. Fine(r)'
    BY <1>2, AnswerEnds, FineOver
  <1>. QED
    BY <1>5, <1>7, <1>8

LEMMA AloneForgets ==
  ASSUME ~Faults, TypeOK, Sound, NEW r \in Requests, Fine(r), Forget(r)
  PROVE  Fine(r)' /\ Sound'
  <1> DEFINE p == proc[r]
  <1>1. p.new = NoJti /\ p.jti \notin tokens /\ p.seen = list
    BY DEF Forget, Fine, Underway
  <1>2. Answer(r) /\ UNCHANGED <<tokens, rotatedFrom>>
    BY DEF Forget
  <1>3. UNCHANGED stage /\ Held' = Held
    BY <1>1, <1>2, AnswerHolds
  <1>4. list' = Without(list, p.jti)
    BY <1>1, NoFaults DEF Forget
  <1>5. Elements(list) \ {p.jti} \subseteq Elements(list')
    BY <1>4, ElementsOfWithout DEF TypeOK
  <1>6. HeldTracked'
    BY <1>1, <1>2, <1>3, <1>5 DEF Sound, HeldTracked, Elements
  <1>7. Fine(r)'
    BY <1>2, AnswerEnds, FineOver
  <1>. QED
    BY <1>2, <1>3, <1>6, <1>7, SoundShrinks

\* Any step of a request that was alone, or starts.
LEMMA AloneSteps ==
  ASSUME ~Faults, SessionsInv, TypeOK', Sound, NEW r \in Requests, Fine(r),
         Start(r) \/ Proceed(r)
  PROVE  Fine(r)' /\ Sound'
  <1>1. TypeOK /\ LocalInv
    BY DEF SessionsInv
  <1>2. CASE Start(r)
    BY <1>1, <1>2, AloneStarts
  <1>3. CASE Proceed(r)
    BY <1>1, <1>3, AloneReads, AloneLogins, AloneEvicts, AloneUnlocks, AloneRotates, AloneDrops,
       AloneAdds, AloneWipes, AloneForgets DEF Proceed
  <1>. QED
    BY <1>2, <1>3

\* Time passes when no request is under way.
LEMMA AloneExpires ==
  ASSUME TypeOK, Sound,
         (\E j \in Jtis : ExpireToken(j)) \/ ExpireList \/ ExpireLock \/ Crash
  PROVE  Sound'
  <1>1. ASSUME NEW j \in Jtis, ExpireToken(j) PROVE Sound'
    <2>1. /\ stage' = [stage EXCEPT ![j] = "expired"] /\ tokens' = tokens \ {j}
          /\ UNCHANGED <<rotatedFrom, list>>
      BY <1>1 DEF ExpireToken
    <2>2. tokens' \cap Held' \subseteq tokens \cap Held
      BY <2>1 DEF Held, TypeOK
    <2>3. HeldTracked' /\ DeviceLimit'
      BY <2>1, <2>2, LimitShrinks DEF Sound, HeldTracked, Elements
    <2>4. Retired'
      <3>1. \A k \in Jtis : rotatedFrom[k] # NoJti => rotatedFrom[k] \in Jtis
        BY DEF TypeOK
      <3>. QED
        BY <2>1, <3>1 DEF Sound, Retired, TypeOK
    <2>. QED
      BY <2>3, <2>4 DEF Sound
  <1>2. CASE ExpireList
    <2>1. tokens' = tokens /\ UNCHANGED <<rotatedFrom, stage>> /\ tokens \cap Elements(list) = {}
      BY <1>2 DEF ExpireList
    <2>2. HeldTracked'
      BY <2>1 DEF Sound, HeldTracked, Held
    <2>. QED
      BY <2>1, <2>2, SoundShrinks
  <1>3. CASE ExpireLock \/ Crash
    BY <1>3, SoundKept DEF ExpireLock, Crash
  <1>. QED
    BY <1>1, <1>2, <1>3

----------------------------------------------------------------------------
\* Requests that are served alone.

AloneInv ==
  /\ SessionsInv
  /\ OneLogin
  /\ LoginsLock
  /\ Serial
  /\ UnderwayAll
  /\ Sound

\* What a step of one request leaves of the others, and of its own operation.
LEMMA StepLeaves ==
  ASSUME ~Faults, SessionsInv, NEW r \in Requests, Start(r) \/ Proceed(r)
  PROVE  /\ \A x \in Requests : x # r => proc'[x] = proc[x]
         /\ Start(r) => ~Idle(r)'
         /\ Proceed(r) => ~Idle(r)
  <1>1. CASE Start(r)
    <2>1. (\A x \in Requests : x # r => proc'[x] = proc[x]) /\ ~Idle(r)'
      BY <1>1, StartEffect DEF Idle
    <2>2. Idle(r)
      BY <1>1, StartEffect
    <2>3. ~Proceed(r)
      BY <2>2
      DEF Idle, Proceed, Store, ReadSessions, WriteSessions, ReadForLimit, Evict, EvictNext, Trim,
          Unlock, Lookup, CheckUser, Drop, Add, Rotate, ReadAll, Wipe, Forget
    <2>. QED
      BY <2>1, <2>3
  <1>2. CASE Proceed(r)
    <2>1. \A x \in Requests : x # r => proc'[x] = proc[x]
      BY <1>2, LoginProceeds, OthersProceed DEF Proceed, StepTyped
    <2>2. ~Idle(r)
      BY <1>2
      DEF Idle, Proceed, Store, ReadSessions, WriteSessions, ReadForLimit, Evict, EvictNext, Trim,
          Unlock, Lookup, CheckUser, Drop, Add, Rotate, ReadAll, Wipe, Forget
    <2>3. ~Start(r)
      BY <2>2, StartEffect
    <2>. QED
      BY <2>1, <2>2, <2>3
  <1>. QED
    BY <1>1, <1>2

LEMMA OperationKept ==
  ASSUME ~Faults, TypeOK, NEW r \in Requests, Proceed(r)
  PROVE  Idle(r)' \/ proc'[r].op = proc[r].op
  <1>1. CASE Store(r) \/ WriteSessions(r) \/ Evict(r) \/ Trim(r) \/ Lookup(r) \/ CheckUser(r)
             \/ Drop(r)
    <2>1. PICK pc : Move(r, pc)
      BY <1>1 DEF Store, WriteSessions, Evict, Trim, Lookup, CheckUser, Drop
    <2>. QED
      BY <2>1, MoveKeeps DEF SameRequest
  <1>2. CASE ReadSessions(r) \/ ReadAll(r)
    <2>1. PICK pc : ReadList(r, pc)
      BY <1>2 DEF ReadSessions, ReadAll
    <2>. QED
      BY <2>1, ReadKeeps DEF SameRequest
  <1>3. CASE Unlock(r) \/ Add(r) \/ Wipe(r) \/ Forget(r)
    <2>1. Answer(r)
      BY <1>3 DEF Unlock, Add, Wipe, Forget
    <2>. QED
      BY <2>1, AnswerEnds, NoRequestTyped DEF Idle
  <1>4. CASE ReadForLimit(r)
    BY <1>4, LimitRead DEF SameRequest
  <1>5. CASE EvictNext(r)
    BY <1>5, NextEvicted
  <1>6. CASE \E j \in Jtis : Rotate(r, j)
    BY <1>6, RotationRead
  <1>. QED
    BY <1>1, <1>2, <1>3, <1>4, <1>5, <1>6 DEF Proceed

LEMMA LoginsLockStep ==
  ASSUME ~Faults, SessionsInv, LoginsLock, NEW r \in Requests, Start(r) \/ Proceed(r)
  PROVE  LoginsLock'
  <1>0. TypeOK
    BY DEF SessionsInv
  <1>1. ~Idle(r)' => (proc'[r].op \in Logins <=> InLogin(r)')
    <2>1. CASE Start(r)
      <3>1. \/ \E op \in Logins, j \in Jtis : Begins(r, "store", op, NoJti, j, <<>>)
            \/ \E j \in Jtis : Begins(r, "lookup", "refresh", j, NoJti, <<>>)
            \/ \E j \in Jtis : Begins(r, "forget", "logout", j, NoJti, list)
            \/ Begins(r, "readAll", "logoutAll", NoJti, NoJti, <<>>)
        BY <1>0, <2>1, Beginnings, LostAnswer DEF Start
      <3>. QED
        BY <3>1 DEF Begins, InLogin, LoginPhases, Logins
    <2>2. CASE Proceed(r)
      <3>1. StepTyped(r) /\ ~Idle(r) /\ (Idle(r)' \/ proc'[r].op = proc[r].op)
        BY <1>0, <2>2, LoginProceeds, OthersProceed, StepLeaves, OperationKept DEF Proceed
      <3>2. Unlock(r) => Idle(r)'
        BY <1>0, AnswerEnds, NoRequestTyped DEF Unlock, Idle
      <3>3. ~Idle(r)' => (InLogin(r)' <=> InLogin(r))
        BY <3>1, <3>2 DEF StepTyped, InLogin
      <3>. QED
        BY <3>1, <3>3 DEF LoginsLock
    <2>. QED
      BY <2>1, <2>2
  <1>2. \A x \in Requests : x # r => proc'[x] = proc[x]
    BY StepLeaves
  <1>. QED
    BY <1>1, <1>2 DEF LoginsLock, Idle, InLogin

LEMMA FineKept ==
  ASSUME UNCHANGED <<tokens, rotatedFrom, list, stage, proc>>, NEW r \in Requests, Fine(r)
  PROVE  Fine(r)'
  <1>1. Held' = Held /\ proc'[r] = proc[r]
    BY DEF Held
  <1>2. \A s : Elements(s)' = Elements(s)
    BY DEF Elements
  <1>3. Underway(proc[r])'
    BY <1>1, <1>2 DEF Fine, Underway
  <1>4. Evicting(proc[r])'
    BY <1>1 DEF Fine, Evicting, Excess
  <1>. QED
    BY <1>3, <1>4 DEF Fine

LEMMA AloneInit == Init => AloneInv
  <1> SUFFICES ASSUME Init PROVE AloneInv
    OBVIOUS
  <1>1. SessionsInv
    BY SessionsInit
  <1>2. \A r \in Requests : proc[r] = NoRequest /\ NoRequest.pc = "idle"
    BY NoRequestTyped DEF Init
  <1>3. OneLogin /\ LoginsLock /\ Serial
    BY <1>2 DEF OneLogin, LoginUnderWay, InLogin, LoginPhases, LoginsLock, Serial, Idle
  <1>4. UnderwayAll
    BY <1>2 DEF UnderwayAll, Underway, Evicting, LoginPhases
  <1>5. Retired /\ HeldTracked
    BY DEF Init, Retired, HeldTracked
  <1>6. DeviceLimit
    <2>1. tokens \cap Held = {}
      BY DEF Init
    <2>. QED
      BY <2>1, FS_EmptySet, SessionsAssumption DEF DeviceLimit
  <1>. QED
    BY <1>1, <1>3, <1>4, <1>5, <1>6 DEF AloneInv, Sound

LEMMA AloneStep ==
  ASSUME ~Faults, ~SlowLogins, AloneInv, [Next /\ OnlyLoginsOverlap']_vars
  PROVE  AloneInv'
  <1>0. SessionsInv'
    BY SessionsStep DEF AloneInv
  <1>1. SessionsInv' /\ OneLogin'
    <2>1. ~(LoginUnderWay /\ ExpireLock)
      BY DEF ExpireLock, LoginUnderWay
    <2>2. CASE UNCHANGED vars
      BY <1>0, <2>2 DEF AloneInv, OneLogin, LoginUnderWay, InLogin, vars
    <2>. QED
      BY <1>0, <2>1, <2>2, LoginsTakeTurns DEF AloneInv
  <1>2. TypeOK' /\ TypeOK
    BY <1>1 DEF SessionsInv, AloneInv
  <1>3. ASSUME NEW r \in Requests, Start(r) \/ Proceed(r), OnlyLoginsOverlap'
        PROVE  AloneInv'
    <2>1. Fine(r)' /\ Sound'
      <3>1. Fine(r)
        BY DEF AloneInv, UnderwayAll, Fine
      <3>. QED
        BY <1>2, <1>3, <3>1, AloneSteps DEF AloneInv
    <2>2. LoginsLock'
      BY <1>3, LoginsLockStep DEF AloneInv
    <2>3. Serial'
      BY <1>1, <1>3, <2>2 DEF Serial, OnlyLoginsOverlap, LoginsLock, OneLogin
    <2>4. ASSUME NEW x \in Requests, x # r PROVE Idle(x)'
      <3>1. proc'[x] = proc[x] /\ (Start(r) => ~Idle(r)') /\ (Proceed(r) => ~Idle(r))
        BY <1>3, <2>4, StepLeaves DEF AloneInv
      <3>2. CASE Start(r)
        BY <2>3, <2>4, <3>1, <3>2 DEF Serial
      <3>3. CASE Proceed(r)
        BY <2>4, <3>1, <3>3 DEF AloneInv, Serial, Idle
      <3>. QED
        BY <1>3, <3>2, <3>3
    <2>5. UnderwayAll'
      BY <2>1, <2>4, FineIdle DEF UnderwayAll, Fine
    <2>. QED
      BY <1>1, <2>1, <2>2, <2>3, <2>5 DEF AloneInv
  <1>4. CASE (\E j \in Jtis : ExpireToken(j)) \/ ExpireList \/ Crash
    <2>1. \A r \in Requests : Idle(r)'
      BY <1>4, NoRequestTyped DEF ExpireToken, ExpireList, Crash, Idle
    <2>2. LoginsLock' /\ Serial'
      BY <2>1 DEF LoginsLock, Serial
    <2>3. UnderwayAll'
      BY <2>1, FineIdle DEF UnderwayAll, Fine
    <2>4. Sound'
      BY <1>2, <1>4, AloneExpires DEF AloneInv
    <2>. QED
      BY <1>1, <2>2, <2>3, <2>4 DEF AloneInv
  <1>5. CASE UNCHANGED <<tokens, rotatedFrom, list, stage, proc>>
    <2>1. Sound'
      BY <1>5, SoundKept DEF AloneInv
    <2>2. LoginsLock' /\ Serial'
      BY <1>5 DEF AloneInv, LoginsLock, Serial, Idle, InLogin
    <2>3. UnderwayAll'
      BY <1>5, FineKept DEF AloneInv, UnderwayAll, Fine
    <2>. QED
      BY <1>1, <2>1, <2>2, <2>3 DEF AloneInv
  <1>6. ExpireLock \/ UNCHANGED vars => UNCHANGED <<tokens, rotatedFrom, list, stage, proc>>
    BY DEF ExpireLock, vars
  <1>. QED
    BY <1>3, <1>4, <1>5, <1>6 DEF Next

\* Without Redis failures, and with a lock that outlives its logins, the list
\* holds every token a client can use, in every run in which logins alone
\* overlap: eviction and revocation find them all.
THEOREM ListHoldsTheTokens ==
  ASSUME ~Faults, ~SlowLogins
  PROVE  LoginsSpec => []HeldTracked
  <1>1. AloneInv => HeldTracked
    BY DEF AloneInv, Sound
  <1>2. AloneInv /\ [Next /\ OnlyLoginsOverlap']_vars => AloneInv'
    BY AloneStep
  <1>. QED
    BY <1>1, <1>2, AloneInit, PTL DEF LoginsSpec

\* In those runs no user ever has more usable tokens than devices are allowed,
\* whichever of the two login paths evicted the others.
THEOREM DevicesAreLimited ==
  ASSUME ~Faults, ~SlowLogins
  PROVE  LoginsSpec => []DeviceLimit
  <1>1. AloneInv => DeviceLimit
    BY DEF AloneInv, Sound
  <1>2. AloneInv /\ [Next /\ OnlyLoginsOverlap']_vars => AloneInv'
    BY AloneStep
  <1>. QED
    BY <1>1, <1>2, AloneInit, PTL DEF LoginsSpec

----------------------------------------------------------------------------
(***************************************************************************)
(* The life of a token, for Spec: whatever overlaps, fails or stops.       *)
(***************************************************************************)

\* The requests that carry a token, and what a step does to it.
Carrying == LoginPhases \cup {"drop", "add"}

LEMMA CarriedOn ==
  ASSUME SessionsInv, NEW r \in Requests,
         \/ Store(r) \/ ReadSessions(r) \/ WriteSessions(r) \/ ReadForLimit(r)
         \/ Evict(r) \/ EvictNext(r) \/ Trim(r)
         \/ Lookup(r) \/ CheckUser(r) \/ Drop(r) \/ ReadAll(r)
  PROVE  /\ proc'[r].new = proc[r].new
         /\ proc[r].pc \in Carrying => proc'[r].pc \in Carrying
         /\ UNCHANGED stage
         /\ \A x \in Requests : x # r => proc'[x] = proc[x]
         /\ tokens' \subseteq tokens
              \cup {j \in Jtis : j = proc[r].new /\ proc[r].pc \in Carrying}
  <1>0. TypeOK /\ proc \in [Requests -> Process] /\ list \in Seq(Jtis)
    BY DEF SessionsInv, TypeOK
  <1>1. CASE Store(r)
    <2>1. proc[r].pc = "store" /\ Move(r, "readList") /\ UNCHANGED stage
          /\ WriteTokens({}, {proc[r].new})
      BY <1>1 DEF Store
    <2>2. proc[r].new \in Jtis
      BY <2>1 DEF SessionsInv, LocalInv, LoginPhases
    <2>3. tokens' \subseteq tokens \cup {proc[r].new}
      BY <2>1 DEF WriteTokens
    <2>. QED
      BY <1>0, <2>1, <2>2, <2>3, MoveKeeps DEF SameRequest, Carrying, LoginPhases
  <1>2. CASE WriteSessions(r) \/ Trim(r) \/ Lookup(r) \/ CheckUser(r) \/ Drop(r)
    <2>1. /\ UNCHANGED <<stage, tokens>>
          /\ \E pc : Move(r, pc) /\ (proc[r].pc \in Carrying => pc \in Carrying)
      BY <1>2 DEF WriteSessions, Trim, Lookup, CheckUser, Drop, Carrying, LoginPhases
    <2>. QED
      BY <1>0, <2>1, MoveKeeps DEF SameRequest
  <1>3. CASE Evict(r)
    <2>1. proc[r].pc = "evict" /\ Move(r, "trim") /\ UNCHANGED stage
          /\ WriteTokens(Elements(Oldest(proc[r].op, proc[r].seen)), {})
      BY <1>3 DEF Evict
    <2>2. tokens' \subseteq tokens
      BY <2>1 DEF WriteTokens
    <2>. QED
      BY <1>0, <2>1, <2>2, MoveKeeps DEF SameRequest, Carrying, LoginPhases
  <1>4. CASE EvictNext(r)
    <2>1. WriteTokens({proc[r].seen[proc[r].gone + 1]}, {}) /\ UNCHANGED stage
      BY <1>4 DEF EvictNext
    <2>2. tokens' \subseteq tokens
      BY <2>1 DEF WriteTokens
    <2>. QED
      BY <1>0, <1>4, <2>1, <2>2, NextEvicted DEF Carrying, LoginPhases
  <1>5. CASE ReadSessions(r) \/ ReadAll(r)
    <2>1. /\ UNCHANGED <<stage, tokens>>
          /\ \E pc \in Phases :
               ReadList(r, pc) /\ (proc[r].pc \in Carrying => pc \in Carrying)
      BY <1>5 DEF ReadSessions, ReadAll, Carrying, LoginPhases, Phases
    <2>. QED
      BY <1>0, <2>1, ReadListEffect
  <1>6. CASE ReadForLimit(r)
    <2>1. PICK s \in ListReads :
            proc' = [proc EXCEPT ![r] = [proc[r] EXCEPT
              !.pc = IF Len(s) <= MaxDevices THEN "unlock" ELSE "evict", !.seen = s]]
      BY <1>6 DEF ReadForLimit
    <2> DEFINE next == IF Len(s) <= MaxDevices THEN "unlock" ELSE "evict"
               q == [proc[r] EXCEPT !.pc = next, !.seen = s]
    <2>2. next \in Carrying
      BY DEF Carrying, LoginPhases
    <2>. HIDE DEF next
    <2>3. q.pc = next /\ q.new = proc[r].new
      BY <1>0 DEF Process
    <2>4. proc' = [proc EXCEPT ![r] = q]
      BY <2>1 DEF next
    <2>. HIDE DEF q
    <2>5. UNCHANGED <<stage, tokens>>
      BY <1>6 DEF ReadForLimit
    <2>. QED
      BY <1>0, <2>2, <2>3, <2>4, <2>5
  <1>. QED
    BY <1>1, <1>2, <1>3, <1>4, <1>5, <1>6

\* The token a request makes is one that nobody made.
LEMMA TokenMade ==
  ASSUME SessionsInv, NEW r \in Requests, NEW j \in Jtis,
         Rotate(r, j) \/ \E op \in Logins : Acquire(r, op, j)
  PROVE  /\ proc'[r].new = j /\ proc'[r].pc \in Carrying
         /\ stage[j] = "fresh" /\ stage' = [stage EXCEPT ![j] = "made"]
         /\ \A x \in Requests : x # r => proc'[x] = proc[x]
         /\ tokens' \subseteq tokens \cup {j}
  <1>0. TypeOK /\ proc \in [Requests -> Process] /\ NoRequest \in Process
    BY NoRequestTyped DEF SessionsInv, TypeOK
  <1>1. CASE Rotate(r, j)
    <2>1. PICK s \in ListReads :
            proc' = [proc EXCEPT ![r] = [proc[r] EXCEPT !.pc = "drop", !.new = j, !.seen = s]]
      BY <1>1 DEF Rotate
    <2> DEFINE q == [proc[r] EXCEPT !.pc = "drop", !.new = j, !.seen = s]
    <2>2. q.pc = "drop" /\ q.new = j
      BY <1>0 DEF Process
    <2>3. proc' = [proc EXCEPT ![r] = q]
      BY <2>1
    <2>. HIDE DEF q
    <2>4. /\ WriteTokens({proc[r].jti}, {j})
          /\ stage[j] = "fresh" /\ stage' = [stage EXCEPT ![j] = "made"]
      BY <1>1 DEF Rotate
    <2>5. tokens' \subseteq tokens \cup {j}
      BY <2>4 DEF WriteTokens
    <2>. QED
      BY <1>0, <2>2, <2>3, <2>4, <2>5 DEF Carrying
  <1>2. ASSUME NEW op \in Logins, Acquire(r, op, j)
        PROVE  /\ proc'[r].new = j /\ proc'[r].pc \in Carrying
               /\ stage[j] = "fresh" /\ stage' = [stage EXCEPT ![j] = "made"]
               /\ \A x \in Requests : x # r => proc'[x] = proc[x]
               /\ tokens' \subseteq tokens \cup {j}
    <2> DEFINE q == [NoRequest EXCEPT !.pc = "store", !.op = op, !.new = j]
    <2>1. q.pc = "store" /\ q.new = j
      BY <1>0 DEF Process
    <2>2. proc' = [proc EXCEPT ![r] = q]
      BY <1>2 DEF Acquire
    <2>. HIDE DEF q
    <2>. QED
      BY <1>0, <1>2, <2>1, <2>2 DEF Acquire, Carrying, LoginPhases
  <1>. QED
    BY <1>1, <1>2

\* A request that starts without making a token carries none.
LEMMA NothingCarried ==
  ASSUME SessionsInv, NEW r \in Requests,
         \/ \E j \in Jtis : StartRefresh(r, j) \/ Logout(r, j)
         \/ StartLogoutAll(r)
  PROVE  /\ proc'[r].new = NoJti /\ UNCHANGED stage
         /\ \A x \in Requests : x # r => proc'[x] = proc[x]
         /\ tokens' \subseteq tokens
  <1>0. TypeOK /\ proc \in [Requests -> Process]
        /\ NoRequest \in Process /\ NoRequest.new = NoJti
    BY NoRequestTyped DEF SessionsInv, TypeOK, NoRequest
  <1>1. ASSUME NEW j \in Jtis, StartRefresh(r, j)
        PROVE  /\ proc'[r].new = NoJti /\ UNCHANGED <<stage, tokens>>
               /\ \A x \in Requests : x # r => proc'[x] = proc[x]
    <2> DEFINE q == [NoRequest EXCEPT !.pc = "lookup", !.op = "refresh", !.jti = j]
    <2>1. q.new = NoJti
      BY <1>0 DEF Process
    <2>2. proc' = [proc EXCEPT ![r] = q]
      BY <1>1 DEF StartRefresh
    <2>. HIDE DEF q
    <2>. QED
      BY <1>0, <1>1, <2>1, <2>2 DEF StartRefresh
  <1>2. ASSUME NEW j \in Jtis, Logout(r, j)
        PROVE  /\ proc'[r].new = NoJti /\ UNCHANGED stage /\ tokens' \subseteq tokens
               /\ \A x \in Requests : x # r => proc'[x] = proc[x]
    <2>1. PICK s \in ListReads :
            proc' = [proc EXCEPT ![r] =
              [NoRequest EXCEPT !.pc = "forget", !.op = "logout", !.jti = j, !.seen = s]]
      BY <1>2 DEF Logout
    <2> DEFINE q == [NoRequest EXCEPT !.pc = "forget", !.op = "logout", !.jti = j, !.seen = s]
    <2>2. q.new = NoJti
      BY <1>0 DEF Process
    <2>3. proc' = [proc EXCEPT ![r] = q]
      BY <2>1
    <2>. HIDE DEF q
    <2>4. tokens' \subseteq tokens
      BY <1>2 DEF Logout, WriteTokens
    <2>. QED
      BY <1>0, <1>2, <2>2, <2>3, <2>4 DEF Logout
  <1>3. CASE StartLogoutAll(r)
    <2> DEFINE q == [NoRequest EXCEPT !.pc = "readAll", !.op = "logoutAll"]
    <2>1. q.new = NoJti
      BY <1>0 DEF Process
    <2>2. proc' = [proc EXCEPT ![r] = q]
      BY <1>3 DEF StartLogoutAll
    <2>. HIDE DEF q
    <2>. QED
      BY <1>0, <1>3, <2>1, <2>2 DEF StartLogoutAll
  <1>. QED
    BY <1>1, <1>2, <1>3

LEMMA MadeByInit == Init => MadeBy
  BY SessionsAssumption DEF Init, MadeBy, NoRequest

\* A request that ends hands out the token it carries, which no other has.
LEMMA MadeByStep == SessionsInv /\ MadeBy /\ [Next]_vars => MadeBy'
  <1> SUFFICES ASSUME SessionsInv, MadeBy, [Next]_vars PROVE MadeBy'
    OBVIOUS
  <1>0. /\ TypeOK /\ NoJti \notin Jtis
        /\ stage \in [Jtis -> {"fresh", "made", "held", "expired"}]
        /\ NoRequest.new = NoJti
    BY SessionsAssumption DEF SessionsInv, TypeOK, NoRequest
  <1>1. ASSUME NEW r \in Requests,
               proc'[r].new = proc[r].new, UNCHANGED stage,
               proc[r].pc \in Carrying => proc'[r].pc \in Carrying,
               \A x \in Requests : x # r => proc'[x] = proc[x]
        PROVE  MadeBy'
    BY <1>1 DEF MadeBy, Carrying
  <1>2. ASSUME NEW r \in Requests, proc'[r].new = NoJti, UNCHANGED stage,
               \A x \in Requests : x # r => proc'[x] = proc[x]
        PROVE  MadeBy'
    BY <1>0, <1>2 DEF MadeBy
  <1>3. ASSUME NEW r \in Requests, Answer(r) PROVE MadeBy'
    <2>1. /\ proc'[r].new = NoJti
          /\ \A x \in Requests : x # r => proc'[x] = proc[x]
      BY <1>0, <1>3, AnswerEnds
    <2>2. ASSUME NEW x \in Requests, x # r, proc[x].new \in Jtis
          PROVE  stage'[proc[x].new] = "made"
      <3>1. stage[proc[x].new] = "made" /\ proc[x].new # proc[r].new
        BY <2>2 DEF MadeBy
      <3>. QED
        BY <1>0, <1>3, <2>2, <3>1 DEF Answer
    <2>. QED
      BY <1>0, <2>1, <2>2 DEF MadeBy
  <1>4. ASSUME NEW r \in Requests, NEW j \in Jtis,
               Rotate(r, j) \/ \E op \in Logins : Acquire(r, op, j)
        PROVE  MadeBy'
    <2>1. /\ proc'[r].new = j /\ proc'[r].pc \in Carrying
          /\ stage[j] = "fresh" /\ stage' = [stage EXCEPT ![j] = "made"]
          /\ \A x \in Requests : x # r => proc'[x] = proc[x]
      BY <1>4, TokenMade
    <2>2. \A x \in Requests : proc[x].new # j
      BY <2>1 DEF MadeBy
    <2>. QED
      BY <1>0, <2>1, <2>2 DEF MadeBy, Carrying
  <1>5. ASSUME NEW r \in Requests, Start(r) PROVE MadeBy'
    <2>1. CASE \E op \in Logins : AcquireLost(r, op)
      BY <2>1, LostAnswer DEF MadeBy
    <2>. QED
      BY <1>2, <1>4, <1>5, <2>1, NothingCarried DEF Start
  <1>6. ASSUME NEW r \in Requests, Proceed(r) PROVE MadeBy'
    <2>1. Unlock(r) \/ Add(r) \/ Wipe(r) \/ Forget(r) => Answer(r)
      BY DEF Unlock, Add, Wipe, Forget
    <2>. QED
      BY <1>1, <1>3, <1>4, <1>6, <2>1, CarriedOn DEF Proceed
  <1>7. ASSUME NEW j \in Jtis, ExpireToken(j) PROVE MadeBy'
    <2>1. \A r \in Requests : proc[r].new = NoJti
      BY <1>7 DEF ExpireToken, Idle, MadeBy, LoginPhases
    <2>2. proc' = proc
      BY <1>7 DEF ExpireToken
    <2>. QED
      BY <1>0, <2>1, <2>2 DEF MadeBy
  <1>8. CASE Crash
    <2>1. \A r \in Requests : proc'[r].new = NoJti
      BY <1>0, <1>8 DEF Crash
    <2>. QED
      BY <1>0, <2>1 DEF MadeBy
  <1>9. CASE ExpireList \/ ExpireLock \/ UNCHANGED vars
    BY <1>9 DEF ExpireList, ExpireLock, vars, MadeBy
  <1>. QED
    BY <1>5, <1>6, <1>7, <1>8, <1>9 DEF Next

\* A step that makes tokens at most, and deletes others, ends some lives.
LEMMA LifeEnds ==
  ASSUME TypeOK, TypeOK',
         \A j \in Jtis : stage'[j] = stage[j] \/ (stage[j] = "fresh" /\ stage'[j] = "made"),
         \A j \in tokens' : j \in tokens \/ stage'[j] = "made"
  PROVE  Life!Next
  <1> DEFINE D == {j \in Jtis : stage[j] = "held" /\ j \in tokens /\ j \notin tokens'}
  <1>1. \A j \in Jtis : LifeOf'[j] = IF j \in D THEN "over" ELSE LifeOf[j]
    BY DEF LifeOf, Held, TypeOK
  <1>2. LifeOf' = [j \in Jtis |-> IF j \in D THEN "over" ELSE LifeOf[j]]
    BY <1>1 DEF LifeOf
  <1>3. \A j \in D : LifeOf[j] # "over"
    BY DEF LifeOf, Held
  <1>4. D \in SUBSET Jtis
    OBVIOUS
  <1>. HIDE DEF D
  <1>. QED
    BY <1>2, <1>3, <1>4 DEF Life!End, Life!Next

\* An answer hands its token out, unless it was deleted before.
LEMMA LifeAnswers ==
  ASSUME TypeOK, TypeOK', MadeBy, NEW r \in Requests, Answer(r), UNCHANGED tokens,
         proc[r].new \in Jtis
  PROVE  Life!Next
  <1> DEFINE n == proc[r].new
  <1>1. stage[n] = "made" /\ stage' = [stage EXCEPT ![n] = "held"]
    BY AnswerHolds DEF MadeBy
  <1>2. \A j \in Jtis : j # n => LifeOf'[j] = LifeOf[j]
    BY <1>1 DEF LifeOf, Held, TypeOK
  <1>3. LifeOf[n] = "unissued"
    BY <1>1 DEF LifeOf
  <1>4. CASE n \in tokens
    <2>1. LifeOf'[n] = "usable"
      BY <1>1, <1>4 DEF LifeOf, Held, TypeOK
    <2>2. LifeOf' = [LifeOf EXCEPT ![n] = "usable"]
      BY <1>2, <2>1 DEF LifeOf
    <2>. QED
      BY <1>3, <2>2 DEF Life!HandOut, Life!Next
  <1>5. CASE n \notin tokens
    <2>1. LifeOf'[n] = "over"
      BY <1>1, <1>5 DEF LifeOf, Held, TypeOK
    <2>2. LifeOf' = [j \in Jtis |-> IF j \in {n} THEN "over" ELSE LifeOf[j]]
      BY <1>2, <2>1 DEF LifeOf
    <2>3. Life!End({n})
      BY <1>3, <2>2 DEF Life!End
    <2>. QED
      BY <2>3 DEF Life!Next
  <1>. QED
    BY <1>4, <1>5

LEMMA LifeStep ==
  ASSUME SessionsInv, SessionsInv', MadeBy, [Next]_vars
  PROVE  Life!Next \/ UNCHANGED LifeOf
  <1>0. TypeOK /\ TypeOK'
    BY DEF SessionsInv
  <1>1. ASSUME NEW r \in Requests, NEW j \in Jtis,
               Rotate(r, j) \/ \E op \in Logins : Acquire(r, op, j)
        PROVE  Life!Next
    <2>1. /\ stage[j] = "fresh" /\ stage' = [stage EXCEPT ![j] = "made"]
          /\ tokens' \subseteq tokens \cup {j}
      BY <1>1, TokenMade
    <2>. QED
      BY <1>0, <2>1, LifeEnds DEF TypeOK
  <1>2. ASSUME NEW r \in Requests, Start(r) PROVE Life!Next \/ UNCHANGED LifeOf
    <2>1. CASE \E op \in Logins : AcquireLost(r, op)
      BY <2>1, LostAnswer DEF LifeOf, Held
    <2>. QED
      BY <1>0, <1>1, <1>2, <2>1, NothingCarried, LifeEnds DEF Start
  <1>3. ASSUME NEW r \in Requests, Unlock(r) \/ Add(r) PROVE Life!Next
    <2>1. proc[r].new \in Jtis /\ Answer(r) /\ UNCHANGED tokens
      BY <1>3 DEF Unlock, Add, SessionsInv, LocalInv, LoginPhases
    <2>. QED
      BY <1>0, <2>1, LifeAnswers
  <1>4. ASSUME NEW r \in Requests, Wipe(r) \/ Forget(r) PROVE Life!Next
    <2>1. proc[r].new = NoJti /\ Answer(r)
      BY <1>4 DEF Wipe, Forget, MadeBy, LoginPhases
    <2>2. UNCHANGED stage
      BY <1>0, <2>1, AnswerHolds
    <2>3. tokens' \subseteq tokens
      BY <1>4 DEF Wipe, Forget, WriteTokens
    <2>. QED
      BY <1>0, <2>2, <2>3, LifeEnds
  <1>5. ASSUME NEW r \in Requests, Proceed(r) PROVE Life!Next
    <2>1. CASE \/ Store(r) \/ ReadSessions(r) \/ WriteSessions(r) \/ ReadForLimit(r)
               \/ Evict(r) \/ EvictNext(r) \/ Trim(r)
               \/ Lookup(r) \/ CheckUser(r) \/ Drop(r) \/ ReadAll(r)
      <3>1. /\ UNCHANGED stage
            /\ \A j \in tokens' : j \in tokens \/ (j \in Jtis /\ j = proc[r].new)
        BY <2>1, CarriedOn
      <3>2. \A j \in tokens' : j \in tokens \/ stage'[j] = "made"
        BY <3>1 DEF MadeBy
      <3>. QED
        BY <1>0, <3>1, <3>2, LifeEnds
    <2>. QED
      BY <1>1, <1>3, <1>4, <1>5, <2>1 DEF Proceed
  <1>6. ASSUME NEW j \in Jtis, ExpireToken(j) PROVE Life!Next
    <2>1. /\ stage[j] \in {"made", "held"} /\ stage' = [stage EXCEPT ![j] = "expired"]
          /\ tokens' = tokens \ {j}
      BY <1>6 DEF ExpireToken
    <2> DEFINE D == IF LifeOf[j] = "over" THEN {} ELSE {j}
    <2>2. \A k \in Jtis : LifeOf'[k] = IF k \in D THEN "over" ELSE LifeOf[k]
      BY <1>0, <2>1 DEF LifeOf, Held, TypeOK
    <2>3. LifeOf' = [k \in Jtis |-> IF k \in D THEN "over" ELSE LifeOf[k]]
      BY <2>2 DEF LifeOf
    <2>4. D \in SUBSET Jtis /\ \A k \in D : LifeOf[k] # "over"
      OBVIOUS
    <2>. HIDE DEF D
    <2>. QED
      BY <2>3, <2>4 DEF Life!End, Life!Next
  <1>7. CASE ExpireList \/ ExpireLock \/ Crash \/ UNCHANGED vars
    <2>1. UNCHANGED <<tokens, stage>>
      BY <1>7 DEF ExpireList, ExpireLock, Crash, vars
    <2>. QED
      BY <2>1 DEF LifeOf, Held
  <1>. QED
    BY <1>2, <1>5, <1>6, <1>7 DEF Next

\* However requests overlap, Redis fails, locks expire under their logins and
\* the process stops: a token is handed out once, ends once and stays ended.
THEOREM TokensEndForGood == Spec => ImplementsTokenLife
  <1>1. Init => Life!Init
    BY DEF Init, Life!Init, LifeOf
  <1>2. SessionsInv /\ SessionsInv' /\ MadeBy /\ [Next]_vars => [Life!Next]_LifeOf
    BY LifeStep
  <1>. QED
    BY <1>1, <1>2, SessionsInit, SessionsStep, MadeByInit, MadeByStep, PTL
    DEF Spec, ImplementsTokenLife, Life!Spec

----------------------------------------------------------------------------
(***************************************************************************)
(* What overlap can lose, for OverlapSpec without Redis failures.  A clean *)
(* token is born while no other request is in flight, so every list that   *)
(* is read from then on holds it; and no step that follows gives it back   *)
(* once it ended.                                                          *)
(***************************************************************************)

\* A step that hands out no token: what it stores is on its way to a client.
Quiet ==
  \A j \in Jtis :
    /\ stage'[j] = "held" => stage[j] = "held"
    /\ stage'[j] = "fresh" => stage[j] = "fresh"
    /\ stage[j] \in {"held", "expired"} => stage'[j] \in {"held", "expired"}
    /\ j \in tokens' => j \in tokens \/ stage'[j] = "made"

HandsOut(r) == Unlock(r) \/ Add(r)

LEMMA HandOutEffect ==
  ASSUME SessionsInv, MadeBy, NEW r \in Requests, HandsOut(r)
  PROVE  /\ proc[r].new \in Jtis /\ stage[proc[r].new] = "made" /\ ~Idle(r)
         /\ stage' = [stage EXCEPT ![proc[r].new] = "held"]
         /\ Held' = Held \cup {proc[r].new}
         /\ UNCHANGED <<tokens, rotatedFrom>>
         /\ proc'[r] = NoRequest /\ \A x \in Requests : x # r => proc'[x] = proc[x]
  <1>1. /\ proc[r].new \in Jtis /\ ~Idle(r)
        /\ Answer(r) /\ UNCHANGED <<tokens, rotatedFrom>>
    BY DEF HandsOut, Unlock, Add, SessionsInv, LocalInv, LoginPhases, Idle
  <1>2. stage[proc[r].new] = "made"
    BY <1>1 DEF MadeBy
  <1>. QED
    BY <1>1, <1>2, AnswerHolds, AnswerEnds DEF SessionsInv

\* The steps that make a token, and those that leave all of them as they are.
LEMMA QuietMakes ==
  ASSUME TypeOK, NEW j \in Jtis, stage[j] = "fresh", stage' = [stage EXCEPT ![j] = "made"],
         tokens' \subseteq tokens \cup {j}
  PROVE  Quiet
  BY DEF Quiet, TypeOK

LEMMA QuietKeeps ==
  ASSUME TypeOK, UNCHANGED stage, \A j \in tokens' : j \in tokens \/ stage[j] = "made"
  PROVE  Quiet
  BY DEF Quiet, TypeOK

LEMMA StepKinds ==
  ASSUME SessionsInv, MadeBy, [Next]_vars
  PROVE  Quiet \/ \E r \in Requests : HandsOut(r)
  <1>0. TypeOK
    BY DEF SessionsInv
  <1>1. ASSUME NEW r \in Requests, NEW j \in Jtis,
               Rotate(r, j) \/ \E op \in Logins : Acquire(r, op, j)
        PROVE  Quiet
    BY <1>0, <1>1, TokenMade, QuietMakes
  <1>2. ASSUME NEW r \in Requests, Start(r) PROVE Quiet
    <2>1. CASE \E op \in Logins : AcquireLost(r, op)
      BY <1>0, <2>1, LostAnswer, QuietKeeps
    <2>. QED
      BY <1>0, <1>1, <1>2, <2>1, NothingCarried, QuietKeeps DEF Start
  <1>3. ASSUME NEW r \in Requests, Wipe(r) \/ Forget(r) PROVE Quiet
    <2>1. proc[r].new = NoJti /\ Answer(r) /\ tokens' \subseteq tokens
      BY <1>3 DEF Wipe, Forget, WriteTokens, MadeBy, LoginPhases
    <2>2. UNCHANGED stage
      BY <1>0, <2>1, AnswerHolds
    <2>. QED
      BY <1>0, <2>1, <2>2, QuietKeeps
  <1>4. ASSUME NEW r \in Requests, Proceed(r), ~HandsOut(r) PROVE Quiet
    <2>1. CASE \/ Store(r) \/ ReadSessions(r) \/ WriteSessions(r) \/ ReadForLimit(r)
               \/ Evict(r) \/ EvictNext(r) \/ Trim(r)
               \/ Lookup(r) \/ CheckUser(r) \/ Drop(r) \/ ReadAll(r)
      <3>1. /\ UNCHANGED stage
            /\ \A j \in tokens' : j \in tokens \/ (j \in Jtis /\ j = proc[r].new)
        BY <2>1, CarriedOn
      <3>2. \A j \in tokens' : j \in tokens \/ stage[j] = "made"
        BY <3>1 DEF MadeBy
      <3>. QED
        BY <1>0, <3>1, <3>2, QuietKeeps
    <2>. QED
      BY <1>1, <1>3, <1>4, <2>1 DEF Proceed, HandsOut
  <1>5. ASSUME NEW j \in Jtis, ExpireToken(j) PROVE Quiet
    BY <1>0, <1>5 DEF ExpireToken, Quiet, TypeOK
  <1>6. CASE ExpireList \/ ExpireLock \/ Crash \/ UNCHANGED vars
    <2>1. UNCHANGED <<tokens, stage>>
      BY <1>6 DEF ExpireList, ExpireLock, Crash, vars
    <2>. QED
      BY <1>0, <2>1, QuietKeeps
  <1>. QED
    BY <1>2, <1>4, <1>5, <1>6 DEF Next

----------------------------------------------------------------------------
\* The history of a step.

LEMMA SharedStep ==
  ASSUME RememberShared
  PROVE  /\ Alone'
         /\ \A x \in shared : ~Idle(x)' /\ x \in Requests => x \in shared'
         /\ \A x, y \in Requests : x # y /\ ~Idle(x)' /\ ~Idle(y)' => x \in shared'
  BY DEF RememberShared, Alone, InFlight, Idle

LEMMA CleanStep ==
  ASSUME SessionsInv, MadeBy, RememberClean
  PROVE  /\ Quiet => clean' = clean
         /\ \A r \in Requests : HandsOut(r) =>
              clean' = IF r \in shared THEN clean ELSE clean \cup {proc[r].new}
  <1>1. ASSUME Quiet PROVE clean' = clean
    <2>1. \A x \in Requests : HandedOut(x) = {}
      BY <1>1 DEF Quiet, HandedOut, MadeBy
    <2>. QED
      BY <2>1 DEF RememberClean, InFlight
  <1>2. ASSUME NEW r \in Requests, HandsOut(r)
        PROVE  clean' = IF r \in shared THEN clean ELSE clean \cup {proc[r].new}
    <2>1. /\ proc[r].new \in Jtis /\ ~Idle(r) /\ stage'[proc[r].new] = "held"
          /\ proc'[r] = NoRequest /\ \A x \in Requests : x # r => proc'[x] = proc[x]
      BY <1>2, HandOutEffect DEF SessionsInv, TypeOK
    <2>2. HandedOut(r) = {proc[r].new}
      BY <2>1 DEF HandedOut
    <2>3. {x \in InFlight \ shared : Idle(x)'} = IF r \in shared THEN {} ELSE {r}
      BY <2>1, NoRequestTyped DEF InFlight, Idle
    <2>. QED
      BY <2>2, <2>3 DEF RememberClean
  <1>. QED
    BY <1>1, <1>2

LEMMA GoodStep ==
  ASSUME SessionsInv, MadeBy, CleanWereHeld, RememberClean
  PROVE  /\ Quiet => Good' \subseteq Good /\ CleanWereHeld'
         /\ \A r \in Requests : HandsOut(r) => Good' \subseteq Safe(r) /\ CleanWereHeld'
  <1>1. ASSUME Quiet PROVE Good' \subseteq Good /\ CleanWereHeld'
    <2>1. clean' = clean
      BY <1>1, CleanStep
    <2>. QED
      BY <1>1, <2>1 DEF Quiet, Good, Held, CleanWereHeld
  <1>2. ASSUME NEW r \in Requests, HandsOut(r)
        PROVE  Good' \subseteq Safe(r) /\ CleanWereHeld'
    <2>1. /\ proc[r].new \in Jtis /\ stage[proc[r].new] = "made"
          /\ stage' = [stage EXCEPT ![proc[r].new] = "held"]
          /\ Held' = Held \cup {proc[r].new} /\ tokens' = tokens
      BY <1>2, HandOutEffect
    <2>2. clean' = IF r \in shared THEN clean ELSE clean \cup {proc[r].new}
      BY <1>2, CleanStep
    <2>3. proc[r].new \notin clean
      BY <2>1 DEF CleanWereHeld
    <2>4. Good' \subseteq Safe(r)
      BY <2>1, <2>2, <2>3 DEF Good, Safe
    <2>5. CleanWereHeld'
      BY <2>1, <2>2 DEF CleanWereHeld, SessionsInv, TypeOK
    <2>. QED
      BY <2>4, <2>5
  <1>. QED
    BY <1>1, <1>2

----------------------------------------------------------------------------
\* What a step does to the lists that were read.

Kept == LostOnlyByOverlap

LEMMA KeptGood == Kept <=> Good \subseteq Elements(list)
  BY DEF Kept, LostOnlyByOverlap, Good

\* A request that does not move has nothing new to lose.
LEMMA OthersCareful ==
  ASSUME ~Faults, SessionsInv, Alone, RememberShared, NEW r \in Requests,
         Start(r) \/ Proceed(r), NEW x \in Requests, x # r, Careful(x),
         Good' \subseteq Good \/ (Proceed(r) /\ Good' \subseteq Safe(r)), Kept'
  PROVE  Careful(x)'
  <1>1. proc'[x] = proc[x] /\ (Start(r) => ~Idle(r)') /\ (Proceed(r) => ~Idle(r))
    BY StepLeaves
  <1>2. CASE Idle(x)
    BY <1>1, <1>2 DEF Careful, Idle
  <1>3. CASE ~Idle(x)
    <2>1. x \in shared' /\ Good' \subseteq Good
      <3>1. CASE Start(r)
        <4>1. Idle(r)
          BY <3>1, StartEffect
        <4>2. ~Proceed(r)
          BY <1>1, <4>1
        <4>. QED
          BY <1>1, <1>3, <3>1, <4>2, SharedStep DEF Idle
      <3>2. CASE Proceed(r)
        <4>1. x \in shared /\ r \in shared
          BY <1>1, <1>3, <3>2 DEF Alone, InFlight
        <4>2. Safe(r) = Good
          BY <4>1 DEF Safe
        <4>. QED
          BY <1>1, <1>3, <4>1, <4>2, SharedStep DEF Idle
      <3>. QED
        BY <3>1, <3>2
    <2>2. Safe(x)' = Good' /\ Good \subseteq Safe(x)
      BY <2>1 DEF Safe
    <2>3. Good' \subseteq Elements(list')
      BY KeptGood DEF Kept, LostOnlyByOverlap, Good, Elements
    <2>4. Excess(proc[x].op, proc[x].seen)' = Excess(proc[x].op, proc[x].seen)
      BY <1>1 DEF Excess
    <2>5. Elements(proc[x].seen)' = Elements(proc[x].seen)
      BY <1>1 DEF Elements
    <2>6. Elements(list)' = Elements(list')
      BY DEF Elements
    <2>. QED
      BY <1>1, <2>1, <2>2, <2>3, <2>4, <2>5, <2>6 DEF Careful
  <1>. QED
    BY <1>2, <1>3

\* What the request that moves must not lose shrinks with the tokens.
LEMMA OwnSafe ==
  ASSUME NEW r \in Requests, RememberShared, ~Idle(r)', proc'[r].new = proc[r].new,
         tokens' \subseteq tokens, Good' \subseteq Good
  PROVE  Safe(r)' \subseteq Safe(r) \cap tokens'
  <1>1. r \notin shared' => r \notin shared
    BY SharedStep
  <1>2. Good' \subseteq tokens'
    BY DEF Good
  <1>. QED
    BY <1>1, <1>2 DEF Safe

LEMMA OwnReads ==
  ASSUME ~Faults, TypeOK, NEW r \in Requests, RememberShared, Careful(r), Kept,
         Good' \subseteq Good,
         \/ Store(r) \/ ReadSessions(r) \/ ReadForLimit(r) \/ Lookup(r) \/ CheckUser(r)
         \/ ReadAll(r)
  PROVE  Careful(r)' /\ Kept'
  <1>1. list' = list
    BY DEF Store, ReadSessions, ReadForLimit, Lookup, CheckUser, ReadAll
  <1>2. Kept' /\ Good' \subseteq Elements(list)
    BY <1>1, KeptGood DEF Kept, LostOnlyByOverlap, Good, Elements
  <1>3. CASE Store(r)
    <2>1. proc[r].pc = "store" /\ proc'[r].pc = "readList" /\ SameRequest(proc[r], proc'[r])
      BY <1>3, MoveKeeps DEF Store
    <2>. QED
      BY <1>2, <2>1 DEF Careful, SameRequest
  <1>4. CASE ReadSessions(r)
    <2>1. /\ proc[r].pc = "readList" /\ proc'[r].pc = "writeList" /\ proc'[r].seen = list
          /\ SameRequest(proc[r], proc'[r])
      BY <1>4, ReadKeeps DEF ReadSessions
    <2>. QED
      BY <1>2, <2>1 DEF Careful, SameRequest, Elements
  <1>5. CASE ReadForLimit(r)
    <2>1. /\ proc[r].pc = "readLimit" /\ proc'[r].seen = list
          /\ SameRequest(proc[r], proc'[r]) /\ tokens' = tokens
          /\ proc'[r].pc = (IF Len(list) <= MaxDevices THEN "unlock" ELSE "evict")
      BY <1>5, LimitRead DEF ReadForLimit
    <2>2. Len(list) \in Nat /\ MaxDevices \in Nat
      BY SessionsAssumption DEF TypeOK
    <2>3. Safe(r)' \subseteq Safe(r)
      BY <2>1, OwnSafe DEF SameRequest, Idle
    <2>4. Safe(r) \subseteq Elements(list) /\ proc'[r].gone = 0
      BY <2>1 DEF Careful, SameRequest
    <2>5. proc'[r].pc = "evict" /\ proc'[r].op = "google" =>
            0 < Excess(proc'[r].op, proc'[r].seen)
      BY <2>1, <2>2 DEF Excess
    <2>6. Elements(proc[r].seen)' = Elements(list) /\ Elements(list)' = Elements(list)
      BY <1>1, <2>1 DEF Elements
    <2>7. proc'[r].pc \in {"unlock", "evict"}
      BY <2>1
    <2>. QED
      BY <1>2, <2>3, <2>4, <2>5, <2>6, <2>7 DEF Careful, Excess
  <1>6. CASE Lookup(r) \/ CheckUser(r)
    <2>1. proc'[r].pc \in {"status", "rotate", "readAll"}
      BY <1>6, MoveKeeps DEF Lookup, CheckUser
    <2>. QED
      BY <1>2, <2>1 DEF Careful
  <1>7. CASE ReadAll(r)
    <2>1. proc'[r].pc = "wipe" /\ proc'[r].seen = list
      BY <1>7, ReadKeeps DEF ReadAll
    <2>. QED
      BY <1>2, <2>1 DEF Careful, Elements
  <1>. QED
    BY <1>3, <1>4, <1>5, <1>6, <1>7

\* The list is written back from what was read.
LEMMA OwnWrites ==
  ASSUME ~Faults, SessionsInv, NEW r \in Requests, RememberShared, Careful(r), Kept,
         Good' \subseteq Good,
         WriteSessions(r) \/ Drop(r) \/ Wipe(r) \/ Forget(r)
  PROVE  Careful(r)' /\ Kept'
  <1> DEFINE p == proc[r]
  <1>0. TypeOK /\ p.seen \in Seq(Jtis)
    BY DEF SessionsInv, TypeOK, Process
  <1>1. CASE WriteSessions(r)
    <2>1. /\ p.pc = "writeList" /\ p.new \in Jtis /\ Move(r, "readLimit")
          /\ Good \subseteq Elements(p.seen) /\ p.gone = 0
      BY <1>1 DEF WriteSessions, Careful, SessionsInv, LocalInv, LoginPhases
    <2>2. list' = Append(p.seen, p.new)
      BY <1>1, NoFaults DEF WriteSessions
    <2>3. Elements(list') = Elements(p.seen) \cup {p.new}
      BY <1>0, <2>1, <2>2, ElementsOfAppend
    <2>4. proc'[r].pc = "readLimit" /\ SameRequest(p, proc'[r])
      BY <1>0, <2>1, MoveKeeps
    <2>5. Safe(r)' \subseteq Good' \cup {p.new}
      BY <2>4 DEF Safe, SameRequest
    <2>6. Elements(list)' = Elements(list')
      BY DEF Elements
    <2>7. Good' \subseteq Elements(list') /\ Safe(r)' \subseteq Elements(list)'
      BY <2>1, <2>3, <2>5, <2>6
    <2>8. Careful(r)'
      BY <2>1, <2>4, <2>7 DEF Careful, SameRequest
    <2>9. Kept'
      BY <2>6, <2>7 DEF Kept, LostOnlyByOverlap, Good
    <2>. QED
      BY <2>8, <2>9
  <1>2. CASE Drop(r) \/ Forget(r)
    <2>1. p.pc \in {"drop", "forget"} /\ Good \subseteq Elements(p.seen) /\ p.jti \notin Good
      BY <1>2 DEF Drop, Forget, Careful
    <2>2. list' = Without(p.seen, p.jti)
      BY <1>2, NoFaults DEF Drop, Forget
    <2>3. Elements(p.seen) \ {p.jti} \subseteq Elements(list')
      BY <1>0, <2>2, ElementsOfWithout
    <2>4. Kept'
      <3>1. Good' \subseteq Elements(list')
        BY <2>1, <2>3
      <3>. QED
        BY <3>1 DEF Kept, LostOnlyByOverlap, Good, Elements
    <2>5. \/ proc'[r].pc = "idle"
          \/ proc'[r].pc = "add" /\ proc'[r].seen = p.seen
      BY <1>0, <1>2, MoveKeeps, AnswerEffect DEF Drop, Forget
    <2>6. Careful(r)'
      BY <2>1, <2>5 DEF Careful, Elements
    <2>. QED
      BY <2>4, <2>6
  <1>3. CASE Wipe(r)
    <2>1. Good \subseteq Elements(p.seen)
      BY <1>3 DEF Wipe, Careful
    <2>2. tokens' = tokens \ Elements(p.seen)
      BY <1>3, NoFaults DEF Wipe
    <2>3. Good' = {}
      BY <2>1, <2>2 DEF Good
    <2>4. proc'[r].pc = "idle"
      BY <1>0, <1>3, AnswerEffect DEF Wipe
    <2>. QED
      BY <2>3, <2>4 DEF Careful, Kept, LostOnlyByOverlap, Good
  <1>. QED
    BY <1>1, <1>2, <1>3

LEMMA OwnEvicts ==
  ASSUME ~Faults, SessionsInv, NEW r \in Requests, RememberShared, Careful(r), Kept,
         Good' \subseteq Good, Evict(r) \/ EvictNext(r) \/ Trim(r)
  PROVE  Careful(r)' /\ Kept'
  <1> DEFINE p == proc[r]
             n == Excess(p.op, p.seen)
  <1>0. TypeOK /\ p.seen \in Seq(Jtis) /\ p.gone \in Nat
    BY DEF SessionsInv, TypeOK, Process
  <1>1. /\ p.pc \in {"evict", "trim"} /\ Len(p.seen) > MaxDevices
        /\ Safe(r) \subseteq Elements(p.seen)
    BY DEF Evict, EvictNext, Trim, Careful, SessionsInv, LocalInv
  <1>2. /\ n \in 1..Len(p.seen)
        /\ Elements(Oldest(p.op, p.seen)) = {p.seen[i] : i \in 1..n}
        /\ Elements(p.seen) \subseteq {p.seen[i] : i \in 1..n} \cup Elements(Newest(p.op, p.seen))
    BY <1>0, <1>1, ExcessSplits
  <1>3. n \in Nat
    BY <1>2
  <1>. HIDE DEF n
  <1>4. CASE Evict(r)
    <2>1. /\ WriteTokens(Elements(Oldest(p.op, p.seen)), {}) /\ Move(r, "trim") /\ list' = list
      BY <1>4 DEF Evict
    <2>2. tokens' = tokens \ {p.seen[i] : i \in 1..n}
      BY <1>2, <2>1, NoFaults
    <2>3. proc'[r].pc = "trim" /\ proc'[r].seen = p.seen /\ SameRequest(p, proc'[r])
      BY <1>0, <2>1, MoveKeeps
    <2>4. Safe(r)' \subseteq Safe(r) \cap tokens'
      BY <2>2, <2>3, OwnSafe DEF SameRequest, Idle
    <2>5. Excess(proc'[r].op, proc'[r].seen) = n
      BY <2>3 DEF SameRequest, n
    <2>6. \A i \in 1..n : p.seen[i] \notin Safe(r)'
      BY <2>2, <2>4
    <2>7. Elements(proc[r].seen)' = Elements(p.seen)
      BY <2>3 DEF Elements
    <2>8. Careful(r)'
      BY <1>1, <2>3, <2>4, <2>5, <2>6, <2>7 DEF Careful, Excess
    <2>. QED
      BY <2>1, <2>8 DEF Kept, LostOnlyByOverlap, Good, Elements
  <1>5. CASE EvictNext(r)
    <2>1. /\ WriteTokens({p.seen[p.gone + 1]}, {}) /\ p.pc = "evict" /\ p.op = "google"
          /\ list' = list
      BY <1>5 DEF EvictNext
    <2>2. tokens' = tokens \ {p.seen[p.gone + 1]}
      BY <2>1, NoFaults
    <2>3. /\ proc'[r].pc = (IF p.gone + 1 < n THEN "evict" ELSE "trim")
          /\ proc'[r].op = p.op /\ proc'[r].new = p.new
          /\ proc'[r].seen = p.seen /\ proc'[r].gone = p.gone + 1
      BY <1>0, <1>5, NextEvicted DEF n
    <2>4. p.gone < n /\ \A i \in 1..p.gone : p.seen[i] \notin Safe(r)
      BY <2>1 DEF Careful, n
    <2>5. Safe(r)' \subseteq Safe(r) \cap tokens'
      BY <2>2, <2>3, OwnSafe DEF Idle
    <2>6. \A i \in 1..(p.gone + 1) : p.seen[i] \notin Safe(r)'
      <3>1. \A i \in 1..(p.gone + 1) : i = p.gone + 1 \/ i \in 1..p.gone
        BY <1>0
      <3>. QED
        BY <2>2, <2>4, <2>5, <3>1
    <2>7. Excess(proc'[r].op, proc'[r].seen) = n
      BY <2>3 DEF n
    <2>8. Elements(proc[r].seen)' = Elements(p.seen)
      BY <2>3 DEF Elements
    <2>9. Careful(r)'
      <3>1. CASE p.gone + 1 < n
        <4>1. proc'[r].pc = "evict" /\ proc'[r].gone < n
          BY <2>3, <3>1
        <4>. QED
          BY <1>1, <2>3, <2>5, <2>6, <2>7, <2>8, <4>1 DEF Careful, Excess
      <3>2. CASE ~(p.gone + 1 < n)
        <4>1. proc'[r].pc = "trim" /\ p.gone + 1 = n
          BY <1>0, <1>3, <2>3, <2>4, <3>2
        <4>. QED
          BY <1>1, <2>3, <2>5, <2>6, <2>7, <2>8, <4>1 DEF Careful, Excess
      <3>. QED
        BY <3>1, <3>2
    <2>. QED
      BY <2>1, <2>9 DEF Kept, LostOnlyByOverlap, Good, Elements
  <1>6. CASE Trim(r)
    <2>1. /\ WriteList(Newest(p.op, p.seen)) /\ p.pc = "trim" /\ Move(r, "unlock")
          /\ tokens' = tokens
      BY <1>6 DEF Trim
    <2>2. list' = Newest(p.op, p.seen)
      BY <2>1, NoFaults
    <2>3. \A i \in 1..n : p.seen[i] \notin Safe(r)
      BY <2>1 DEF Careful, n
    <2>4. Safe(r) \subseteq Elements(list')
      BY <1>1, <1>2, <2>2, <2>3
    <2>5. proc'[r].pc = "unlock" /\ SameRequest(p, proc'[r])
      BY <1>0, <2>1, MoveKeeps
    <2>6. Safe(r)' \subseteq Safe(r) /\ Good \subseteq Safe(r)
      BY <2>1, <2>5, OwnSafe DEF SameRequest, Idle, Safe
    <2>7. Elements(list)' = Elements(list')
      BY DEF Elements
    <2>8. Careful(r)'
      BY <2>4, <2>5, <2>6, <2>7 DEF Careful
    <2>9. Good' \subseteq Elements(list')
      BY <2>4, <2>6
    <2>. QED
      BY <2>7, <2>8, <2>9 DEF Kept, LostOnlyByOverlap, Good
  <1>. QED
    BY <1>4, <1>5, <1>6

LEMMA OwnRotates ==
  ASSUME ~Faults, TypeOK, NEW r \in Requests, Kept, Good' \subseteq Good,
         NEW j \in Jtis, Rotate(r, j)
  PROVE  Careful(r)' /\ Kept'
  <1>1. proc'[r].pc = "drop" /\ proc'[r].jti = proc[r].jti /\ proc'[r].seen = list
    BY RotationRead
  <1>2. /\ stage[j] = "fresh" /\ list' = list
        /\ tokens' = (tokens \ {proc[r].jti}) \cup {j}
    BY NoFaults DEF Rotate
  <1>3. j \notin Good /\ Good' \subseteq tokens'
    BY <1>2 DEF Good, Held
  <1>4. Good' \subseteq Elements(list) /\ Kept'
    BY <1>2, KeptGood DEF Kept, LostOnlyByOverlap, Good, Elements
  <1>5. proc'[r].jti \notin Good'
    BY <1>1, <1>2, <1>3
  <1>. QED
    BY <1>1, <1>4, <1>5 DEF Careful, Elements

LEMMA OwnHandsOut ==
  ASSUME ~Faults, SessionsInv, MadeBy, NEW r \in Requests, Careful(r),
         Good' \subseteq Safe(r), HandsOut(r)
  PROVE  Careful(r)' /\ Kept'
  <1>0. TypeOK /\ proc[r].seen \in Seq(Jtis) /\ proc[r].new \in Jtis
    BY HandOutEffect DEF SessionsInv, TypeOK, Process
  <1>1. Careful(r)'
    BY HandOutEffect, NoRequestTyped DEF Careful
  <1>2. CASE Unlock(r)
    <2>1. Safe(r) \subseteq Elements(list) /\ list' = list
      BY <1>2 DEF Unlock, Careful
    <2>. QED
      BY <1>1, <2>1 DEF Kept, LostOnlyByOverlap, Good, Elements
  <1>3. CASE Add(r)
    <2>1. Good \subseteq Elements(proc[r].seen)
      BY <1>3 DEF Add, Careful
    <2>2. list' = Append(proc[r].seen, proc[r].new)
      BY <1>3, NoFaults DEF Add
    <2>3. Elements(list') = Elements(proc[r].seen) \cup {proc[r].new}
      BY <1>0, <2>2, ElementsOfAppend
    <2>4. Safe(r) \subseteq Good \cup {proc[r].new}
      BY DEF Safe
    <2>5. Good' \subseteq Elements(list')
      BY <2>1, <2>3, <2>4
    <2>. QED
      BY <1>1, <2>5 DEF Kept, LostOnlyByOverlap, Good, Elements
  <1>. QED
    BY <1>2, <1>3 DEF HandsOut

LEMMA OwnStarts ==
  ASSUME ~Faults, TypeOK, NEW r \in Requests, Kept, Good' \subseteq Good, Start(r)
  PROVE  Careful(r)' /\ Kept'
  <1>0. list' = list
    BY LostAnswer DEF Start, Acquire, StartRefresh, Logout, StartLogoutAll
  <1>1. Good' \subseteq Elements(list) /\ Kept'
    BY <1>0, KeptGood DEF Kept, LostOnlyByOverlap, Good, Elements
  <1>2. ASSUME NEW op \in Logins, NEW j \in Jtis, Acquire(r, op, j) PROVE Careful(r)'
    BY <1>2, Beginnings DEF Careful, Begins
  <1>3. ASSUME NEW j \in Jtis, StartRefresh(r, j) PROVE Careful(r)'
    BY <1>3, Beginnings DEF Careful, Begins
  <1>4. CASE StartLogoutAll(r)
    BY <1>1, <1>4, Beginnings DEF Careful, Begins
  <1>5. ASSUME NEW j \in Jtis, Logout(r, j) PROVE Careful(r)'
    <2>1. tokens' = tokens \ {j}
      BY <1>5, NoFaults DEF Logout
    <2>2. j \notin Good'
      BY <2>1 DEF Good
    <2>3. Begins(r, "forget", "logout", j, NoJti, list)
      BY <1>5, Beginnings
    <2>. QED
      BY <1>1, <2>2, <2>3 DEF Careful, Begins, Elements
  <1>. QED
    BY <1>1, <1>2, <1>3, <1>4, <1>5, LostAnswer DEF Start

----------------------------------------------------------------------------
\* What overlap can lose, put together.

OverlapInv ==
  /\ SessionsInv
  /\ MadeBy
  /\ Alone
  /\ CleanWereHeld
  /\ LostOnlyByOverlap
  /\ \A r \in Requests : Careful(r)

LEMMA OverlapStart == OverlapInit => OverlapInv
  <1> SUFFICES ASSUME OverlapInit PROVE OverlapInv
    OBVIOUS
  <1>1. SessionsInv /\ MadeBy
    BY SessionsInit, MadeByInit DEF OverlapInit
  <1>2. \A r \in Requests : Idle(r)
    BY NoRequestTyped DEF OverlapInit, Init, Idle
  <1>3. Alone /\ \A r \in Requests : Careful(r)
    BY <1>2 DEF Alone, InFlight, Careful, Idle
  <1>4. CleanWereHeld /\ LostOnlyByOverlap
    BY DEF OverlapInit, CleanWereHeld, LostOnlyByOverlap
  <1>. QED
    BY <1>1, <1>3, <1>4 DEF OverlapInv

LEMMA OverlapStep ==
  ASSUME ~Faults, OverlapInv, [OverlapNext]_<<vars, histories>>
  PROVE  OverlapInv'
  <1>1. SessionsInv /\ SessionsInv' /\ MadeBy /\ MadeBy'
    <2>1. [Next]_vars
      BY DEF OverlapNext, vars, histories
    <2>. QED
      BY <2>1, SessionsStep, MadeByStep DEF OverlapInv
  <1>2. CASE UNCHANGED <<vars, histories>>
    <2>1. UNCHANGED <<tokens, list, stage, proc, shared, clean>>
      BY <1>2 DEF vars, histories
    <2>2. Alone' /\ CleanWereHeld' /\ LostOnlyByOverlap'
      BY <2>1 DEF OverlapInv, Alone, InFlight, Idle, CleanWereHeld, LostOnlyByOverlap, Held,
                  Elements
    <2>3. \A r \in Requests : Careful(r)'
      BY <2>1 DEF OverlapInv, Careful, Good, Safe, Held, Elements, Excess
    <2>. QED
      BY <1>1, <2>2, <2>3 DEF OverlapInv
  <1>3. CASE OverlapNext
    <2>0. /\ TypeOK /\ Alone /\ CleanWereHeld /\ Kept /\ \A r \in Requests : Careful(r)
          /\ Next /\ RememberShared /\ RememberClean
      BY <1>3 DEF OverlapInv, SessionsInv, Kept, OverlapNext
    <2>1. Alone'
      BY <2>0, SharedStep
    <2>2. CleanWereHeld'
      <3>1. [Next]_vars
        BY <2>0
      <3>. QED
        BY <1>1, <2>0, <3>1, StepKinds, GoodStep
    <2>3. ASSUME NEW r \in Requests, HandsOut(r)
          PROVE  Kept' /\ \A x \in Requests : Careful(x)'
      <3>1. Good' \subseteq Safe(r)
        BY <1>1, <2>0, <2>3, GoodStep
      <3>2. Careful(r)' /\ Kept'
        BY <1>1, <2>0, <2>3, <3>1, OwnHandsOut
      <3>3. Proceed(r)
        BY <2>3 DEF HandsOut, Proceed
      <3>. QED
        BY <1>1, <2>0, <3>1, <3>2, <3>3, OthersCareful
    <2>4. ASSUME \A r \in Requests : ~HandsOut(r)
          PROVE  Kept' /\ \A x \in Requests : Careful(x)'
      <3>1. Good' \subseteq Good
        <4>1. [Next]_vars
          BY <2>0
        <4>. QED
          BY <1>1, <2>0, <2>4, <4>1, StepKinds, GoodStep
      <3>2. ASSUME NEW r \in Requests, Start(r) \/ Proceed(r)
            PROVE  Kept' /\ \A x \in Requests : Careful(x)'
        <4>1. Careful(r)' /\ Kept'
          <5>1. CASE Start(r)
            BY <2>0, <3>1, <5>1, OwnStarts
          <5>2. CASE \E j \in Jtis : Rotate(r, j)
            BY <2>0, <3>1, <5>2, OwnRotates
          <5>3. CASE Proceed(r) /\ ~\E j \in Jtis : Rotate(r, j)
            BY <1>1, <2>0, <2>4, <3>1, <5>3, OwnReads, OwnWrites, OwnEvicts
            DEF Proceed, HandsOut
          <5>. QED
            BY <3>2, <5>1, <5>2, <5>3
        <4>. QED
          BY <1>1, <2>0, <3>1, <3>2, <4>1, OthersCareful
      <3>3. ASSUME (\E j \in Jtis : ExpireToken(j)) \/ ExpireList \/ Crash
            PROVE  Kept' /\ \A x \in Requests : Careful(x)'
        <4>1. \A x \in Requests : Careful(x)'
          BY <3>3, NoRequestTyped DEF ExpireToken, ExpireList, Crash, Idle, Careful
        <4>2. CASE list' = list
          BY <2>0, <3>1, <4>1, <4>2, KeptGood DEF Kept, LostOnlyByOverlap, Good, Elements
        <4>3. CASE ExpireList
          BY <2>0, <3>1, <4>1, <4>3, KeptGood DEF ExpireList, Kept, LostOnlyByOverlap, Good
        <4>4. list' = list \/ ExpireList
          BY <3>3 DEF ExpireToken, Crash
        <4>. QED
          BY <4>1, <4>2, <4>3, <4>4
      <3>4. ASSUME ExpireLock PROVE Kept' /\ \A x \in Requests : Careful(x)'
        <4>1. UNCHANGED <<tokens, list, stage, proc>>
          BY <3>4 DEF ExpireLock
        <4>2. Kept'
          BY <2>0, <3>1, <4>1, KeptGood DEF Kept, LostOnlyByOverlap, Good, Elements
        <4>3. ASSUME NEW x \in Requests PROVE Careful(x)'
          <5>1. CASE Idle(x)
            BY <4>1, <5>1 DEF Careful, Idle
          <5>2. CASE ~Idle(x)
            <6>1. Safe(x)' \subseteq Safe(x)
              BY <2>0, <3>1, <4>1, <5>2, OwnSafe DEF Idle
            <6>. QED
              BY <2>0, <3>1, <4>1, <6>1 DEF Careful, Elements, Excess
          <5>. QED
            BY <5>1, <5>2
        <4>. QED
          BY <4>2, <4>3
      <3>. QED
        BY <2>0, <3>2, <3>3, <3>4 DEF Next
    <2>5. Kept' /\ \A x \in Requests : Careful(x)'
      BY <2>3, <2>4
    <2>. QED
      BY <1>1, <2>1, <2>2, <2>5 DEF OverlapInv, Kept
  <1>. QED
    BY <1>2, <1>3

\* Without Redis failures, a usable token that its list does not hold was
\* issued by a request that overlapped another, whatever overlaps afterwards,
\* whichever lock expires and whenever the process stops.
THEOREM OnlyOverlapLoses ==
  ASSUME ~Faults
  PROVE  OverlapSpec => []LostOnlyByOverlap
  <1>1. OverlapInv => LostOnlyByOverlap
    BY DEF OverlapInv
  <1>2. OverlapInv /\ [OverlapNext]_<<vars, histories>> => OverlapInv'
    BY OverlapStep
  <1>. QED
    BY <1>1, <1>2, OverlapStart, PTL DEF OverlapSpec

\* Without Redis failures, a revocation leaves no usable token but those that a
\* request issued while it overlapped another.
THEOREM RevocationsAreComplete ==
  ASSUME ~Faults
  PROVE  OverlapSpec => RevokeIsComplete
  <1> DEFINE Complete == \A r \in Requests : Wipe(r) => tokens' \cap Held \cap clean = {}
  <1>1. OverlapInv => Complete
    <2> SUFFICES ASSUME OverlapInv, NEW r \in Requests, Wipe(r)
                 PROVE  tokens' \cap Held \cap clean = {}
      OBVIOUS
    <2>1. Good \subseteq Elements(proc[r].seen)
      BY DEF OverlapInv, Careful, Wipe
    <2>2. tokens' = tokens \ Elements(proc[r].seen)
      BY NoFaults DEF Wipe
    <2>. QED
      BY <2>1, <2>2 DEF Good
  <1>2. OverlapInv /\ [OverlapNext]_<<vars, histories>> => OverlapInv'
    BY OverlapStep
  <1>3. RevokeIsComplete <=> [][Complete]_<<vars, histories>>
    BY DEF RevokeIsComplete
  <1>. HIDE DEF Complete
  <1>. QED
    BY <1>1, <1>2, <1>3, OverlapStart, PTL DEF OverlapSpec

----------------------------------------------------------------------------
\* Exchanges of a token for another.

ExchangeInv == OverlapInv /\ Retired /\ Presents /\ Exchanges

\* A request that goes on presents what it presented; a new one presents a
\* token its client holds.
LEMMA PresentsStep ==
  ASSUME ~Faults, SessionsInv, MadeBy, Presents, [Next]_vars
  PROVE  Presents'
  <1>0. TypeOK
    BY DEF SessionsInv
  <1>1. ASSUME NEW r \in Requests, \A x \in Requests : x # r => proc'[x] = proc[x],
               \A j \in Jtis : stage[j] = "held" => stage'[j] = "held",
               proc'[r].pc \in {"lookup", "status", "rotate"} =>
                 proc'[r].jti \in Jtis /\ stage'[proc'[r].jti] = "held"
        PROVE  Presents'
    BY <1>1 DEF Presents
  <1>2. ASSUME NEW r \in Requests, Start(r) PROVE Presents'
    <2>1. \A x \in Requests : x # r => proc'[x] = proc[x]
      BY <1>2, StartEffect
    <2>2. ASSUME NEW j \in Jtis, NEW op \in Logins, Acquire(r, op, j) PROVE Presents'
      <3>1. /\ proc'[r].pc = "store"
            /\ stage[j] = "fresh" /\ stage' = [stage EXCEPT ![j] = "made"]
        BY <1>0, <2>2, Beginnings DEF Begins, Acquire
      <3>. QED
        BY <1>0, <1>1, <2>1, <3>1 DEF TypeOK
    <2>3. ASSUME NEW j \in Jtis, StartRefresh(r, j) PROVE Presents'
      <3>1. proc'[r].jti = j /\ stage[j] = "held" /\ stage' = stage
        BY <1>0, <2>3, Beginnings DEF Begins, StartRefresh
      <3>. QED
        BY <1>1, <2>1, <3>1
    <2>4. CASE StartLogoutAll(r) \/ \E j \in Jtis : Logout(r, j)
      <3>1. proc'[r].pc \in {"readAll", "forget"} /\ stage' = stage
        BY <1>0, <2>4, Beginnings DEF Begins, StartLogoutAll, Logout
      <3>. QED
        BY <1>1, <2>1, <3>1
    <2>. QED
      BY <1>2, <2>2, <2>3, <2>4, LostAnswer DEF Start
  <1>3. ASSUME NEW r \in Requests, Proceed(r) PROVE Presents'
    <2>1. \A x \in Requests : x # r => proc'[x] = proc[x]
      BY <1>3, StepLeaves
    <2>2. CASE HandsOut(r)
      <3>1. proc'[r].pc = "idle" /\ \A j \in Jtis : stage[j] = "held" => stage'[j] = "held"
        BY <1>0, <2>2, HandOutEffect, NoRequestTyped DEF TypeOK
      <3>. QED
        BY <1>1, <2>1, <3>1
    <2>3. CASE Wipe(r) \/ Forget(r)
      <3>1. Answer(r) /\ proc[r].new = NoJti
        BY <2>3 DEF Wipe, Forget, MadeBy, LoginPhases
      <3>2. proc'[r].pc = "idle" /\ stage' = stage
        BY <1>0, <3>1, AnswerEffect, AnswerHolds
      <3>. QED
        BY <1>1, <2>1, <3>2
    <2>4. CASE \E j \in Jtis : Rotate(r, j)
      <3>1. proc'[r].pc = "drop" /\ \A j \in Jtis : stage[j] = "held" => stage'[j] = "held"
        BY <1>0, <2>4, RotationRead DEF Rotate, TypeOK
      <3>. QED
        BY <1>1, <2>1, <3>1
    <2>5. CASE Lookup(r) \/ CheckUser(r)
      <3>1. /\ proc[r].pc \in {"lookup", "status"} /\ proc'[r].jti = proc[r].jti
            /\ stage' = stage
        BY <1>0, <2>5, MoveKeeps DEF Lookup, CheckUser, SameRequest
      <3>. QED
        BY <1>1, <2>1, <3>1 DEF Presents
    <2>6. CASE \/ Store(r) \/ ReadSessions(r) \/ WriteSessions(r) \/ ReadForLimit(r)
               \/ Evict(r) \/ EvictNext(r) \/ Trim(r) \/ Drop(r) \/ ReadAll(r)
      <3>1. stage' = stage
        BY <2>6, CarriedOn
      <3>2. proc'[r].pc \notin {"lookup", "status", "rotate"}
        BY <1>0, <2>6, MoveKeeps, ReadKeeps, LimitRead, NextEvicted
        DEF Store, ReadSessions, WriteSessions, Evict, Trim, Drop, ReadAll
      <3>. QED
        BY <1>1, <2>1, <3>1, <3>2
    <2>. QED
      BY <1>3, <2>2, <2>3, <2>4, <2>5, <2>6 DEF Proceed, HandsOut
  <1>4. CASE (\E j \in Jtis : ExpireToken(j)) \/ Crash
    BY <1>4, NoRequestTyped DEF ExpireToken, Crash, Idle, Presents
  <1>5. CASE ExpireList \/ ExpireLock \/ UNCHANGED vars
    BY <1>5 DEF ExpireList, ExpireLock, vars, Presents
  <1>. QED
    BY <1>2, <1>3, <1>4, <1>5 DEF Next

\* What was rotated stays out of the store, for all that overlaps.
LEMMA RotatesAsPresented ==
  ASSUME ~Faults, TypeOK, Retired, Presents, NEW r \in Requests, NEW j \in Jtis, Rotate(r, j)
  PROVE  LET i == proc[r].jti IN
         /\ i \in Jtis /\ i # j /\ stage[j] = "fresh" /\ rotatedFrom[j] = NoJti
         /\ rotatedFrom' = [rotatedFrom EXCEPT ![j] = i]
         /\ stage' = [stage EXCEPT ![j] = "made"]
         /\ Retired'
  <1> DEFINE i == proc[r].jti
  <1>1. /\ proc[r].pc = "rotate" /\ i \in Jtis /\ stage[i] = "held" /\ stage[j] = "fresh"
        /\ rotatedFrom' = [rotatedFrom EXCEPT ![j] = i]
        /\ stage' = [stage EXCEPT ![j] = "made"]
        /\ tokens' = (tokens \ {i}) \cup {j}
    BY NoFaults DEF Rotate, Presents
  <1>2. /\ i # j /\ rotatedFrom[j] = NoJti
        /\ \A k \in Jtis : rotatedFrom[k] # NoJti => rotatedFrom[k] \in Jtis \ {j}
    BY <1>1 DEF Retired, TypeOK
  <1>3. ASSUME NEW k \in Jtis, stage'[k] = "fresh"
        PROVE  k \notin tokens' /\ rotatedFrom'[k] = NoJti
    <2>1. k # j /\ stage[k] = "fresh"
      BY <1>1, <1>3 DEF TypeOK
    <2>. QED
      BY <1>1, <2>1 DEF Retired, TypeOK
  <1>4. ASSUME NEW k \in Jtis, rotatedFrom'[k] # NoJti
        PROVE  rotatedFrom'[k] \notin tokens' /\ stage'[rotatedFrom'[k]] \in {"held", "expired"}
    <2>1. CASE k = j
      BY <1>1, <1>2, <2>1 DEF TypeOK
    <2>2. CASE k # j
      <3>1. rotatedFrom'[k] = rotatedFrom[k]
        BY <1>1, <2>2 DEF TypeOK
      <3>. QED
        BY <1>1, <1>2, <1>4, <3>1 DEF Retired, TypeOK
    <2>. QED
      BY <2>1, <2>2
  <1>5. Retired'
    BY <1>3, <1>4 DEF Retired
  <1>. QED
    BY <1>1, <1>2, <1>5

LEMMA RetiredStep ==
  ASSUME ~Faults, SessionsInv, MadeBy, Retired, Presents, [Next]_vars
  PROVE  Retired'
  <1>0. TypeOK /\ \A k \in Jtis : rotatedFrom[k] # NoJti => rotatedFrom[k] \in Jtis
    BY DEF SessionsInv, TypeOK
  <1>1. CASE \E r \in Requests, j \in Jtis : Rotate(r, j)
    BY <1>0, <1>1, RotatesAsPresented
  <1>2. ASSUME Quiet, rotatedFrom' = rotatedFrom PROVE Retired'
    BY <1>0, <1>2 DEF Quiet, Retired, TypeOK
  <1>3. ASSUME NEW r \in Requests, HandsOut(r) PROVE Retired'
    BY <1>0, <1>3, HandOutEffect DEF Retired, TypeOK
  <1>4. rotatedFrom' = rotatedFrom \/ \E r \in Requests, j \in Jtis : Rotate(r, j)
    BY LostAnswer
    DEF Next, Start, Acquire, StartRefresh, Logout, StartLogoutAll,
        Proceed, Store, ReadSessions, WriteSessions, ReadForLimit, Evict, EvictNext, Trim, Unlock,
        Lookup, CheckUser, Drop, Add, ReadAll, Wipe, Forget,
        ExpireToken, ExpireList, ExpireLock, Crash, vars
  <1>. QED
    BY <1>1, <1>2, <1>3, <1>4, StepKinds

\* A token that was made before is never carried by a request that did not
\* carry it.
LEMMA CarrierKept ==
  ASSUME SessionsInv, MadeBy, [Next]_vars, NEW j \in Jtis, stage[j] # "fresh",
         NEW x \in Requests, proc'[x].new = j
  PROVE  proc[x].new = j
  <1>0. TypeOK /\ NoJti \notin Jtis /\ NoRequest.new = NoJti
    BY SessionsAssumption DEF SessionsInv, TypeOK, NoRequest
  <1>1. ASSUME NEW r \in Requests, NEW k \in Jtis,
               Rotate(r, k) \/ \E op \in Logins : Acquire(r, op, k)
        PROVE  proc[x].new = j
    BY <1>1, TokenMade
  <1>2. ASSUME NEW r \in Requests, Start(r) PROVE proc[x].new = j
    <2>1. CASE \E op \in Logins : AcquireLost(r, op)
      BY <2>1, LostAnswer
    <2>. QED
      BY <1>0, <1>1, <1>2, <2>1, NothingCarried DEF Start
  <1>3. ASSUME NEW r \in Requests, Proceed(r) PROVE proc[x].new = j
    <2>1. Unlock(r) \/ Add(r) \/ Wipe(r) \/ Forget(r) => Answer(r)
      BY DEF Unlock, Add, Wipe, Forget
    <2>. QED
      BY <1>0, <1>1, <1>3, <2>1, CarriedOn, AnswerEnds DEF Proceed
  <1>4. CASE Crash
    BY <1>0, <1>4 DEF Crash
  <1>5. CASE (\E k \in Jtis : ExpireToken(k)) \/ ExpireList \/ ExpireLock \/ UNCHANGED vars
    BY <1>5 DEF ExpireToken, ExpireList, ExpireLock, vars
  <1>. QED
    BY <1>2, <1>3, <1>4, <1>5 DEF Next

LEMMA NeverCleanKept ==
  ASSUME SessionsInv, MadeBy, MadeBy', Next, RememberShared, RememberClean,
         NEW j \in Jtis, stage[j] # "fresh", NeverClean(j)
  PROVE  NeverClean(j)'
  <1>1. j \notin clean'
    <2>1. CASE Quiet
      BY <2>1, CleanStep DEF NeverClean
    <2>2. ASSUME NEW r \in Requests, HandsOut(r) PROVE j \notin clean'
      BY <2>2, CleanStep DEF NeverClean
    <2>. QED
      BY <2>1, <2>2, StepKinds
  <1>2. ASSUME NEW x \in Requests, proc'[x].new = j PROVE x \in shared'
    <2>1. x \in shared
      BY <1>2, CarrierKept DEF NeverClean
    <2>2. ~Idle(x)'
      BY <1>2, SessionsAssumption DEF MadeBy, Idle, LoginPhases
    <2>. QED
      BY <2>1, <2>2, SharedStep
  <1>. QED
    BY <1>1, <1>2 DEF NeverClean

\* The requests that found their token before this step, or in it.
LEMMA Finds ==
  ASSUME ~Faults, SessionsInv, Next, NEW x \in Requests, proc'[x].pc \in {"status", "rotate"}
  PROVE  \/ /\ proc[x].pc \in {"status", "rotate"} /\ proc'[x].jti = proc[x].jti
            /\ ~\E j \in Jtis : Rotate(x, j)
         \/ /\ Lookup(x) /\ proc'[x].jti = proc[x].jti /\ proc[x].jti \in tokens
  <1>0. TypeOK
    BY DEF SessionsInv
  <1>1. ASSUME NEW r \in Requests, Start(r)
        PROVE  /\ proc[x].pc \in {"status", "rotate"} /\ proc'[x].jti = proc[x].jti
               /\ ~\E j \in Jtis : Rotate(x, j)
    <2>1. x # r /\ proc'[x] = proc[x]
      BY <1>1, StartEffect
    <2>2. proc[x].pc \in {"status", "rotate"}
      BY <2>1
    <2>. QED
      BY <1>0, <2>1, <2>2, RotationRead
  <1>2. ASSUME NEW r \in Requests, Proceed(r), x # r
        PROVE  /\ proc[x].pc \in {"status", "rotate"} /\ proc'[x].jti = proc[x].jti
               /\ ~\E j \in Jtis : Rotate(x, j)
    <2>1. proc'[x] = proc[x]
      BY <1>2, StepLeaves
    <2>. QED
      BY <1>0, <2>1, RotationRead
  <1>3. CASE Proceed(x)
    <2>1. CASE Lookup(x)
      <3>1. proc'[x].jti = proc[x].jti
        BY <1>0, <2>1, MoveKeeps DEF Lookup, SameRequest
      <3>2. proc[x].jti \in tokens
        BY <1>0, <2>1, MoveKeeps DEF Lookup
      <3>. QED
        BY <2>1, <3>1, <3>2
    <2>2. CASE CheckUser(x)
      BY <1>0, <2>2, MoveKeeps DEF CheckUser, SameRequest, Rotate
    <2>3. CASE ~Lookup(x) /\ ~CheckUser(x)
      <3>1. \/ Store(x) \/ ReadSessions(x) \/ WriteSessions(x) \/ ReadForLimit(x)
            \/ Evict(x) \/ EvictNext(x) \/ Trim(x) \/ Drop(x) \/ ReadAll(x)
            \/ (\E j \in Jtis : Rotate(x, j))
            \/ Unlock(x) \/ Add(x) \/ Wipe(x) \/ Forget(x)
        BY <1>3, <2>3 DEF Proceed
      <3>2. Unlock(x) \/ Add(x) \/ Wipe(x) \/ Forget(x) => Answer(x)
        BY DEF Unlock, Add, Wipe, Forget
      <3>3. proc'[x].pc \notin {"status", "rotate"}
        BY <1>0, <3>1, <3>2, MoveKeeps, ReadKeeps, LimitRead, NextEvicted, RotationRead,
           AnswerEnds, NoRequestTyped
        DEF Store, ReadSessions, WriteSessions, Evict, Trim, Drop, ReadAll
      <3>. QED
        BY <3>3
    <2>. QED
      BY <2>1, <2>2, <2>3
  <1>4. CASE (\E k \in Jtis : ExpireToken(k)) \/ ExpireList \/ ExpireLock
    <2>1. proc' = proc
      BY <1>4 DEF ExpireToken, ExpireList, ExpireLock
    <2>. QED
      BY <1>0, <2>1, RotationRead
  <1>5. CASE Crash
    BY <1>5, NoRequestTyped DEF Crash
  <1>. QED
    BY <1>1, <1>2, <1>3, <1>4, <1>5 DEF Next

LEMMA ExchangesStep ==
  ASSUME ~Faults, ExchangeInv, OverlapNext, MadeBy'
  PROVE  Exchanges'
  <1>0. /\ SessionsInv /\ TypeOK /\ MadeBy /\ Alone /\ CleanWereHeld /\ Retired /\ Presents
        /\ Exchanges /\ Next /\ RememberShared /\ RememberClean
        /\ NoJti \notin Jtis
    BY SessionsAssumption DEF ExchangeInv, OverlapInv, SessionsInv, OverlapNext
  <1>1. ASSUME NEW j \in Jtis, rotatedFrom[j] # NoJti, NeverClean(j) PROVE NeverClean(j)'
    BY <1>0, <1>1, NeverCleanKept DEF Retired
  <1>2. CASE \A r \in Requests, j \in Jtis : ~Rotate(r, j)
    <2>1. rotatedFrom' = rotatedFrom
      BY <1>0, <1>2, LostAnswer
      DEF Next, Start, Acquire, StartRefresh, Logout, StartLogoutAll,
          Proceed, Store, ReadSessions, WriteSessions, ReadForLimit, Evict, EvictNext, Trim,
          Unlock, Lookup, CheckUser, Drop, Add, ReadAll, Wipe, Forget,
          ExpireToken, ExpireList, ExpireLock, Crash
    <2>2. ASSUME NEW r \in Requests, NEW k \in Jtis,
                 proc'[r].pc \in {"status", "rotate"}, rotatedFrom'[k] = proc'[r].jti
          PROVE  r \in shared' /\ NeverClean(k)'
      <3>1. /\ proc[r].pc \in {"lookup", "status", "rotate"} /\ rotatedFrom[k] = proc[r].jti
            /\ proc[r].pc \in {"status", "rotate"} \/ proc[r].jti \in tokens
        BY <1>0, <2>1, <2>2, Finds DEF Lookup
      <3>2. rotatedFrom[k] # NoJti
        BY <1>0, <3>1 DEF Presents
      <3>3. proc[r].pc \in {"status", "rotate"}
        BY <1>0, <3>1, <3>2 DEF Retired
      <3>4. r \in shared /\ NeverClean(k)
        BY <1>0, <3>1, <3>3 DEF Exchanges
      <3>5. ~Idle(r)'
        BY <2>2 DEF Idle
      <3>. QED
        BY <1>0, <1>1, <3>2, <3>4, <3>5, SharedStep
    <2>3. ASSUME NEW j \in Jtis, NEW k \in Jtis, j # k, rotatedFrom'[j] = rotatedFrom'[k],
                 rotatedFrom'[j] # NoJti
          PROVE  NeverClean(j)'
      BY <1>0, <1>1, <2>1, <2>3 DEF Exchanges
    <2>. QED
      BY <2>2, <2>3 DEF Exchanges
  <1>3. ASSUME NEW r \in Requests, NEW j \in Jtis, Rotate(r, j) PROVE Exchanges'
    <2> DEFINE i == proc[r].jti
    <2>1. /\ i \in Jtis /\ i # j /\ stage[j] = "fresh" /\ rotatedFrom[j] = NoJti
          /\ rotatedFrom' = [rotatedFrom EXCEPT ![j] = i]
          /\ stage' = [stage EXCEPT ![j] = "made"]
      BY <1>0, <1>3, RotatesAsPresented
    <2>2. /\ proc[r].pc = "rotate" /\ proc'[r].pc = "drop" /\ proc'[r].new = j
          /\ \A x \in Requests : x # r => proc'[x] = proc[x]
      BY <1>0, <1>3, RotationRead DEF Rotate
    <2>3. rotatedFrom'[j] = i /\ \A k \in Jtis : k # j => rotatedFrom'[k] = rotatedFrom[k]
      BY <1>0, <2>1 DEF TypeOK
    <2>. HIDE DEF i
    <2>4. ASSUME r \in shared PROVE NeverClean(j)'
      <3>1. Quiet
        BY <1>0, <1>3, TokenMade, QuietMakes
      <3>2. clean' = clean /\ j \notin clean
        BY <1>0, <2>1, <3>1, CleanStep DEF CleanWereHeld
      <3>3. r \in shared'
        BY <1>0, <2>2, <2>4, SharedStep DEF Idle
      <3>4. ASSUME NEW x \in Requests, proc'[x].new = j PROVE x = r
        BY <2>2, <3>4 DEF MadeBy
      <3>. QED
        BY <3>2, <3>3, <3>4 DEF NeverClean
    <2>5. ASSUME NEW k \in Jtis, k # j, rotatedFrom[k] = i
          PROVE  r \in shared /\ NeverClean(k)
      BY <1>0, <2>2, <2>5 DEF Exchanges, i
    <2>6. ASSUME NEW a \in Jtis, NEW b \in Jtis, a # b, rotatedFrom'[a] = rotatedFrom'[b],
                 rotatedFrom'[a] # NoJti
          PROVE  NeverClean(a)'
      <3>1. CASE a = j
        BY <2>3, <2>4, <2>5, <2>6, <3>1
      <3>2. CASE b = j
        BY <1>1, <2>3, <2>5, <2>6, <3>2
      <3>3. CASE a # j /\ b # j
        BY <1>0, <1>1, <2>3, <2>6, <3>3 DEF Exchanges
      <3>. QED
        BY <3>1, <3>2, <3>3
    <2>7. ASSUME NEW x \in Requests, NEW k \in Jtis,
                 proc'[x].pc \in {"status", "rotate"}, rotatedFrom'[k] = proc'[x].jti
          PROVE  x \in shared' /\ NeverClean(k)'
      <3>1. x # r /\ proc'[x] = proc[x] /\ proc[x].jti \in Jtis
        BY <1>0, <2>2, <2>7 DEF Presents
      <3>2. x \in shared /\ r \in shared
        BY <1>0, <2>2, <2>7, <3>1 DEF Alone, InFlight, Idle
      <3>3. x \in shared'
        BY <1>0, <2>7, <3>2, SharedStep DEF Idle
      <3>4. CASE k = j
        BY <2>4, <3>2, <3>3, <3>4
      <3>5. CASE k # j
        BY <1>0, <1>1, <2>3, <2>7, <3>1, <3>3, <3>5 DEF Exchanges
      <3>. QED
        BY <3>4, <3>5
    <2>. QED
      BY <2>6, <2>7 DEF Exchanges
  <1>. QED
    BY <1>2, <1>3

\* Without Redis failures, a token is exchanged for two others only by
\* requests that overlapped, each of which knows it did.
THEOREM TokensRotateOnce ==
  ASSUME ~Faults
  PROVE  OverlapSpec => []RotatedOnce
  <1>1. OverlapInit => ExchangeInv
    <2>1. OverlapInit => Retired /\ Presents /\ Exchanges
      BY NoRequestTyped DEF OverlapInit, Init, Retired, Presents, Exchanges
    <2>. QED
      BY <2>1, OverlapStart DEF ExchangeInv
  <1>2. ExchangeInv /\ [OverlapNext]_<<vars, histories>> => ExchangeInv'
    <2> SUFFICES ASSUME ExchangeInv, [OverlapNext]_<<vars, histories>> PROVE ExchangeInv'
      OBVIOUS
    <2>1. OverlapInv' /\ MadeBy'
      BY OverlapStep DEF ExchangeInv, OverlapInv
    <2>2. [Next]_vars
      BY DEF OverlapNext, vars, histories
    <2>3. Retired' /\ Presents'
      BY <2>2, RetiredStep, PresentsStep DEF ExchangeInv, OverlapInv
    <2>4. Exchanges'
      <3>1. CASE OverlapNext
        BY <2>1, <3>1, ExchangesStep
      <3>2. CASE UNCHANGED <<vars, histories>>
        BY <3>2 DEF vars, histories, ExchangeInv, Exchanges, NeverClean
      <3>. QED
        BY <3>1, <3>2
    <2>. QED
      BY <2>1, <2>3, <2>4 DEF ExchangeInv
  <1>3. ExchangeInv => RotatedOnce
    BY DEF ExchangeInv, Exchanges, NeverClean, RotatedOnce
  <1>. QED
    BY <1>1, <1>2, <1>3, PTL DEF OverlapSpec
=============================================================================
