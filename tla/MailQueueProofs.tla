--------------------------- MODULE MailQueueProofs ---------------------------
(***************************************************************************)
(* Proofs about MailQueue, for every set of mails and workers, every       *)
(* number of attempts, and with all faults and crashes.                    *)
(***************************************************************************)
EXTENDS MailQueue, TLAPS

(* What the ways an attempt goes on do to the types. *)

LEMMA CountType ==
  ASSUME NEW f \in [Mails -> Nat], NEW m
  PROVE  [f EXCEPT ![m] = @ + 1] \in [Mails -> Nat]
<1>1. CASE m \in Mails
  BY <1>1
<1>2. CASE m \notin Mails
  BY <1>2
<1>3. QED BY <1>1, <1>2

LEMMA ContinueType ==
  ASSUME TypeOK, NEW w \in Workers,
         NEW pc \in {"idle", "send", "markSent", "markFailed"}, Continue(w, pc)
  PROVE  worker' \in [Workers -> [pc : {"idle", "send", "markSent", "markFailed"},
                                  mail : Mails \cup {NoMail}]]
<1>1. [worker[w] EXCEPT !.pc = pc] \in
        [pc : {"idle", "send", "markSent", "markFailed"}, mail : Mails \cup {NoMail}]
  BY DEF TypeOK
<1>2. QED BY <1>1 DEF TypeOK, Continue

LEMMA EndType ==
  ASSUME TypeOK, NEW w \in Workers, NEW m, Complete(w, m) \/ Throw(w, m)
  PROVE  /\ worker' \in [Workers -> [pc : {"idle", "send", "markSent", "markFailed"},
                                     mail : Mails \cup {NoMail}]]
         /\ job' \in [Mails -> {"none", "waiting", "active", "completed", "failed"}]
         /\ tries' \in [Mails -> Nat]
         /\ stalls' = stalls
<1>1. CASE Complete(w, m)
  BY <1>1 DEF TypeOK, Complete, Rest
<1>2. CASE Throw(w, m)
  <2>1. tries' \in [Mails -> Nat]
    BY <1>2, CountType DEF TypeOK, Throw
  <2>2. QED BY <1>2, <2>1 DEF TypeOK, Throw, Rest
<1>3. QED BY <1>1, <1>2

(* Type correctness. *)

LEMMA TypeInit == Init => TypeOK
BY DEF Init, TypeOK, Rest

LEMMA TypeStep == TypeOK /\ [Next]_vars => TypeOK'
<1> SUFFICES ASSUME TypeOK, [Next]_vars PROVE TypeOK'
  OBVIOUS
<1> USE DEF TypeOK, asked, queue
<1>1. ASSUME NEW m \in Mails, Record(m) PROVE TypeOK'
  BY <1>1 DEF Record
<1>2. ASSUME NEW m \in Mails, AddJob(m) PROVE TypeOK'
  BY <1>2 DEF AddJob
<1>3. ASSUME NEW m \in Mails, AddFails(m) PROVE TypeOK'
  BY <1>3 DEF AddFails
<1>4. ASSUME NEW m \in Mails, MarkUnqueued(m) PROVE TypeOK'
  BY <1>4 DEF MarkUnqueued
<1>5. ASSUME NEW w \in Workers, NEW m \in Mails, Take(w, m) PROVE TypeOK'
  BY <1>5 DEF Take
<1>6. ASSUME NEW w \in Workers, Send(w) PROVE TypeOK'
  <2>1. mailed' \in [Mails -> Nat]
    BY <1>6, CountType DEF Send
  <2>2. CASE Continue(w, "markSent")
    BY <1>6, <2>1, <2>2, ContinueType DEF Send, Continue
  <2>3. CASE Complete(w, worker[w].mail)
    BY <1>6, <2>1, <2>3, EndType DEF Send
  <2>4. QED BY <1>6, <2>2, <2>3 DEF Send
<1>7. ASSUME NEW w \in Workers, SendFails(w) PROVE TypeOK'
  <2>1. CASE Continue(w, "markFailed")
    BY <1>7, <2>1, ContinueType DEF SendFails, Continue
  <2>2. CASE Complete(w, worker[w].mail) \/ Throw(w, worker[w].mail)
    BY <1>7, <2>2, EndType DEF SendFails
  <2>3. QED BY <1>7, <2>1, <2>2 DEF SendFails
<1>8. ASSUME NEW w \in Workers, MarkSent(w) PROVE TypeOK'
  BY <1>8, EndType DEF MarkSent, MarkPending
<1>9. ASSUME NEW w \in Workers, MarkSentFails(w) PROVE TypeOK'
  BY <1>9, ContinueType DEF MarkSentFails, Continue
<1>10. ASSUME NEW w \in Workers, MarkFailed(w) PROVE TypeOK'
  BY <1>10, EndType DEF MarkFailed, MarkPending
<1>11. CASE Crash
  BY <1>11 DEF Crash, Rest
<1>12. ASSUME NEW m \in Mails, Recover(m) PROVE TypeOK'
  BY <1>12 DEF Recover
<1>13. CASE UNCHANGED vars
  BY <1>13 DEF vars
<1>14. QED
  BY <1>1, <1>2, <1>3, <1>4, <1>5, <1>6, <1>7, <1>8, <1>9, <1>10, <1>11, <1>12, <1>13
  DEF Next, Work

\* Type correctness of every reachable state: handlers, processor and BullMQ
\* keep rows, jobs, counters and workers well-formed.
THEOREM Typing == Spec => []TypeOK
<1>1. QED BY TypeInit, TypeStep, PTL DEF Spec

----------------------------------------------------------------------------
(* Handlers, jobs and workers. *)

LEMMA JobInit == Init => JobInv /\ WorkerInv
BY DEF Init, JobInv, WorkerInv, Rest

\* Only the handler and the worker of a message touch its job.
LEMMA JobStep == TypeOK /\ JobInv /\ WorkerInv /\ [Next]_vars => JobInv'
<1> SUFFICES ASSUME TypeOK, JobInv, WorkerInv, [Next]_vars PROVE JobInv'
  OBVIOUS
<1> USE DEF TypeOK, JobInv, asked, queue
<1>1. ASSUME NEW m \in Mails, Record(m) PROVE JobInv'
  BY <1>1 DEF Record
<1>2. ASSUME NEW m \in Mails, AddJob(m) PROVE JobInv'
  BY <1>2 DEF AddJob, Adding
<1>3. ASSUME NEW m \in Mails, AddFails(m) PROVE JobInv'
  BY <1>3 DEF AddFails, Adding
<1>4. ASSUME NEW m \in Mails, MarkUnqueued(m) PROVE JobInv'
  BY <1>4 DEF MarkUnqueued
<1>5. ASSUME NEW w \in Workers, NEW m \in Mails, Take(w, m) PROVE JobInv'
  BY <1>5 DEF Take
<1>6. ASSUME NEW w \in Workers, Send(w) PROVE JobInv'
  BY <1>6 DEF Send, Continue, Complete, WorkerInv
<1>7. ASSUME NEW w \in Workers, SendFails(w) PROVE JobInv'
  BY <1>7 DEF SendFails, Continue, Complete, Throw, WorkerInv
<1>8. ASSUME NEW w \in Workers, MarkSent(w) PROVE JobInv'
  BY <1>8 DEF MarkSent, MarkPending, Complete, WorkerInv
<1>9. ASSUME NEW w \in Workers, MarkSentFails(w) PROVE JobInv'
  BY <1>9 DEF MarkSentFails, Continue
<1>10. ASSUME NEW w \in Workers, MarkFailed(w) PROVE JobInv'
  BY <1>10 DEF MarkFailed, MarkPending, Throw, WorkerInv
<1>11. CASE Crash
  BY <1>11 DEF Crash
<1>12. ASSUME NEW m \in Mails, Recover(m) PROVE JobInv'
  BY <1>12 DEF Recover
<1>13. CASE UNCHANGED vars
  BY <1>13 DEF vars
<1>14. QED
  BY <1>1, <1>2, <1>3, <1>4, <1>5, <1>6, <1>7, <1>8, <1>9, <1>10, <1>11, <1>12, <1>13
  DEF Next, Work

\* A worker owns its message from Take until it completes, throws or crashes.
LEMMA WorkerStep == TypeOK /\ JobInv /\ WorkerInv /\ [Next]_vars => WorkerInv'
<1> SUFFICES ASSUME TypeOK, JobInv, WorkerInv, [Next]_vars PROVE WorkerInv'
  OBVIOUS
<1> USE MailQueueAssumption DEF TypeOK, WorkerInv, asked, queue
<1>1. ASSUME NEW m \in Mails, Record(m) PROVE WorkerInv'
  BY <1>1 DEF Record
<1>2. ASSUME NEW m \in Mails, AddJob(m) PROVE WorkerInv'
  <2>1. job[m] = "none"
    BY <1>2 DEF AddJob, Adding, JobInv
  <2>2. QED BY <1>2, <2>1 DEF AddJob
<1>3. ASSUME NEW m \in Mails, AddFails(m) PROVE WorkerInv'
  <2>1. job[m] = "none"
    BY <1>3 DEF AddFails, Adding, JobInv
  <2>2. QED BY <1>3, <2>1 DEF AddFails
<1>4. ASSUME NEW m \in Mails, MarkUnqueued(m) PROVE WorkerInv'
  BY <1>4 DEF MarkUnqueued
<1>5. ASSUME NEW w \in Workers, NEW m \in Mails, Take(w, m) PROVE WorkerInv'
  BY <1>5 DEF Take
<1>6. ASSUME NEW w \in Workers, Send(w) PROVE WorkerInv'
  <2>1. CASE worker[w].mail \in Recorded
    <3>1. PICK m \in Mails : m = worker[w].mail
      BY <2>1
    <3>2. /\ worker' = [worker EXCEPT ![w] = [@ EXCEPT !.pc = "markSent"]]
          /\ job' = job
          /\ mailed'[m] > 0
          /\ \A x \in Mails : mailed[x] > 0 => mailed'[x] > 0
      BY <1>6, <2>1, <3>1 DEF Send, Continue
    <3>3. /\ \A v \in Workers : worker'[v].mail = worker[v].mail
          /\ worker[w].pc = "send" /\ worker'[w].pc = "markSent"
          /\ \A v \in Workers \ {w} : worker'[v] = worker[v]
      BY <1>6, <3>2 DEF Send
    <3>4. \A v \in Workers :
            /\ worker'[v].pc = "idle" <=> worker'[v].mail = NoMail
            /\ worker'[v].pc # "idle" => job'[worker'[v].mail] = "active"
      BY <3>1, <3>2, <3>3, <1>6
    <3>5. \A v \in Workers : \A u \in Workers :
            worker'[u].mail = worker'[v].mail /\ worker'[v].mail # NoMail => u = v
      BY <3>3
    <3>6. \A v \in Workers :
            /\ worker'[v].pc \in {"markSent", "markFailed"} => worker'[v].mail \in Recorded
            /\ worker'[v].pc = "markSent" => mailed'[worker'[v].mail] > 0
      BY <2>1, <3>1, <3>2, <3>3
    <3>7. QED BY <3>4, <3>5, <3>6
  <2>2. CASE worker[w].mail \notin Recorded
    BY <1>6, <2>2 DEF Send, Complete, Rest
  <2>3. QED BY <2>1, <2>2
<1>7. ASSUME NEW w \in Workers, SendFails(w) PROVE WorkerInv'
  <2>1. CASE worker[w].mail \in Recorded /\ Continue(w, "markFailed")
    BY <1>7, <2>1 DEF SendFails, Continue
  <2>2. CASE Complete(w, worker[w].mail)
    BY <1>7, <2>2 DEF SendFails, Complete, Rest
  <2>3. CASE Throw(w, worker[w].mail)
    BY <1>7, <2>3 DEF SendFails, Throw, Rest
  <2>4. QED BY <1>7, <2>1, <2>2, <2>3 DEF SendFails
<1>8. ASSUME NEW w \in Workers, MarkSent(w) PROVE WorkerInv'
  BY <1>8 DEF MarkSent, Complete, Rest
<1>9. ASSUME NEW w \in Workers, MarkSentFails(w) PROVE WorkerInv'
  BY <1>9 DEF MarkSentFails, Continue
<1>10. ASSUME NEW w \in Workers, MarkFailed(w) PROVE WorkerInv'
  BY <1>10 DEF MarkFailed, Throw, Rest
<1>11. CASE Crash
  BY <1>11 DEF Crash, Rest
<1>12. ASSUME NEW m \in Mails, Recover(m) PROVE WorkerInv'
  BY <1>12 DEF Recover
<1>13. CASE UNCHANGED vars
  BY <1>13 DEF vars
<1>14. QED
  BY <1>1, <1>2, <1>3, <1>4, <1>5, <1>6, <1>7, <1>8, <1>9, <1>10, <1>11, <1>12, <1>13
  DEF Next, Work

----------------------------------------------------------------------------
(* What completed jobs and the history say. *)

Base == TypeOK /\ JobInv /\ WorkerInv

LEMMA BaseInit == Init => Base
BY TypeInit, JobInit DEF Base

LEMMA BaseStep == Base /\ [Next]_vars => Base'
BY TypeStep, JobStep, WorkerStep DEF Base

\* Rows and counters only move forward.
Forward ==
  /\ \A m \in Mails : row[m] \in {"sent", "failed"} => row'[m] = row[m]
  /\ \A m \in Mails : mailed[m] > 0 => mailed'[m] > 0

LEMMA MarkForward ==
  ASSUME TypeOK, NEW outcome, MarkPending(outcome)
  PROVE  \A m \in Mails : row[m] \in {"sent", "failed"} => row'[m] = row[m]
BY DEF TypeOK, MarkPending

LEMMA ForwardStep == Base /\ [Next]_vars => Forward
<1> SUFFICES ASSUME Base, [Next]_vars PROVE Forward
  OBVIOUS
<1> USE DEF Base, TypeOK, Forward, asked
<1>1. ASSUME NEW m \in Mails, Record(m) PROVE Forward
  <2>1. row' = [row EXCEPT ![m] = "pending"] /\ mailed' = mailed
    BY <1>1 DEF Record
  <2>2. row[m] \notin {"sent", "failed"}
    BY <1>1 DEF Record, JobInv
  <2>3. QED BY <2>1, <2>2
<1>2. ASSUME NEW m \in Mails, AddJob(m) PROVE Forward
  BY <1>2 DEF AddJob
<1>3. ASSUME NEW m \in Mails, AddFails(m) PROVE Forward
  BY <1>3 DEF AddFails
<1>4. ASSUME NEW m \in Mails, MarkUnqueued(m) PROVE Forward
  BY <1>4 DEF MarkUnqueued
<1>5. ASSUME NEW w \in Workers, NEW m \in Mails, Take(w, m) PROVE Forward
  BY <1>5 DEF Take
<1>6. ASSUME NEW w \in Workers, Send(w) PROVE Forward
  <2>1. mailed' = [mailed EXCEPT ![worker[w].mail] = @ + 1] /\ row' = row
    BY <1>6 DEF Send
  <2>2. \A m \in Mails : mailed[m] > 0 => mailed'[m] > 0
    BY <2>1
  <2>3. QED BY <2>1, <2>2
<1>7. ASSUME NEW w \in Workers, SendFails(w) PROVE Forward
  BY <1>7 DEF SendFails
<1>8. ASSUME NEW w \in Workers, MarkSent(w) PROVE Forward
  BY <1>8, MarkForward DEF MarkSent
<1>9. ASSUME NEW w \in Workers, MarkSentFails(w) PROVE Forward
  BY <1>9 DEF MarkSentFails
<1>10. ASSUME NEW w \in Workers, MarkFailed(w) PROVE Forward
  BY <1>10, MarkForward DEF MarkFailed
<1>11. CASE Crash
  BY <1>11 DEF Crash
<1>12. ASSUME NEW m \in Mails, Recover(m) PROVE Forward
  BY <1>12 DEF Recover
<1>13. CASE UNCHANGED vars
  BY <1>13 DEF vars
<1>14. QED
  BY <1>1, <1>2, <1>3, <1>4, <1>5, <1>6, <1>7, <1>8, <1>9, <1>10, <1>11, <1>12, <1>13
  DEF Next, Work

\* Only these steps complete a job.
LEMMA EarnedStep == Base /\ CompletionIsEarned /\ [Next]_vars => CompletionIsEarned'
<1> SUFFICES ASSUME Base, CompletionIsEarned, [Next]_vars,
                    NEW x \in Mails, job'[x] = "completed"
             PROVE  /\ x \in Silent \/ mailed'[x] > 0
                    /\ x \in Recorded => row'[x] \in {"sent", "failed"}
  BY DEF CompletionIsEarned
<1>1. Forward
  BY ForwardStep
<1>2. CASE job[x] = "completed"
  BY <1>1, <1>2 DEF Forward, CompletionIsEarned
<1>3. CASE job[x] # "completed"
  <2> USE <1>3 DEF Base, TypeOK, asked, queue
  <2>1. ASSUME NEW m \in Mails,
               Record(m) \/ AddJob(m) \/ AddFails(m) \/ MarkUnqueued(m) \/ Recover(m)
        PROVE  FALSE
    BY <2>1 DEF Record, AddJob, AddFails, MarkUnqueued, Recover
  <2>2. ASSUME NEW w \in Workers, NEW m \in Mails, Take(w, m) PROVE FALSE
    BY <2>2 DEF Take
  <2>3. ASSUME NEW w \in Workers, Send(w)
        PROVE  x \notin Recorded /\ mailed'[x] > 0
    <3>1. worker[w].mail \notin Recorded /\ Complete(w, worker[w].mail)
      BY <2>3 DEF Send, Continue
    <3>2. worker[w].mail = x
      BY <3>1 DEF Complete
    <3>3. QED BY <2>3, <3>1, <3>2 DEF Send
  <2>4. ASSUME NEW w \in Workers, SendFails(w)
        PROVE  x \in Silent /\ x \notin Recorded
    <3>1. ~Continue(w, "markFailed") /\ ~Throw(w, worker[w].mail)
      BY DEF Continue, Throw
    <3>2. worker[w].mail \in Silent /\ Complete(w, worker[w].mail)
      BY <2>4, <3>1 DEF SendFails
    <3>3. worker[w].mail = x
      BY <3>2 DEF Complete
    <3>4. QED BY <3>2, <3>3, MailQueueAssumption
  <2>5. ASSUME NEW w \in Workers, MarkSent(w)
        PROVE  mailed'[x] > 0 /\ (x \in Recorded => row'[x] \in {"sent", "failed"})
    <3>1. worker[w].mail = x
      BY <2>5 DEF MarkSent, Complete
    <3>2. x \in Recorded /\ mailed[x] > 0 /\ job[x] = "active"
      BY <2>5, <3>1 DEF MarkSent, WorkerInv
    <3>3. row[x] # "none"
      BY <3>2 DEF JobInv
    <3>4. QED BY <2>5, <3>2, <3>3 DEF MarkSent, MarkPending
  <2>6. ASSUME NEW w \in Workers, MarkSentFails(w) PROVE FALSE
    BY <2>6 DEF MarkSentFails, Continue
  <2>7. ASSUME NEW w \in Workers, MarkFailed(w) PROVE FALSE
    BY <2>7 DEF MarkFailed, Throw
  <2>8. CASE Crash \/ UNCHANGED vars
    BY <2>8 DEF Crash, vars
  <2>9. QED
    BY <2>1, <2>2, <2>3, <2>4, <2>5, <2>6, <2>7, <2>8 DEF Next, Work
<1>4. QED BY <1>2, <1>3

\* "sent" is written by MarkSent only, after the send of a recorded mail.
LEMMA SentStep == Base /\ SentIsTrue /\ [Next]_vars => SentIsTrue'
<1> SUFFICES ASSUME Base, SentIsTrue, [Next]_vars, NEW x \in Mails, row'[x] = "sent"
             PROVE  \E m \in Recorded : mailed'[m] > 0
  BY DEF SentIsTrue
<1>1. CASE \E m \in Recorded : mailed[m] > 0
  BY <1>1, ForwardStep, MailQueueAssumption DEF Forward
<1>2. CASE row[x] = "sent"
  BY <1>1, <1>2 DEF SentIsTrue
<1>3. CASE row[x] # "sent"
  <2> USE <1>3 DEF Base, TypeOK, asked
  <2>1. ASSUME NEW m \in Mails,
               Record(m) \/ AddJob(m) \/ AddFails(m) \/ MarkUnqueued(m) \/ Recover(m)
        PROVE  FALSE
    BY <2>1 DEF Record, AddJob, AddFails, MarkUnqueued, Recover
  <2>2. ASSUME NEW w \in Workers, NEW m \in Mails, Take(w, m) PROVE FALSE
    BY <2>2 DEF Take
  <2>3. ASSUME NEW w \in Workers, Send(w) \/ SendFails(w) \/ MarkSentFails(w) PROVE FALSE
    BY <2>3 DEF Send, SendFails, MarkSentFails
  <2>4. ASSUME NEW w \in Workers, MarkFailed(w) PROVE FALSE
    BY <2>4 DEF MarkFailed, MarkPending
  <2>5. ASSUME NEW w \in Workers, MarkSent(w) PROVE \E m \in Recorded : mailed[m] > 0
    BY <2>5 DEF MarkSent, WorkerInv
  <2>6. CASE Crash \/ UNCHANGED vars
    BY <2>6 DEF Crash, vars
  <2>7. QED
    BY <2>1, <2>2, <2>3, <2>4, <2>5, <2>6, <1>1 DEF Next, Work
<1>4. QED BY <1>2, <1>3

\* However retries, failures, stalls and crashes come together, a completed
\* job was sent (or silent) and its row is decided.
THEOREM CompletionEarned == Spec => []CompletionIsEarned
<1>1. Init => CompletionIsEarned
  BY DEF Init, CompletionIsEarned
<1>2. QED BY <1>1, BaseInit, BaseStep, EarnedStep, PTL DEF Spec

\* No row says "sent" unless a recorded mail was sent.
THEOREM SentTruth == Spec => []SentIsTrue
<1>1. Init => SentIsTrue
  BY DEF Init, SentIsTrue
<1>2. QED BY <1>1, BaseInit, BaseStep, SentStep, PTL DEF Spec

\* No step of a handler or a processor overwrites an outcome.
THEOREM OutcomeKept == Spec => OutcomeIsFinal
<1>1. Base /\ [Next]_vars =>
        [\A m \in Mails : row[m] \in {"sent", "failed"} => row'[m] = row[m]]_row
  BY ForwardStep DEF Forward
<1>2. QED BY <1>1, BaseInit, BaseStep, PTL DEF Spec, OutcomeIsFinal

----------------------------------------------------------------------------
(* How often a message goes out. *)

\* AccountInv for one message.
Account(x) ==
  /\ mailed[x] <= Open(x) + stalls[x] + (IF x \in Recorded THEN tries[x] ELSE 0)
  /\ IF job[x] = "failed"
       THEN tries[x] + stalls[x] <= Attempts + MaxStalls
       ELSE tries[x] < Attempts /\ stalls[x] <= MaxStalls

LEMMA OpenRange == \A x \in Mails : Open(x) \in {0, 1}
BY DEF Open

\* A step that counts nothing and leaves the message at least as open as it was.
LEMMA AccountQuiet ==
  ASSUME TypeOK, NEW x \in Mails, Account(x),
         mailed'[x] = mailed[x], tries'[x] = tries[x], stalls'[x] = stalls[x],
         job[x] # "failed" => job'[x] # "failed",
         job[x] = "failed" => job'[x] = "failed",
         Open(x)' \in {0, 1}, Open(x)' >= Open(x)
  PROVE  Account(x)'
BY OpenRange DEF Account, TypeOK

\* A message no step is about: its worker, if it has one, stays where it is.
LEMMA AccountOther ==
  ASSUME Base, NEW x \in Mails, Account(x),
         mailed'[x] = mailed[x], tries'[x] = tries[x], stalls'[x] = stalls[x],
         job'[x] = job[x],
         \A w \in Workers : worker[w].mail = x \/ worker'[w].mail = x => worker'[w] = worker[w]
  PROVE  Account(x)'
<1>1. Sending(x)' <=> Sending(x)
  BY DEF Sending, Base, TypeOK
<1>2. Open(x)' = Open(x)
  BY <1>1 DEF Open
<1>3. QED BY <1>2, AccountQuiet, OpenRange DEF Base

\* An attempt that ends with Throw: its send, if any, becomes a failed attempt.
LEMMA AccountThrow ==
  ASSUME Base, NEW w \in Workers, NEW x \in Mails, x = worker[w].mail, Account(x),
         job[x] = "active", Throw(w, x), mailed'[x] = mailed[x],
         x \in Recorded \/ Open(x) = 0
  PROVE  Account(x)'
<1> USE DEF Base, TypeOK
<1>1. tries'[x] = tries[x] + 1 /\ stalls'[x] = stalls[x]
  BY DEF Throw
<1>2. job'[x] = IF tries[x] + 1 < Attempts THEN "waiting" ELSE "failed"
  BY DEF Throw
<1>3. Open(x)' = 0
  BY <1>2 DEF Open
<1>4. tries[x] < Attempts /\ stalls[x] <= MaxStalls
  BY DEF Account
<1>5. mailed[x] <= stalls[x] + (IF x \in Recorded THEN tries[x] + 1 ELSE 0)
  BY OpenRange DEF Account
<1>6. QED BY <1>1, <1>2, <1>3, <1>4, <1>5, MailQueueAssumption DEF Account

\* A worker's step is about the message it is busy with.
LEMMA AccountElse ==
  ASSUME Base, NEW w \in Workers, NEW x \in Mails, x # worker[w].mail, Account(x),
         mailed'[x] = mailed[x],
         \/ \E pc \in {"markSent", "markFailed"} : Continue(w, pc)
         \/ Complete(w, worker[w].mail) \/ Throw(w, worker[w].mail)
  PROVE  Account(x)'
<1> USE DEF Base, TypeOK, queue
<1>1. job'[x] = job[x] /\ tries'[x] = tries[x] /\ stalls'[x] = stalls[x]
  BY DEF Continue, Complete, Throw
<1>2. \A v \in Workers :
        worker[v].mail = x \/ worker'[v].mail = x => worker'[v] = worker[v]
  BY MailQueueAssumption DEF Continue, Complete, Throw, Rest
<1>3. QED BY <1>1, <1>2, AccountOther

LEMMA AccountStep == Base /\ AccountInv /\ [Next]_vars => AccountInv'
<1> SUFFICES ASSUME Base, AccountInv, [Next]_vars, NEW x \in Mails PROVE Account(x)'
  BY DEF AccountInv, Account
<1>0. Account(x)
  BY DEF AccountInv, Account
<1> USE DEF Base, TypeOK, asked, queue
<1>1. ASSUME NEW m \in Mails, Record(m) \/ MarkUnqueued(m) PROVE Account(x)'
  BY <1>0, <1>1, AccountOther DEF Record, MarkUnqueued
<1>2. ASSUME NEW m \in Mails, AddJob(m) \/ AddFails(m) PROVE Account(x)'
  <2>1. CASE job'[x] = job[x]
    BY <1>0, <1>2, <2>1, AccountOther DEF AddJob, AddFails
  <2>2. CASE job'[x] # job[x]
    <3>1. job[x] = "none" /\ job'[x] = "waiting"
      BY <1>2, <2>2 DEF AddJob, AddFails, Adding, JobInv
    <3>2. Open(x) = 0 /\ Open(x)' = 0
      BY <3>1 DEF Open
    <3>3. QED BY <1>0, <1>2, <3>1, <3>2, AccountQuiet DEF AddJob, AddFails
  <2>3. QED BY <2>1, <2>2
<1>3. ASSUME NEW w \in Workers, NEW m \in Mails, Take(w, m) PROVE Account(x)'
  <2>1. CASE x = m
    <3>1. job[x] = "waiting" /\ job'[x] = "active"
      BY <1>3, <2>1 DEF Take
    <3>2. Sending(x)'
      BY <1>3, <2>1 DEF Take, Sending
    <3>3. Open(x) = 0 /\ Open(x)' = 0
      BY <3>1, <3>2 DEF Open
    <3>4. QED BY <1>0, <1>3, <3>1, <3>3, AccountQuiet DEF Take
  <2>2. CASE x # m
    <3>1. worker[w].mail = NoMail /\ worker' = [worker EXCEPT ![w] = [pc |-> "send", mail |-> m]]
      BY <1>3 DEF Take, WorkerInv
    <3>2. \A v \in Workers :
            worker[v].mail = x \/ worker'[v].mail = x => worker'[v] = worker[v]
      BY <2>2, <3>1, MailQueueAssumption
    <3>3. QED BY <1>0, <1>3, <2>2, <3>2, AccountOther DEF Take
  <2>3. QED BY <2>1, <2>2
<1>4. ASSUME NEW w \in Workers, Send(w) PROVE Account(x)'
  <2>1. CASE x = worker[w].mail
    <3>1. job[x] = "active" /\ Sending(x)
      BY <1>4, <2>1 DEF Send, WorkerInv, Sending
    <3>2. Open(x) = 0
      BY <3>1 DEF Open
    <3>3. job'[x] \in {"active", "completed"} /\ tries' = tries /\ stalls' = stalls
      BY <1>4, <2>1, <3>1 DEF Send, Continue, Complete
    <3>4. \A v \in Workers : worker'[v] # [pc |-> "send", mail |-> x]
      <4>1. \A v \in Workers \ {w} : worker'[v] = worker[v] /\ worker[v].mail # x
        BY <1>4, <2>1 DEF Send, Continue, Complete, WorkerInv
      <4>2. worker'[w].pc # "send"
        BY <1>4 DEF Send, Continue, Complete, Rest
      <4>3. QED BY <4>1, <4>2
    <3>5. Open(x)' = 1
      BY <3>3, <3>4 DEF Open, Sending
    <3>6. mailed'[x] = mailed[x] + 1
      BY <1>4, <2>1 DEF Send
    <3>7. QED BY <1>0, <3>1, <3>2, <3>3, <3>5, <3>6 DEF Account
  <2>2. CASE x # worker[w].mail
    BY <1>0, <1>4, <2>2, AccountElse DEF Send
  <2>3. QED BY <2>1, <2>2
<1>5. ASSUME NEW w \in Workers, SendFails(w) PROVE Account(x)'
  <2>1. CASE x = worker[w].mail
    <3>1. job[x] = "active" /\ Sending(x) /\ mailed' = mailed
      BY <1>5, <2>1 DEF SendFails, WorkerInv, Sending
    <3>2. Open(x) = 0
      BY <3>1 DEF Open
    <3>3. CASE Continue(w, "markFailed") \/ Complete(w, x)
      <4>1. job'[x] \in {"active", "completed"} /\ tries' = tries /\ stalls' = stalls
        BY <2>1, <3>1, <3>3 DEF Continue, Complete
      <4>2. Open(x)' \in {0, 1}
        BY DEF Open
      <4>3. QED BY <1>0, <3>1, <3>2, <4>1, <4>2, AccountQuiet
    <3>4. CASE Throw(w, x)
      BY <1>0, <2>1, <3>1, <3>2, <3>4, AccountThrow
    <3>5. QED BY <1>5, <2>1, <3>3, <3>4 DEF SendFails
  <2>2. CASE x # worker[w].mail
    BY <1>0, <1>5, <2>2, AccountElse DEF SendFails
  <2>3. QED BY <2>1, <2>2
<1>6. ASSUME NEW w \in Workers, MarkSent(w) PROVE Account(x)'
  <2>1. CASE x = worker[w].mail
    <3>1. /\ job[x] = "active" /\ job'[x] = "completed" /\ mailed' = mailed
          /\ tries' = tries /\ stalls' = stalls
      BY <1>6, <2>1 DEF MarkSent, Complete, WorkerInv
    <3>2. Open(x)' = 1
      BY <3>1 DEF Open
    <3>3. QED BY <1>0, <3>1, <3>2, OpenRange, AccountQuiet
  <2>2. CASE x # worker[w].mail
    BY <1>0, <1>6, <2>2, AccountElse DEF MarkSent
  <2>3. QED BY <2>1, <2>2
<1>7. ASSUME NEW w \in Workers, MarkSentFails(w) PROVE Account(x)'
  <2>1. CASE x = worker[w].mail
    <3>1. job[x] = "active" /\ job' = job /\ mailed' = mailed /\ tries' = tries /\ stalls' = stalls
      BY <1>7, <2>1 DEF MarkSentFails, Continue, WorkerInv
    <3>2. \A v \in Workers : worker'[v] # [pc |-> "send", mail |-> x]
      <4>1. \A v \in Workers \ {w} : worker'[v] = worker[v] /\ worker[v].mail # x
        BY <1>7, <2>1 DEF MarkSentFails, Continue, WorkerInv
      <4>2. worker'[w].pc = "markFailed"
        BY <1>7 DEF MarkSentFails, Continue
      <4>3. QED BY <4>1, <4>2
    <3>3. Open(x)' = 1
      BY <3>1, <3>2 DEF Open, Sending
    <3>4. QED BY <1>0, <3>1, <3>3, OpenRange, AccountQuiet
  <2>2. CASE x # worker[w].mail
    BY <1>0, <1>7, <2>2, AccountElse DEF MarkSentFails
  <2>3. QED BY <2>1, <2>2
<1>8. ASSUME NEW w \in Workers, MarkFailed(w) PROVE Account(x)'
  <2>1. CASE x = worker[w].mail
    <3>1. job[x] = "active" /\ x \in Recorded /\ Throw(w, x) /\ mailed' = mailed
      BY <1>8, <2>1 DEF MarkFailed, WorkerInv
    <3>2. QED BY <1>0, <2>1, <3>1, AccountThrow
  <2>2. CASE x # worker[w].mail
    BY <1>0, <1>8, <2>2, AccountElse DEF MarkFailed
  <2>3. QED BY <2>1, <2>2
<1>9. CASE Crash
  <2>1. job' = job /\ mailed' = mailed /\ tries' = tries /\ stalls' = stalls
    BY <1>9 DEF Crash
  <2>2. ~Sending(x)'
    BY <1>9 DEF Crash, Sending, Rest
  <2>3. Open(x)' \in {0, 1} /\ Open(x)' >= Open(x)
    BY <2>1, <2>2 DEF Open
  <2>4. QED BY <1>0, <2>1, <2>3, AccountQuiet
<1>10. ASSUME NEW m \in Mails, Recover(m) PROVE Account(x)'
  <2>1. CASE x = m
    <3>1. /\ stalls'[x] = stalls[x] + 1 /\ tries' = tries /\ mailed' = mailed
          /\ job[x] = "active"
          /\ job'[x] = IF stalls[x] < MaxStalls THEN "waiting" ELSE "failed"
      BY <1>10, <2>1 DEF Recover
    <3>2. Open(x)' = 0
      BY <3>1 DEF Open
    <3>3. mailed[x] <= 1 + stalls[x] + (IF x \in Recorded THEN tries[x] ELSE 0)
      BY <1>0, OpenRange DEF Account
    <3>4. tries[x] < Attempts /\ stalls[x] <= MaxStalls
      BY <1>0, <3>1 DEF Account
    <3>5. QED BY <3>1, <3>2, <3>3, <3>4, MailQueueAssumption DEF Account
  <2>2. CASE x # m
    BY <1>0, <1>10, <2>2, AccountOther DEF Recover
  <2>3. QED BY <2>1, <2>2
<1>11. CASE UNCHANGED vars
  BY <1>0, <1>11, AccountOther DEF vars
<1>12. QED
  BY <1>1, <1>2, <1>3, <1>4, <1>5, <1>6, <1>7, <1>8, <1>9, <1>10, <1>11 DEF Next, Work

LEMMA AccountInit == Init => AccountInv
BY MailQueueAssumption DEF Init, AccountInv, Open

LEMMA AccountBound == TypeOK /\ AccountInv => DeliveryBound
<1> SUFFICES ASSUME TypeOK, AccountInv, NEW x \in Mails
             PROVE  /\ mailed[x] <= 1 + stalls[x] + (IF x \in Recorded THEN tries[x] ELSE 0)
                    /\ mailed[x] <= Attempts + MaxStalls
  BY DEF DeliveryBound
<1>1. Account(x) /\ Open(x) \in {0, 1}
  BY OpenRange DEF AccountInv, Account
<1>2. tries[x] \in Nat /\ stalls[x] \in Nat /\ mailed[x] \in Nat
  BY DEF TypeOK
<1>3. CASE job[x] = "failed"
  <2>1. Open(x) = 0
    BY <1>3 DEF Open
  <2>2. QED BY <1>1, <1>2, <1>3, <2>1, MailQueueAssumption DEF Account
<1>4. CASE job[x] # "failed"
  BY <1>1, <1>2, <1>4, MailQueueAssumption DEF Account
<1>5. QED BY <1>3, <1>4

\* No message goes out more often than its failed attempts and stalls explain,
\* nor more often than the queue's options allow.
THEOREM BoundedDelivery == Spec => []DeliveryBound
<1>1. QED
  BY BaseInit, BaseStep, AccountInit, AccountStep, AccountBound, PTL DEF Spec, Base

----------------------------------------------------------------------------
(* The refinement. *)

\* What a step that changes the job of one mail does to the lives.
LEMMA LifeOfOne ==
  ASSUME TypeOK, NEW m \in Mails, NEW s, job' = [job EXCEPT ![m] = s],
         NEW l, l = IF s \in {"waiting", "active"} THEN "queued" ELSE s
  PROVE  /\ LifeOf' = [LifeOf EXCEPT ![m] = l]
         /\ LifeOf[m] = l => LifeOf' = LifeOf
<1>1. \A x \in Mails : LifeOf'[x] = IF x = m THEN l ELSE LifeOf[x]
  BY DEF TypeOK, LifeOf
<1>2. LifeOf' = [LifeOf EXCEPT ![m] = l]
  BY <1>1 DEF LifeOf
<1>3. ASSUME LifeOf[m] = l PROVE LifeOf' = LifeOf
  BY <1>1, <1>3 DEF LifeOf
<1>4. QED BY <1>2, <1>3

\* A worker's mail is queued, and the attempt ends in one of three ways.
LEMMA LifeAtWork ==
  ASSUME Base, NEW w \in Workers, worker[w].pc # "idle", NEW m, m = worker[w].mail
  PROVE  /\ m \in Mails /\ LifeOf[m] = "queued"
         /\ Complete(w, m) => Ledger!Become(m, "completed")
         /\ Throw(w, m) => Ledger!Become(m, "failed") \/ LifeOf' = LifeOf
         /\ \A pc : Continue(w, pc) => LifeOf' = LifeOf
<1>1. m \in Mails /\ job[m] = "active"
  <2>1. m \in Mails \cup {NoMail} /\ m # NoMail
    BY DEF Base, TypeOK, WorkerInv
  <2>2. QED BY <2>1 DEF Base, WorkerInv
<1>2. LifeOf[m] = "queued"
  BY <1>1 DEF LifeOf
<1>3. ASSUME Complete(w, m) PROVE Ledger!Become(m, "completed")
  <2>1. job' = [job EXCEPT ![m] = "completed"]
    BY <1>3 DEF Complete
  <2>2. QED BY <1>1, <2>1, LifeOfOne DEF Base, Ledger!Become
<1>4. ASSUME Throw(w, m) PROVE Ledger!Become(m, "failed") \/ LifeOf' = LifeOf
  <2>1. \/ job' = [job EXCEPT ![m] = "waiting"]
        \/ job' = [job EXCEPT ![m] = "failed"]
    BY <1>4 DEF Throw
  <2>2. QED BY <1>1, <1>2, <2>1, LifeOfOne DEF Base, Ledger!Become
<1>5. ASSUME NEW pc, Continue(w, pc) PROVE LifeOf' = LifeOf
  BY <1>5 DEF Continue, queue, LifeOf
<1>6. QED BY <1>1, <1>2, <1>3, <1>4, <1>5

\* Every step of the program is one of the ledger or leaves it alone.
LEMMA LedgerStep ==
  ASSUME Base, AccountInv, [Next]_vars
  PROVE  Ledger!Next \/ UNCHANGED Ledger!ledger
<1> USE DEF Ledger!ledger
<1>0. TypeOK /\ JobInv /\ WorkerInv
  BY DEF Base
<1>1. ASSUME NEW m \in Mails, Record(m) PROVE Ledger!Enter(m)
  <2>1. job[m] = "none" /\ row[m] = "none" /\ m \in Recorded /\ job' = job
    BY <1>0, <1>1 DEF Record, JobInv, TypeOK, queue
  <2>2. LifeOf[m] = "none" /\ LifeOf' = LifeOf
    BY <2>1 DEF LifeOf
  <2>3. QED BY <1>1, <2>1, <2>2 DEF Record, Ledger!Enter
<1>2. ASSUME NEW m \in Mails, AddJob(m) \/ AddFails(m)
      PROVE  Ledger!Accept(m) \/ UNCHANGED Ledger!ledger
  <2>1. /\ job[m] = "none" /\ LifeOf[m] = "none"
        /\ m \in Recorded => row[m] # "none"
        /\ UNCHANGED <<row, mailed>>
    BY <1>0, <1>2 DEF AddJob, AddFails, Adding, JobInv, LifeOf
  <2>2. CASE job' = [job EXCEPT ![m] = "waiting"]
    BY <1>0, <2>1, <2>2, LifeOfOne DEF Ledger!Accept, Ledger!Become
  <2>3. CASE UNCHANGED job
    BY <2>1, <2>3 DEF LifeOf
  <2>4. QED BY <1>2, <2>2, <2>3 DEF AddJob, AddFails
<1>3. ASSUME NEW m \in Mails, MarkUnqueued(m)
      PROVE  (\E k \in Mails : Ledger!Refuse(k)) \/ UNCHANGED Ledger!ledger
  <2>1. LifeOf' = LifeOf /\ mailed' = mailed
    BY <1>3 DEF MarkUnqueued, queue, LifeOf
  <2>2. QED BY <1>3, <2>1 DEF MarkUnqueued, Ledger!Refuse
<1>4. ASSUME NEW w \in Workers, NEW m \in Mails, Take(w, m)
      PROVE  UNCHANGED Ledger!ledger
  <2>1. LifeOf[m] = "queued" /\ job' = [job EXCEPT ![m] = "active"]
    BY <1>4 DEF Take, LifeOf
  <2>2. QED BY <1>0, <1>4, <2>1, LifeOfOne DEF Take, asked
<1>5. ASSUME NEW w \in Workers, Send(w) PROVE Ledger!Send(worker[w].mail)
  <2> DEFINE m == worker[w].mail
  <2>1. /\ m \in Mails /\ LifeOf[m] = "queued"
        /\ Complete(w, m) => Ledger!Become(m, "completed")
        /\ \A pc : Continue(w, pc) => LifeOf' = LifeOf
    BY <1>5, LifeAtWork DEF Send
  <2>2. mailed' = [mailed EXCEPT ![m] = @ + 1] /\ UNCHANGED row
    BY <1>5 DEF Send, asked
  <2>3. mailed[m] < Attempts + MaxStalls
    <3>1. Base' /\ AccountInv'
      BY BaseStep, AccountStep
    <3>2. DeliveryBound'
      BY <3>1, AccountBound, PTL DEF Base
    <3>3. mailed'[m] <= Attempts + MaxStalls
      BY <2>1, <3>2 DEF DeliveryBound
    <3>4. mailed'[m] = mailed[m] + 1 /\ mailed[m] \in Nat
      BY <1>0, <2>1, <2>2 DEF TypeOK
    <3>5. QED BY <3>3, <3>4, MailQueueAssumption
  <2>4. IF m \in Recorded THEN LifeOf' = LifeOf ELSE Ledger!Become(m, "completed")
    BY <1>5, <2>1 DEF Send
  <2> HIDE DEF m
  <2>5. QED BY <2>1, <2>2, <2>3, <2>4 DEF Ledger!Send, m
<1>6. ASSUME NEW w \in Workers, SendFails(w)
      PROVE  Ledger!GiveUp(worker[w].mail) \/ UNCHANGED Ledger!ledger
  <2> DEFINE m == worker[w].mail
  <2>1. /\ m \in Mails /\ LifeOf[m] = "queued"
        /\ Complete(w, m) => Ledger!Become(m, "completed")
        /\ Throw(w, m) => Ledger!Become(m, "failed") \/ LifeOf' = LifeOf
        /\ \A pc : Continue(w, pc) => LifeOf' = LifeOf
    BY <1>6, LifeAtWork DEF SendFails
  <2>2. UNCHANGED <<row, mailed>>
    BY <1>6 DEF SendFails, asked
  <2>3. \/ Continue(w, "markFailed")
        \/ m \in Silent /\ Complete(w, m)
        \/ Throw(w, m)
    BY <1>6 DEF SendFails
  <2> HIDE DEF m
  <2>4. QED BY <2>1, <2>2, <2>3 DEF Ledger!GiveUp, m
<1>7. ASSUME NEW w \in Workers, MarkSent(w) PROVE Ledger!Confirm(worker[w].mail)
  <2> DEFINE m == worker[w].mail
  <2>1. LifeOf[m] = "queued" /\ (Complete(w, m) => Ledger!Become(m, "completed"))
    BY <1>7, LifeAtWork DEF MarkSent
  <2>2. m \in Recorded /\ mailed[m] > 0
    BY <1>0, <1>7 DEF MarkSent, WorkerInv
  <2>3. Complete(w, m) /\ UNCHANGED mailed /\ MarkPending("sent")
    BY <1>7 DEF MarkSent
  <2> HIDE DEF m
  <2>4. QED BY <2>1, <2>2, <2>3 DEF MarkPending, Ledger!Decide, Ledger!Confirm, m
<1>8. ASSUME NEW w \in Workers, MarkSentFails(w) PROVE UNCHANGED Ledger!ledger
  <2>1. LifeOf' = LifeOf
    BY <1>8, LifeAtWork DEF MarkSentFails
  <2>2. QED BY <1>8, <2>1 DEF MarkSentFails, asked
<1>9. ASSUME NEW w \in Workers, MarkFailed(w)
      PROVE  \/ Ledger!Fail(worker[w].mail) \/ Ledger!GiveUp(worker[w].mail)
             \/ UNCHANGED Ledger!ledger
  <2> DEFINE m == worker[w].mail
  <2>1. /\ LifeOf[m] = "queued"
        /\ Throw(w, m) => Ledger!Become(m, "failed") \/ LifeOf' = LifeOf
    BY <1>9, LifeAtWork DEF MarkFailed
  <2>2. m \in Recorded
    BY <1>0, <1>9 DEF MarkFailed, WorkerInv
  <2>3. Throw(w, m) /\ UNCHANGED mailed /\ (MarkPending("failed") \/ UNCHANGED row)
    BY <1>9 DEF MarkFailed
  <2> HIDE DEF m
  <2>4. QED BY <2>1, <2>2, <2>3 DEF MarkPending, Ledger!Decide, Ledger!Fail, Ledger!GiveUp, m
<1>10. CASE Crash
  BY <1>10 DEF Crash, queue, LifeOf
<1>11. ASSUME NEW m \in Mails, Recover(m)
       PROVE  Ledger!GiveUp(m) \/ UNCHANGED Ledger!ledger
  <2>1. LifeOf[m] = "queued" /\ UNCHANGED <<row, mailed>>
    BY <1>11 DEF Recover, LifeOf, asked
  <2>2. \/ job' = [job EXCEPT ![m] = "waiting"]
        \/ job' = [job EXCEPT ![m] = "failed"]
    BY <1>11 DEF Recover
  <2>3. LifeOf' = LifeOf \/ Ledger!Become(m, "failed")
    BY <1>0, <2>1, <2>2, LifeOfOne DEF Ledger!Become
  <2>4. QED BY <2>1, <2>3 DEF Ledger!GiveUp
<1>12. CASE UNCHANGED vars
  BY <1>12 DEF vars, asked, queue, LifeOf
<1>13. ASSUME NEW w \in Workers, Work(w)
       PROVE  (\E m \in Mails : Ledger!Send(m) \/ Ledger!Confirm(m) \/ Ledger!Fail(m)
                                \/ Ledger!GiveUp(m))
              \/ UNCHANGED Ledger!ledger
  <2>1. ASSUME worker[w].pc # "idle" PROVE worker[w].mail \in Mails
    BY <2>1, LifeAtWork
  <2>2. QED BY <1>4, <1>5, <1>6, <1>7, <1>8, <1>9, <1>13, <2>1
       DEF Work, Send, SendFails, MarkSent, MarkSentFails, MarkFailed
<1>14. QED
  BY <1>1, <1>2, <1>3, <1>10, <1>11, <1>12, <1>13 DEF Next, Ledger!Next

LEMMA LedgerInit == Init => Ledger!Init
BY DEF Init, Ledger!Init, LifeOf

\* The queue keeps the ledger: whatever overlaps, fails or stops between the
\* history row, the job, the send and the updates of the history, a mail is
\* accepted and settled once, goes out in between at most as often as its job
\* has attempts and restarts, and its outcome is decided once.
THEOREM LedgerImplemented == Spec => ImplementsLedger
<1>1. Init => Base /\ AccountInv
  BY BaseInit, AccountInit
<1>2. Base /\ AccountInv /\ [Next]_vars => Base' /\ AccountInv'
  BY BaseStep, AccountStep
<1>3. Base /\ AccountInv /\ [Next]_vars => [Ledger!Next]_(Ledger!ledger)
  BY LedgerStep
<1>4. QED
  BY <1>1, <1>2, <1>3, LedgerInit, PTL DEF Spec, ImplementsLedger, Ledger!Spec

----------------------------------------------------------------------------
(* The safety half of JobsSettle: jobs run down. *)

Doing(m, pc) == \E w \in Workers : worker[w].mail = m /\ worker[w].pc = pc

\* How far a job is in its present attempt.
Phase(m) ==
  CASE job[m] = "none" -> 0
    [] job[m] = "waiting" -> 1
    [] job[m] = "active" ->
         IF Doing(m, "send") THEN 2 ELSE IF Doing(m, "markSent") THEN 3
         ELSE IF Doing(m, "markFailed") THEN 4 ELSE 5
    [] OTHER -> 6

Effort(m) == 6 * (tries[m] + stalls[m]) + Phase(m)

MaxEffort == 6 * (Attempts + MaxStalls) + 6

\* No step undoes any of it, and what workers and BullMQ do adds to it.
RunsDown ==
  /\ \A m \in Mails : Effort(m) <= Effort(m)'
  /\ (\E w \in Workers : Work(w)) \/ (\E m \in Mails : Recover(m)) =>
       \E m \in Mails : Effort(m) < Effort(m)'

JobsRunDown == [](\A m \in Mails : Effort(m) <= MaxEffort) /\ [][RunsDown]_vars

LEMMA PhaseRange == \A m : Phase(m) \in 0..6
BY DEF Phase

Measured == \A m \in Mails : Effort(m) \in Nat

LEMMA EffortType == TypeOK => Measured
BY PhaseRange DEF TypeOK, Effort, Measured

LEMMA EffortLimit == TypeOK /\ AccountInv => \A m \in Mails : Effort(m) <= MaxEffort
<1> SUFFICES ASSUME TypeOK, AccountInv, NEW m \in Mails PROVE Effort(m) <= MaxEffort
  OBVIOUS
<1>1. tries[m] \in Nat /\ stalls[m] \in Nat /\ Attempts \in Nat /\ MaxStalls \in Nat
  BY MailQueueAssumption DEF TypeOK
<1>2. tries[m] + stalls[m] <= Attempts + MaxStalls
  BY <1>1 DEF AccountInv
<1>3. Phase(m) \in 0..6
  BY PhaseRange
<1>4. QED BY <1>1, <1>2, <1>3 DEF Effort, MaxEffort

\* A worker tells the phase of its job, which nobody else works on.
Phased ==
  \A w \in Workers :
    /\ worker[w].pc = "send" => Phase(worker[w].mail) = 2
    /\ worker[w].pc = "markSent" => Phase(worker[w].mail) = 3
    /\ worker[w].pc = "markFailed" => Phase(worker[w].mail) = 4

LEMMA WorkerPhase == TypeOK /\ WorkerInv => Phased
<1> SUFFICES ASSUME TypeOK, WorkerInv, NEW w \in Workers, worker[w].pc # "idle",
                    NEW m, m = worker[w].mail
             PROVE  /\ worker[w].pc = "send" => Phase(m) = 2
                    /\ worker[w].pc = "markSent" => Phase(m) = 3
                    /\ worker[w].pc = "markFailed" => Phase(m) = 4
  BY DEF Phased
<1>1. job[m] = "active" /\ m # NoMail
  BY DEF WorkerInv
<1>2. \A v \in Workers : worker[v].mail = m => v = w
  BY <1>1 DEF WorkerInv
<1>3. \A pc : Doing(m, pc) <=> worker[w].pc = pc
  BY <1>2 DEF Doing
<1>4. QED BY <1>1, <1>3 DEF Phase

\* The same job in the same hands.
LEMMA EffortSame ==
  ASSUME NEW y, job'[y] = job[y], tries'[y] = tries[y], stalls'[y] = stalls[y],
         \A v \in Workers : \/ worker'[v] = worker[v]
                            \/ worker[v].mail # y /\ worker'[v].mail # y
  PROVE  Effort(y)' = Effort(y)
<1>1. \A pc : Doing(y, pc)' <=> Doing(y, pc)
  BY DEF Doing
<1>2. Phase(y)' = Phase(y)
  BY <1>1 DEF Phase
<1>3. QED BY <1>2 DEF Effort

\* A step of a worker changes the job it is busy with and no other.
LEMMA EffortOthers ==
  ASSUME TypeOK, NEW w \in Workers, NEW m \in Mails,
         worker[w].mail \in {m, NoMail}, worker'[w].mail \in {m, NoMail},
         \A v \in Workers \ {w} : worker'[v] = worker[v],
         \A y \in Mails \ {m} :
           job'[y] = job[y] /\ tries'[y] = tries[y] /\ stalls'[y] = stalls[y],
         Effort(m)' \in Nat, Effort(m) < Effort(m)'
  PROVE  RunsDown
<1>1. \A y \in Mails : y # NoMail
  BY MailQueueAssumption
<1>2. ASSUME NEW y \in Mails \ {m} PROVE Effort(y)' = Effort(y)
  BY <1>1, <1>2, EffortSame
<1>3. Effort(m) \in Nat /\ \A y \in Mails : Effort(y) \in Nat
  BY EffortType DEF Measured
<1>4. Effort(m) <= Effort(m)'
  BY <1>3
<1>5. QED BY <1>2, <1>3, <1>4 DEF RunsDown

LEMMA EffortFacts ==
  ASSUME Base, Base'
  PROVE  Phased /\ Phased' /\ Measured /\ Measured'
BY WorkerPhase, EffortType, PTL DEF Base

\* The three ways an attempt goes on.
LEMMA EffortWork ==
  ASSUME Base, Base', NEW w \in Workers, worker[w].pc # "idle", NEW m, m = worker[w].mail,
         \/ Complete(w, m)
         \/ Throw(w, m)
         \/ Continue(w, "markSent") /\ worker[w].pc = "send"
         \/ Continue(w, "markFailed") /\ worker[w].pc \in {"send", "markSent"}
  PROVE  RunsDown
<1> USE DEF Base, TypeOK
<1>1. m \in Mails /\ m # NoMail /\ job[m] = "active"
  <2>1. m \in Mails \cup {NoMail} /\ m # NoMail
    BY DEF WorkerInv
  <2>2. QED BY <2>1 DEF WorkerInv
<1>2. /\ tries[m] \in Nat /\ stalls[m] \in Nat /\ Effort(m) \in Nat /\ Effort(m)' \in Nat
      /\ tries'[m] \in Nat /\ stalls'[m] \in Nat
  BY <1>1, EffortFacts DEF Measured
<1>3. Phase(m) \in 2..4 /\ (worker[w].pc = "send" => Phase(m) = 2)
      /\ (worker[w].pc = "markSent" => Phase(m) = 3)
  BY EffortFacts DEF Phased
<1>4. CASE Complete(w, m)
  <2>1. job'[m] = "completed" /\ tries'[m] = tries[m] /\ stalls'[m] = stalls[m]
    BY <1>1, <1>4 DEF Complete
  <2>2. Phase(m)' = 6
    BY <2>1 DEF Phase
  <2>3. Effort(m) < Effort(m)'
    BY <1>2, <1>3, <2>1, <2>2 DEF Effort
  <2>4. QED BY <1>1, <1>2, <1>4, <2>3, EffortOthers DEF Complete, Rest
<1>5. CASE Throw(w, m)
  <2>1. job'[m] # "none" /\ tries'[m] = tries[m] + 1 /\ stalls'[m] = stalls[m]
    BY <1>1, <1>5 DEF Throw
  <2>2. Phase(m)' \in 0..6
    BY DEF Phase
  <2>3. Effort(m) < Effort(m)'
    BY <1>2, <1>3, <2>1, <2>2 DEF Effort
  <2>4. QED BY <1>1, <1>2, <1>5, <2>3, EffortOthers DEF Throw, Rest
<1>6. ASSUME NEW pc \in {"markSent", "markFailed"}, Continue(w, pc),
             worker[w].pc = "send" \/ (worker[w].pc = "markSent" /\ pc = "markFailed")
      PROVE  RunsDown
  <2>1. /\ worker'[w].pc = pc /\ worker'[w].mail = m
        /\ job' = job /\ tries' = tries /\ stalls' = stalls
        /\ \A v \in Workers \ {w} : worker'[v] = worker[v]
    BY <1>6 DEF Continue, queue
  <2>2. Phase(m)' = IF pc = "markSent" THEN 3 ELSE 4
    BY <2>1, EffortFacts DEF Phased
  <2>3. Effort(m) < Effort(m)'
    BY <1>2, <1>3, <1>6, <2>1, <2>2 DEF Effort
  <2>4. QED BY <1>1, <1>2, <2>1, <2>3, EffortOthers
<1>7. QED BY <1>4, <1>5, <1>6

LEMMA EffortTake ==
  ASSUME Base, Base', NEW w \in Workers, NEW m \in Mails, Take(w, m)
  PROVE  RunsDown
<1> USE DEF Base, TypeOK
<1>1. worker[w].mail = NoMail /\ job[m] = "waiting"
  BY DEF Take, WorkerInv
<1>2. /\ worker'[w].mail = m /\ worker'[w].pc = "send"
      /\ tries' = tries /\ stalls' = stalls
      /\ \A v \in Workers \ {w} : worker'[v] = worker[v]
      /\ \A y \in Mails \ {m} : job'[y] = job[y]
  BY DEF Take
<1>3. Phase(m) = 1
  BY <1>1 DEF Phase
<1>4. Phase(m)' = 2
  BY <1>2, EffortFacts DEF Phased
<1>5. tries[m] \in Nat /\ stalls[m] \in Nat /\ Effort(m)' \in Nat
  BY EffortFacts DEF Measured
<1>6. Effort(m) < Effort(m)'
  BY <1>2, <1>3, <1>4, <1>5 DEF Effort
<1>7. QED BY <1>1, <1>2, <1>5, <1>6, EffortOthers

LEMMA EffortRecover ==
  ASSUME Base, NEW m \in Mails, Recover(m)
  PROVE  RunsDown
<1> USE DEF Base, TypeOK
<1>1. /\ job'[m] # "none" /\ tries' = tries /\ stalls'[m] = stalls[m] + 1 /\ worker' = worker
      /\ \A y \in Mails \ {m} : job'[y] = job[y] /\ stalls'[y] = stalls[y]
  BY DEF Recover
<1>2. Phase(m) \in 0..6 /\ Phase(m)' \in 1..6
  BY <1>1 DEF Phase
<1>3. tries[m] \in Nat /\ stalls[m] \in Nat
  OBVIOUS
<1>4. Effort(m) < Effort(m)' /\ Effort(m) <= Effort(m)'
  BY <1>1, <1>2, <1>3 DEF Effort
<1>5. \A y \in Mails \ {m} : Effort(y)' = Effort(y) /\ Effort(y) \in Nat
  BY <1>1, EffortSame, EffortType DEF Measured
<1>6. QED BY <1>4, <1>5 DEF RunsDown

\* Handlers and crashes never take a job back.
LEMMA EffortElse ==
  ASSUME Base, NEW y \in Mails,
         \/ \E m \in Mails : Record(m) \/ AddJob(m) \/ AddFails(m) \/ MarkUnqueued(m)
         \/ Crash
         \/ UNCHANGED vars
  PROVE  Effort(y) <= Effort(y)'
<1> USE DEF Base, TypeOK
<1>1. tries' = tries /\ stalls' = stalls /\ tries[y] \in Nat /\ stalls[y] \in Nat
  BY DEF Record, AddJob, AddFails, MarkUnqueued, Crash, vars, queue
<1>2. Phase(y) \in 0..6 /\ Phase(y)' \in 0..6 /\ Effort(y) \in Nat
  BY EffortType DEF Phase, Measured
<1>3. CASE job' = job /\ worker' = worker
  BY <1>1, <1>2, <1>3, EffortSame
<1>4. ASSUME NEW m \in Mails, Adding(m), job' = [job EXCEPT ![m] = "waiting"], worker' = worker
      PROVE  Effort(y) <= Effort(y)'
  <2>1. CASE y = m
    <3>1. job[y] = "none"
      BY <1>4, <2>1 DEF Adding, JobInv
    <3>2. Phase(y) = 0
      BY <3>1 DEF Phase
    <3>3. QED BY <1>1, <1>2, <3>2 DEF Effort
  <2>2. CASE y # m
    BY <1>1, <1>2, <1>4, <2>2, EffortSame
  <2>3. QED BY <2>1, <2>2
<1>5. CASE Crash
  <2>1. job' = job /\ \A v \in Workers : worker'[v].mail = NoMail /\ worker'[v].pc = "idle"
    BY <1>5 DEF Crash, queue, Rest
  <2>2. \A pc \in {"send", "markSent", "markFailed"} : ~Doing(y, pc)'
    BY <2>1 DEF Doing
  <2>3. Phase(y) <= Phase(y)'
    BY <2>1, <2>2 DEF Phase
  <2>4. QED BY <1>1, <1>2, <2>3 DEF Effort
<1>6. QED
  BY <1>3, <1>4, <1>5 DEF Record, AddJob, AddFails, MarkUnqueued, vars, queue

LEMMA EffortStep == Base /\ Base' /\ [Next]_vars => RunsDown
<1> SUFFICES ASSUME Base, Base', [Next]_vars PROVE RunsDown
  OBVIOUS
<1>1. ASSUME NEW w \in Workers, Work(w) PROVE RunsDown
  <2>1. ASSUME NEW m \in Mails, Take(w, m) PROVE RunsDown
    BY <2>1, EffortTake
  <2>2. CASE Send(w)
    BY <2>2, EffortWork DEF Send
  <2>3. CASE SendFails(w)
    BY <2>3, EffortWork DEF SendFails
  <2>4. CASE MarkSent(w)
    BY <2>4, EffortWork DEF MarkSent
  <2>5. CASE MarkSentFails(w)
    BY <2>5, EffortWork DEF MarkSentFails
  <2>6. CASE MarkFailed(w)
    BY <2>6, EffortWork DEF MarkFailed
  <2>7. QED BY <1>1, <2>1, <2>2, <2>3, <2>4, <2>5, <2>6 DEF Work
<1>2. ASSUME NEW m \in Mails, Recover(m) PROVE RunsDown
  BY <1>2, EffortRecover
<1>3. CASE ~((\E w \in Workers : Work(w)) \/ (\E m \in Mails : Recover(m)))
  <2>1. \/ \E m \in Mails : Record(m) \/ AddJob(m) \/ AddFails(m) \/ MarkUnqueued(m)
        \/ Crash
        \/ UNCHANGED vars
    BY <1>3 DEF Next
  <2>2. \A y \in Mails : Effort(y) <= Effort(y)'
    BY <2>1, EffortElse
  <2>3. QED BY <1>3, <2>2 DEF RunsDown
<1>4. QED BY <1>1, <1>2, <1>3

\* Every job runs down: whatever a worker or BullMQ's recovery does uses up
\* some of a job's attempts, restarts and phases, no failure and no crash gives any
\* of it back, and there are at most MaxEffort.  What JobsSettle adds is the
\* fairness that somebody goes on.
THEOREM JobsUseUpTheirTries == Spec => JobsRunDown
<1>1. Init => Base /\ AccountInv
  BY BaseInit, AccountInit
<1>2. Base /\ AccountInv /\ [Next]_vars => Base' /\ AccountInv'
  BY BaseStep, AccountStep
<1>3. Base /\ AccountInv => \A m \in Mails : Effort(m) <= MaxEffort
  BY EffortLimit DEF Base
<1>4. Base /\ Base' /\ [Next]_vars => [RunsDown]_vars
  BY EffortStep
<1>5. QED BY <1>1, <1>2, <1>3, <1>4, PTL DEF Spec, JobsRunDown
=============================================================================
