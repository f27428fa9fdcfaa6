------------------------------ MODULE MailQueue ------------------------------
(***************************************************************************)
(* The messages the backend puts on its BullMQ queues, from the handler    *)
(* that asks for one to the processor that sends it: e-mails with a row in *)
(* the e-mail history (password reset, verification), e-mails without one  *)
(* (contact, bookings, welcome) and SMS.                                   *)
(*                                                                         *)
(* All recorded mails here are of one user and one type: the history is    *)
(* updated by user and type, and nothing ties a row to its job.            *)
(***************************************************************************)
EXTENDS Naturals, FiniteSets

CONSTANTS
  Mails,      \* messages (bounds how many are ever asked for)
  Recorded,   \* those with a history row
  Silent,     \* welcome mails: a failure to send them is swallowed
  Workers,    \* processors of the queue
  NoMail,     \* not a message
  Attempts,   \* the attempts option of every job
  MaxStalls,  \* how often BullMQ restarts a stalled job (its default is 1)
  Faults,     \* what can fail: "queue", "send", "database"
  MaxCrashes  \* bound: how often the process stops

ASSUME MailQueueAssumption ==
  /\ Recorded \subseteq Mails
  /\ Silent \subseteq Mails
  /\ Recorded \cap Silent = {}
  /\ NoMail \notin Mails
  /\ Attempts \in Nat \ {0}
  /\ MaxStalls \in Nat
  /\ Faults \subseteq {"queue", "send", "database"}
  /\ MaxCrashes \in Nat

VARIABLES
  request,  \* request[m]: what the handler that asks for m does next
  row,      \* row[m]: emailStatus of its history row, "none" without a row
  job,      \* job[m]: the state of its job, "none" without a job
  tries,    \* tries[m]: failed attempts of its job
  stalls,   \* stalls[m]: how often its job was found stalled
  mailed,   \* mailed[m]: how often the transport accepted it
  worker,   \* worker[w]: the message a worker is busy with, and its next call
  crashes   \* how often the process stopped

asked == <<request, row>>
queue == <<job, tries, stalls>>
vars == <<asked, queue, mailed, worker, crashes>>

Rest == [pc |-> "idle", mail |-> NoMail]

TypeOK ==
  /\ request \in [Mails -> {"idle", "add", "mark", "over"}]
  /\ row \in [Mails -> {"none", "pending", "sent", "failed"}]
  /\ job \in [Mails -> {"none", "waiting", "active", "completed", "failed"}]
  /\ tries \in [Mails -> Nat]
  /\ stalls \in [Mails -> Nat]
  /\ mailed \in [Mails -> Nat]
  /\ worker \in [Workers -> [pc : {"idle", "send", "markSent", "markFailed"},
                             mail : Mails \cup {NoMail}]]
  /\ crashes \in Nat

----------------------------------------------------------------------------
\* Helpers.

\* An update without the status in its filter.
MarkAll(outcome) ==
  row' = [m \in Mails |-> IF row[m] = "none" THEN "none" ELSE outcome]

\* What updateMany does to the history: it finds the rows by their status.
MarkPending(outcome) ==
  row' = [m \in Mails |-> IF row[m] = "pending" THEN outcome ELSE row[m]]

\* The processor returns, or throws and BullMQ retries or gives up.
Complete(w, m) ==
  /\ job' = [job EXCEPT ![m] = "completed"]
  /\ worker' = [worker EXCEPT ![w] = Rest]
  /\ UNCHANGED <<tries, stalls>>

\* A retry that is not counted.
ThrowUncounted(w, m) ==
  /\ job' = [job EXCEPT ![m] = IF tries[m] + 1 < Attempts THEN "waiting" ELSE "failed"]
  /\ worker' = [worker EXCEPT ![w] = Rest]
  /\ UNCHANGED <<tries, stalls>>

Throw(w, m) ==
  /\ tries' = [tries EXCEPT ![m] = @ + 1]
  /\ job' = [job EXCEPT ![m] = IF tries[m] + 1 < Attempts THEN "waiting" ELSE "failed"]
  /\ worker' = [worker EXCEPT ![w] = Rest]
  /\ UNCHANGED stalls

Continue(w, pc) ==
  /\ worker' = [worker EXCEPT ![w] = [@ EXCEPT !.pc = pc]]
  /\ UNCHANGED queue

Init ==
  /\ request = [m \in Mails |-> "idle"]
  /\ row = [m \in Mails |-> "none"]
  /\ job = [m \in Mails |-> "none"]
  /\ tries = [m \in Mails |-> 0]
  /\ stalls = [m \in Mails |-> 0]
  /\ mailed = [m \in Mails |-> 0]
  /\ worker = [w \in Workers |-> Rest]
  /\ crashes = 0

----------------------------------------------------------------------------
\* The handler: forgotPassword and resendVerificationEmail for recorded mails,
\* the contact form, bookings and the registration for the others.

\* The history row is created before the job.
Record(m) ==
  /\ m \in Recorded
  /\ request[m] = "idle"
  /\ request' = [request EXCEPT ![m] = "add"]
  /\ row' = [row EXCEPT ![m] = "pending"]
  /\ UNCHANGED <<queue, mailed, worker, crashes>>

\* The handler is about to add the job.
Adding(m) == request[m] = IF m \in Recorded THEN "add" ELSE "idle"

AddJob(m) ==
  /\ Adding(m)
  /\ job' = [job EXCEPT ![m] = "waiting"]
  /\ request' = [request EXCEPT ![m] = "over"]
  /\ UNCHANGED <<row, tries, stalls, mailed, worker, crashes>>

\* The call fails, although the job may have reached the queue.
AddFails(m) ==
  /\ Adding(m)
  /\ "queue" \in Faults
  /\ job' = [job EXCEPT ![m] = "waiting"] \/ UNCHANGED job
  /\ request' = [request EXCEPT ![m] = IF m \in Recorded THEN "mark" ELSE "over"]
  /\ UNCHANGED <<row, tries, stalls, mailed, worker, crashes>>

\* updateOne marks the first pending row it finds, whose ever it is.
MarkUnqueued(m) ==
  /\ request[m] = "mark"
  /\ request' = [request EXCEPT ![m] = "over"]
  /\ \/ \E k \in Mails : row[k] = "pending" /\ row' = [row EXCEPT ![k] = "failed"]
     \/ ("database" \in Faults \/ \A k \in Mails : row[k] # "pending") /\ UNCHANGED row
  /\ UNCHANGED <<queue, mailed, worker, crashes>>

----------------------------------------------------------------------------
\* The processor.

Take(w, m) ==
  /\ worker[w].pc = "idle"
  /\ job[m] = "waiting"
  /\ job' = [job EXCEPT ![m] = "active"]
  /\ worker' = [worker EXCEPT ![w] = [pc |-> "send", mail |-> m]]
  /\ UNCHANGED <<asked, tries, stalls, mailed, crashes>>

Send(w) ==
  LET m == worker[w].mail IN
  /\ worker[w].pc = "send"
  /\ mailed' = [mailed EXCEPT ![m] = @ + 1]
  /\ IF m \in Recorded THEN Continue(w, "markSent") ELSE Complete(w, m)
  /\ UNCHANGED <<asked, crashes>>

\* A handler that takes a failed send for a successful one.
SendFailsUnseen(w) ==
  LET m == worker[w].mail IN
  /\ worker[w].pc = "send"
  /\ "send" \in Faults
  /\ IF m \in Recorded THEN Continue(w, "markSent") ELSE Complete(w, m)
  /\ UNCHANGED <<asked, mailed, crashes>>

SendFails(w) ==
  LET m == worker[w].mail IN
  /\ worker[w].pc = "send"
  /\ "send" \in Faults
  /\ \/ m \in Recorded /\ Continue(w, "markFailed")
     \/ m \in Silent /\ Complete(w, m)
     \/ m \notin Recorded \cup Silent /\ Throw(w, m)
  /\ UNCHANGED <<asked, mailed, crashes>>

MarkSent(w) ==
  /\ worker[w].pc = "markSent"
  /\ MarkPending("sent")
  /\ Complete(w, worker[w].mail)
  /\ UNCHANGED <<request, mailed, crashes>>

\* A handler that swallows the failure of the update.
MarkSentLost(w) ==
  /\ worker[w].pc = "markSent"
  /\ "database" \in Faults
  /\ Complete(w, worker[w].mail)
  /\ UNCHANGED <<asked, mailed, crashes>>

\* The catch block is the same for a failed update as for a failed send.
MarkSentFails(w) ==
  /\ worker[w].pc = "markSent"
  /\ "database" \in Faults
  /\ Continue(w, "markFailed")
  /\ UNCHANGED <<asked, mailed, crashes>>

\* The job is retried whether this update works or not.
MarkFailed(w) ==
  /\ worker[w].pc = "markFailed"
  /\ MarkPending("failed") \/ ("database" \in Faults /\ UNCHANGED row)
  /\ Throw(w, worker[w].mail)
  /\ UNCHANGED <<request, mailed, crashes>>

----------------------------------------------------------------------------
\* The process stops: requests and attempts in flight are lost, the jobs of
\* the workers stay active in Redis.
Crash ==
  /\ crashes < MaxCrashes
  /\ crashes' = crashes + 1
  /\ request' = [m \in Mails |-> IF request[m] = "idle" THEN "idle" ELSE "over"]
  /\ worker' = [w \in Workers |-> Rest]
  /\ UNCHANGED <<row, queue, mailed>>

\* A queue that never looks for stalled jobs.
RecoverNever(m) ==
  /\ FALSE
  /\ UNCHANGED vars

\* A queue that also starts over jobs it had given up.
RecoverSettled(m) ==
  /\ job[m] \in {"active", "failed"}
  /\ \A w \in Workers : worker[w].mail # m
  /\ stalls' = [stalls EXCEPT ![m] = @ + 1]
  /\ job' = [job EXCEPT ![m] = IF stalls[m] < MaxStalls THEN "waiting" ELSE "failed"]
  /\ UNCHANGED <<asked, tries, mailed, worker, crashes>>

\* BullMQ finds an active job that nobody works on.
Recover(m) ==
  /\ job[m] = "active"
  /\ \A w \in Workers : worker[w].mail # m
  /\ stalls' = [stalls EXCEPT ![m] = @ + 1]
  /\ job' = [job EXCEPT ![m] = IF stalls[m] < MaxStalls THEN "waiting" ELSE "failed"]
  /\ UNCHANGED <<asked, tries, mailed, worker, crashes>>

----------------------------------------------------------------------------
Work(w) ==
  \/ \E m \in Mails : Take(w, m)
  \/ Send(w) \/ SendFails(w)
  \/ MarkSent(w) \/ MarkSentFails(w) \/ MarkFailed(w)

Next ==
  \/ \E m \in Mails : Record(m) \/ AddJob(m) \/ AddFails(m) \/ MarkUnqueued(m)
  \/ \E w \in Workers : Work(w)
  \/ Crash
  \/ \E m \in Mails : Recover(m)

Spec == Init /\ [][Next]_vars

\* Workers go on as long as there is something to do, and BullMQ looks for
\* stalled jobs regularly.  Nobody has to ask for a mail.
FairSpec ==
  /\ Spec
  /\ \A w \in Workers : WF_vars(Work(w))
  /\ \A m \in Mails : WF_vars(Recover(m))

----------------------------------------------------------------------------
\* Properties.

\* A history row says "sent" only if a mail of this user and type was sent.
SentIsTrue ==
  (\E m \in Mails : row[m] = "sent") => \E m \in Recorded : mailed[m] > 0

\* A job only completes with its mail sent, a welcome mail excepted, and with
\* the row of a recorded one decided, however retries, failures and crashes
\* come together.
CompletionIsEarned ==
  \A m \in Mails : job[m] = "completed" =>
    /\ m \in Silent \/ mailed[m] > 0
    /\ m \in Recorded => row[m] \in {"sent", "failed"}

\* How often one message can go out.  An unrecorded one is repeated only
\* after a stall, a recorded one also when an attempt failed after the send;
\* never more often than the attempts and restarts a job has.
DeliveryBound ==
  \A m \in Mails :
    /\ mailed[m] <= 1 + stalls[m] + (IF m \in Recorded THEN tries[m] ELSE 0)
    /\ mailed[m] <= Attempts + MaxStalls

\* The outcome in the history is never overwritten, not by a later attempt of
\* the same job either, nor by the jobs of other mails.
OutcomeIsFinal ==
  [][ \A m \in Mails : row[m] \in {"sent", "failed"} => row'[m] = row[m] ]_row

\* Whatever is put on the queue completes or fails in the end.
JobsSettle == []<>(\A m \in Mails : job[m] \notin {"waiting", "active"})

\* Seen from outside, a job that waits or is worked on is queued.
LifeOf == [m \in Mails |-> IF job[m] \in {"waiting", "active"} THEN "queued" ELSE job[m]]

Ledger == INSTANCE MailLedger WITH
  entry <- row, life <- LifeOf, copies <- mailed, Limit <- Attempts + MaxStalls

\* With whatever overlaps, fails or stops, the queue and the history are the
\* ledger: accepted once, settled once, sent in between and not too often.
ImplementsLedger == Ledger!Spec

----------------------------------------------------------------------------
\* The inductive invariant behind them.

\* What the state of a job says of its handler and its row.
JobInv ==
  \A m \in Mails :
    /\ job[m] # "none" => request[m] \in {"mark", "over"}
    /\ m \in Recorded => (request[m] = "idle" <=> row[m] = "none")

\* A worker is busy with one active job that is nobody else's.
WorkerInv ==
  \A w \in Workers :
    LET m == worker[w].mail IN
    /\ worker[w].pc = "idle" <=> m = NoMail
    /\ worker[w].pc # "idle" => job[m] = "active"
    /\ worker[w].pc \in {"markSent", "markFailed"} => m \in Recorded
    /\ worker[w].pc = "markSent" => mailed[m] > 0
    /\ \A v \in Workers : worker[v].mail = m /\ m # NoMail => v = w

\* A send of the current attempt, or of the one that completed the job, is
\* not accounted for by a failed attempt or a stall yet.
Sending(m) == \E w \in Workers : worker[w] = [pc |-> "send", mail |-> m]

Open(m) ==
  IF job[m] = "completed" \/ (job[m] = "active" /\ ~Sending(m)) THEN 1 ELSE 0

\* Attempts and stalls pay for every send, and there are only so many.
AccountInv ==
  \A m \in Mails :
    /\ mailed[m] <= Open(m) + stalls[m] + (IF m \in Recorded THEN tries[m] ELSE 0)
    /\ IF job[m] = "failed"
         THEN tries[m] + stalls[m] <= Attempts + MaxStalls
         ELSE tries[m] < Attempts /\ stalls[m] <= MaxStalls
=============================================================================
