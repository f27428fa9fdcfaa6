----------------------------- MODULE MailLedger -----------------------------
(***************************************************************************)
(* What those who ask for a mail may rely on, without saying how it is     *)
(* queued, retried or recovered: a mail is accepted once, goes out at most *)
(* Limit times while it is queued and never after it is settled; it is     *)
(* only completed when it went out, a welcome mail excepted; its entry in  *)
(* the history is decided once.  The history knows mails by user and type, *)
(* so an outcome is that of every pending entry.  MailQueue.tla is the     *)
(* program.                                                                *)
(***************************************************************************)
EXTENDS Naturals

CONSTANTS
  Mails,
  Recorded,  \* those with an entry in the history
  Silent,    \* those that may complete without being sent
  Limit      \* how many copies of a mail may go out

VARIABLES
  entry,   \* entry[m]: "none", "pending", "sent" or "failed"
  life,    \* life[m]: "none", "queued", "completed" or "failed"
  copies   \* copies[m]: how often m went out

ledger == <<entry, life, copies>>

Init ==
  /\ entry = [m \in Mails |-> "none"]
  /\ life = [m \in Mails |-> "none"]
  /\ copies = [m \in Mails |-> 0]

Become(m, l) == life' = [life EXCEPT ![m] = l]

Decide(outcome) ==
  entry' = [m \in Mails |-> IF entry[m] = "pending" THEN outcome ELSE entry[m]]

Enter(m) ==
  /\ m \in Recorded
  /\ entry[m] = "none" /\ life[m] = "none"
  /\ entry' = [entry EXCEPT ![m] = "pending"]
  /\ UNCHANGED <<life, copies>>

\* A recorded mail is in the history before it is queued.
Accept(m) ==
  /\ life[m] = "none"
  /\ m \in Recorded => entry[m] # "none"
  /\ Become(m, "queued")
  /\ UNCHANGED <<entry, copies>>

\* The queue could not be reached.
Refuse(m) ==
  /\ entry[m] = "pending"
  /\ entry' = [entry EXCEPT ![m] = "failed"]
  /\ UNCHANGED <<life, copies>>

Send(m) ==
  /\ life[m] = "queued"
  /\ copies[m] < Limit
  /\ copies' = [copies EXCEPT ![m] = @ + 1]
  /\ IF m \in Recorded THEN UNCHANGED life ELSE Become(m, "completed")
  /\ UNCHANGED entry

Confirm(m) ==
  /\ m \in Recorded
  /\ life[m] = "queued" /\ copies[m] > 0
  /\ Decide("sent")
  /\ Become(m, "completed")
  /\ UNCHANGED copies

\* An attempt at a recorded mail failed; there may be another.
Fail(m) ==
  /\ m \in Recorded
  /\ life[m] = "queued"
  /\ Decide("failed")
  /\ Become(m, "failed") \/ UNCHANGED life
  /\ UNCHANGED copies

GiveUp(m) ==
  /\ life[m] = "queued"
  /\ Become(m, "failed") \/ (m \in Silent /\ Become(m, "completed"))
  /\ UNCHANGED <<entry, copies>>

Next ==
  \E m \in Mails :
    \/ Enter(m) \/ Accept(m) \/ Refuse(m)
    \/ Send(m) \/ Confirm(m) \/ Fail(m) \/ GiveUp(m)

Spec == Init /\ [][Next]_ledger
=============================================================================
