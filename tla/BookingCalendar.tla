-------------------------- MODULE BookingCalendar --------------------------
(***************************************************************************)
(* What the booking module promises its users, without saying how: a       *)
(* calendar of slots (a provider at a start time) in which a booking       *)
(* reserves a set of slots in one step, only when nobody holds any of      *)
(* them, and moves through its life one step at a time.  What the program  *)
(* allows beside that is named: the owner enters bookings without asking   *)
(* who holds the slots (Enter), cancelBooking has a rule of its own        *)
(* (Cancel), and a PATCH that leaves the status out takes it away (Unset): *)
(* such a booking holds nothing, and moves on as if it were pending.       *)
(* Booking.tla is the program; it implements this calendar when requests   *)
(* are served one after the other.                                         *)
(***************************************************************************)
CONSTANTS
  Bookings,    \* identifiers of booking documents
  Slots        \* the provider/start-time pairs that can be reserved

VARIABLES
  life,        \* life[b]: "absent", "unset", or the status of booking b
  holds,       \* holds[b]: the slots booking b asks for
  hidden       \* the bookings taken off the calendar

vars == <<life, holds, hidden>>

Statuses ==
  {"pending", "confirmed", "in_progress", "completed", "cancelled", "no_show"}

\* The moves of the transition table.
Moves ==
  [ absent      |-> {},
    pending     |-> {"confirmed", "cancelled"},
    confirmed   |-> {"in_progress", "cancelled", "no_show"},
    in_progress |-> {"completed", "cancelled"},
    completed   |-> {},
    cancelled   |-> {},
    no_show     |-> {} ]

Standing(b) == IF life[b] = "unset" THEN "pending" ELSE life[b]

Live(b) == life[b] \in {"pending", "confirmed", "in_progress"} /\ b \notin hidden

Free(s) == \A b \in Bookings : Live(b) => s \notin holds[b]

Init ==
  /\ life = [b \in Bookings |-> "absent"]
  /\ holds = [b \in Bookings |-> {}]
  /\ hidden = {}

\* Reserve the slots S, all free at this moment.
Reserve(b, S) ==
  /\ life[b] = "absent"
  /\ \A s \in S : Free(s)
  /\ life' = [life EXCEPT ![b] = "pending"]
  /\ holds' = [holds EXCEPT ![b] = S]
  /\ UNCHANGED hidden

\* The owner enters a booking, whoever holds the slots.
Enter(b, S) ==
  /\ life[b] = "absent"
  /\ life' = [life EXCEPT ![b] = "confirmed"]
  /\ holds' = [holds EXCEPT ![b] = S]
  /\ UNCHANGED hidden

Move(b, st) ==
  /\ b \notin hidden
  /\ st \in Moves[Standing(b)]
  /\ life' = [life EXCEPT ![b] = st]
  /\ UNCHANGED <<holds, hidden>>

\* Anything not yet completed or cancelled can be cancelled, a no-show too,
\* which the table does not say.
Cancel(b) ==
  /\ b \notin hidden
  /\ life[b] \notin {"absent", "completed", "cancelled"}
  /\ life' = [life EXCEPT ![b] = "cancelled"]
  /\ UNCHANGED <<holds, hidden>>

Unset(b) ==
  /\ b \notin hidden
  /\ life[b] # "absent"
  /\ life' = [life EXCEPT ![b] = "unset"]
  /\ UNCHANGED <<holds, hidden>>

Hide(b) ==
  /\ life[b] # "absent"
  /\ b \notin hidden
  /\ hidden' = hidden \cup {b}
  /\ UNCHANGED <<life, holds>>

Next ==
  \E b \in Bookings :
    \/ \E S \in SUBSET Slots : S # {} /\ (Reserve(b, S) \/ Enter(b, S))
    \/ \E st \in Statuses : Move(b, st)
    \/ Cancel(b)
    \/ Unset(b)
    \/ Hide(b)

Spec == Init /\ [][Next]_vars
============================================================================
