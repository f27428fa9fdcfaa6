------------------------------- MODULE Agenda -------------------------------
(***************************************************************************)
(* What the services read out of one business's agenda: who is available   *)
(* (StaffService.findAvailableStaffForService), who is on duty, what is    *)
(* booked and what was earned (the dashboards of StaffService,             *)
(* BusinessService and AdminService).  Each is computed by itself, from    *)
(* the same collections, with rules of its own; the properties compare     *)
(* them with the bookings and with each other.                             *)
(*                                                                         *)
(* Time goes in ticks, as fine as one likes: a day has DayLength of them,  *)
(* the length that is assumed of a service where none is known HalfHour.   *)
(* The server computes days in its own time zone, MongoDB groups them in   *)
(* UTC.  Every member serves every service.  Of the statuses, "active"     *)
(* stands for pending, confirmed and in_progress, "cancelled" for no_show, *)
(* too; one that a PATCH unset (see Booking) is left out.                  *)
(***************************************************************************)
EXTENDS Integers, Sequences, FiniteSetsExt

CONSTANTS
  Staff,
  Shift,      \* Shift[p]: from and to, in ticks of every day
  Services,
  Catalogue,  \* Catalogue[s]: form, length and price a service may have
  Bookings,   \* booking documents (bounds how many exist)
  Carts,      \* the items a booking may be made of
  DayLength,
  HalfHour,
  Horizon,    \* bound on the clock
  Offsets,    \* the zones the server may run in, in ticks ahead of UTC
  ChartDays,  \* the days of a revenue chart
  Soon        \* how far upcoming appointments reach (48 hours)

Forms == {"number", "clock", "words", "empty"}

ASSUME AgendaAssumption ==
  /\ IsFiniteSet(Staff) /\ IsFiniteSet(Bookings)
  /\ DayLength \in Nat \ {0} /\ HalfHour \in Nat \ {0}
  /\ Shift \in [Staff -> [from : 0..(DayLength - 1), to : 0..(DayLength - 1)]]
  /\ Catalogue \in [Services -> [form : Forms, length : Nat, price : Nat]]
  /\ Horizon \in Nat
  /\ \A cart \in Carts : cart \in Seq([service : Services, provider : Staff, at : Nat])
  /\ Offsets \subseteq Int
  /\ ChartDays \in Nat \ {0}
  /\ Soon \in Nat

VARIABLES
  now,      \* the clock
  offset,   \* the server's zone
  offered,  \* the services that still exist
  active,   \* the members with isActive set
  removed,  \* the members with isDeleted set
  booking,  \* booking[b]: its status and items
  doneOn    \* doneOn[b]: {} or the server's day of completedAt

agendaVars == <<now, offset, offered, active, removed, booking, doneOn>>

NoBooking == [status |-> "none", items |-> << >>]

\* The server's day and its time of day, and MongoDB's day.
Day(t) == (t + offset) \div DayLength
TimeOfDay(t) == (t + offset) % DayLength
DayInUTC(t) == t \div DayLength
Midnight(d) == d * DayLength - offset

AgendaTypeOK ==
  /\ now \in 0..Horizon
  /\ offset \in Offsets
  /\ offered \subseteq Services
  /\ active \subseteq Staff /\ removed \subseteq Staff
  /\ booking \in [Bookings -> [status : {"none", "active", "completed", "cancelled", "deleted"},
                               items : Carts \cup {<< >>}]]
  /\ doneOn \in [Bookings -> SUBSET Int]
  /\ \A b \in Bookings :
       /\ booking[b].status = "none" => booking[b].items = << >>
       /\ \A d \in doneOn[b] : d <= Day(now)
       /\ booking[b].status = "completed" => doneOn[b] # {}
       /\ booking[b].status \in {"none", "active", "cancelled"} => doneOn[b] = {}

----------------------------------------------------------------------------
\* The agenda changes; which requests may change it is Booking's subject.

AgendaInit ==
  /\ now = 0
  /\ offset \in Offsets
  /\ offered = Services
  /\ active = Staff /\ removed = {}
  /\ booking = [b \in Bookings |-> NoBooking]
  /\ doneOn = [b \in Bookings |-> {}]

Book(b, cart) ==
  /\ booking[b].status = "none"
  /\ booking' = [booking EXCEPT ![b] = [status |-> "active", items |-> cart]]
  /\ UNCHANGED <<now, offset, offered, active, removed, doneOn>>

Complete(b) ==
  /\ booking[b].status = "active"
  /\ booking' = [booking EXCEPT ![b].status = "completed"]
  /\ doneOn' = [doneOn EXCEPT ![b] = {Day(now)}]
  /\ UNCHANGED <<now, offset, offered, active, removed>>

Cancel(b) ==
  /\ booking[b].status = "active"
  /\ booking' = [booking EXCEPT ![b].status = "cancelled"]
  /\ UNCHANGED <<now, offset, offered, active, removed, doneOn>>

\* isDeleted is set.
Delete(b) ==
  /\ booking[b].status \notin {"none", "deleted"}
  /\ booking' = [booking EXCEPT ![b].status = "deleted"]
  /\ UNCHANGED <<now, offset, offered, active, removed, doneOn>>

\* ServiceService.remove, whatever was booked.
Withdraw(s) ==
  /\ s \in offered
  /\ offered' = offered \ {s}
  /\ UNCHANGED <<now, offset, active, removed, booking, doneOn>>

\* StaffService.toggleActiveStatus; also of a removed member, by a request
\* that read it before the removal (SoftRows has both of its steps).
ToggleStaff(p) ==
  /\ active' = IF p \in active THEN active \ {p} ELSE active \cup {p}
  /\ UNCHANGED <<now, offset, offered, removed, booking, doneOn>>

\* StaffService.remove, whatever is booked.
RemoveStaff(p) ==
  /\ p \notin removed
  /\ removed' = removed \cup {p}
  /\ active' = active \ {p}
  /\ UNCHANGED <<now, offset, offered, booking, doneOn>>

Tick ==
  /\ now < Horizon
  /\ now' = now + 1
  /\ UNCHANGED <<offset, offered, active, removed, booking, doneOn>>

AgendaNext ==
  \/ \E b \in Bookings :
       (\E cart \in Carts : Book(b, cart)) \/ Complete(b) \/ Cancel(b) \/ Delete(b)
  \/ \E s \in Services : Withdraw(s)
  \/ \E p \in Staff : ToggleStaff(p) \/ RemoveStaff(p)
  \/ Tick

AgendaSpec == AgendaInit /\ [][AgendaNext]_agendaVars

----------------------------------------------------------------------------
\* What the aggregations start from.

\* The unwound items of the bookings with one of these statuses.
Entries(statuses) ==
  UNION {{[booking |-> b, index |-> i, service |-> booking[b].items[i].service,
           provider |-> booking[b].items[i].provider, at |-> booking[b].items[i].at] :
            i \in DOMAIN booking[b].items} : b \in {c \in Bookings : booking[c].status \in statuses}}

\* The items that are still to be served.
Pending == Entries({"active"})

\* $lookup of the service and $unwind drop items whose service was removed.
Known(entries) == {e \in entries : e.service \in offered}

Price(e) == Catalogue[e.service].price

Revenue(entries) == MapThenSumSet(Price, Known(entries))

\* A free text like "1 hour" without a number counts as half an hour.
Minutes(s) == IF Catalogue[s].length > 0 THEN Catalogue[s].length ELSE HalfHour

\* StaffService.parseServiceDurationToMinutes, in ticks: "90", "0:15",
\* "1 hour 30 mins" or nothing.  A plain zero stays zero.
StaffDuration(s) ==
  CASE Catalogue[s].form \in {"number", "clock"} -> Catalogue[s].length
    [] Catalogue[s].form = "words" -> Minutes(s)
    [] OTHER -> HalfHour

\* A parser that reads nothing but plain numbers.
NumbersOnly(s) == IF Catalogue[s].form = "number" THEN Catalogue[s].length ELSE HalfHour

\* BusinessService.parseDurationToMinutes does not read "0:15".
BusinessDuration(s) ==
  CASE Catalogue[s].form = "number" -> Catalogue[s].length
    [] Catalogue[s].form = "words" -> Minutes(s)
    [] OTHER -> HalfHour

\* The length StaffService counts for a booked item: half an hour once its
\* service was removed, however long the appointment.
Length(e) == IF e.service \in offered THEN StaffDuration(e.service) ELSE HalfHour

\* The members that are looked for: isActive set, isDeleted not.
Working == active \ removed

\* isStaffScheduledForTime; a shift that ends before it begins goes on after
\* midnight, on the same weekday.
ScheduledAt(p, t) ==
  LET h == TimeOfDay(t)  from == Shift[p].from  to == Shift[p].to IN
  IF from <= to THEN from <= h /\ h < to ELSE from <= h \/ h < to

\* Whether an item shares time with a request of service s at t.
OverlapsLate(e, s, t) == e.at + 1 < t + StaffDuration(s) /\ t + 1 < e.at + Length(e)

Overlaps(e, s, t) == e.at < t + StaffDuration(s) /\ t < e.at + Length(e)

\* findAvailableStaffForService looks at the appointments of the same day.
Busy(p, s, t) ==
  \E e \in Pending : e.provider = p /\ Day(e.at) = Day(t) /\ Overlaps(e, s, t)

Available(s, t) == {p \in Working : ScheduledAt(p, t) /\ ~Busy(p, s, t)}

----------------------------------------------------------------------------
\* Properties.

\* The ticks an appointment takes.
Taken(at, length) == at..(at + length - 1)

\* Whether an appointment stays within one day of the server's.
WithinDay(at, length) == \A t \in Taken(at, length) : Day(t) = Day(at)

\* A member who is offered for a service has no appointment, of whatever
\* length its own service has, at any time the service takes.  There are two
\* exceptions.  One crosses midnight: the search only sees the appointments
\* that begin on the requested day.  Or the appointment's service was removed
\* from the catalogue: the search counts half an hour for it, and may offer
\* its provider before it ends.
AvailableIsFree ==
  \A s \in offered, t \in 0..Horizon : WithinDay(t, StaffDuration(s)) =>
    \A p \in Available(s, t), e \in Known(Pending) :
      LET length == StaffDuration(e.service) IN
      e.provider = p /\ WithinDay(e.at, length) =>
        Taken(e.at, length) \cap Taken(t, StaffDuration(s)) = {}
=============================================================================
