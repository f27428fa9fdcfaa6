------------------------------ MODULE Booking ------------------------------
(***************************************************************************)
(* BookingService: the requests that create bookings and change them.      *)
(* Several HTTP requests are served at once; between two awaits of one     *)
(* request any step of another may happen.  Every action below is the part *)
(* of a handler from one database call to the next, so each reads or       *)
(* writes the bookings collection at most once.                            *)
(*                                                                         *)
(* A slot is a provider at an exact start time, which is what the          *)
(* conflict query compares.  Mongoose writes back only the paths a request *)
(* modified, keyed by _id: Save changes those fields and no others,        *)
(* whatever happened to the document since the request loaded it.          *)
(***************************************************************************)
EXTENDS Naturals, FiniteSets, Sequences

CONSTANTS
  Requests,      \* the requests that can be in flight at the same time
  Creators,      \* those of them that may create bookings
  Bookings,      \* identifiers of booking documents (bounds how many exist)
  Customers,     \* users who book
  Owner,         \* the user who owns the business
  Providers,     \* staff members of the business
  Times,         \* start times
  Scheduled,     \* slots inside the provider's weekly schedule
  MaxItems,      \* bound: items of one booking request
  BootTime,      \* when the DTO class, and its MinDate, was evaluated
  MaxClock,      \* bound: how far the clock moves
  Ops,           \* the endpoints clients call
  PatchStatuses, \* bookingStatus values in PATCH bodies; NoStatus = left out
  Disruptions,   \* what changes around the module: "staff", "business", "queue"
  NoBooking      \* not a booking

Statuses ==
  {"pending", "confirmed", "in_progress", "completed", "cancelled", "no_show"}

NoStatus == "none"

Endpoints == {"create", "manual", "update", "cancel", "complete", "remove"}

Users == Customers \cup {Owner}

Slots == Providers \X Times

Carts == UNION {[1..n -> Slots] : n \in 1..MaxItems}

ASSUME BookingAssumption ==
  /\ Creators \subseteq Requests
  /\ NoBooking \notin Bookings
  /\ Times \subseteq Nat
  /\ Scheduled \subseteq Slots
  /\ MaxItems \in Nat
  /\ BootTime \in Nat
  /\ MaxClock \in Nat
  /\ Ops \subseteq Endpoints
  /\ PatchStatuses \subseteq Statuses \cup {NoStatus}

VARIABLES
  status,      \* status[b]: "absent" (no document), "unset" (no bookingStatus), or a status
  customer,    \* customer[b]: the user the booking belongs to
  booked,      \* booked[b]: the slots of its services array
  deleted,     \* the soft-deleted bookings
  stamps,      \* stamps[b]: which of confirmedAt, completedAt, cancelledAt are set
  serving,     \* the active providers (removal deactivates in the same save)
  bizOpen,     \* the business document still exists
  clock,       \* the current time
  jobs,        \* the notification jobs put on the queues
  lapses,      \* history of b for the properties: how it escaped the conflict query
  req          \* req[r]: the request in flight, its arguments and local variables

docs == <<status, customer, booked, deleted, stamps>>
world == <<serving, bizOpen, clock>>
vars == <<docs, world, jobs, lapses, req>>

\* What the conflict query does not see: an insert by the manual endpoint,
\* which asks nothing, and every status outside its $in list.
Lapses == {"manual", "unset", "ended"}

Stamps == {"confirmedAt", "completedAt", "cancelledAt"}

Jobs == [booking : Bookings, kind : {"email", "sms"}]

Phases ==
  {"idle", "provider", "slot", "insert", "notify", "authorise", "save"}

Idle(r) == req[r].pc = "idle"

\* A request that was answered leaves nothing behind.
NoRequest ==
  [pc |-> "idle", op |-> "create", user |-> Owner, target |-> NoBooking,
   cart |-> <<>>, item |-> 1, patch |-> NoStatus, seen |-> "pending"]

Finish(r) == req' = [req EXCEPT ![r] = NoRequest]

Goto(r, phase) == req' = [req EXCEPT ![r].pc = phase]

Request ==
  [pc : Phases, op : Endpoints, user : Users, target : Bookings \cup {NoBooking},
   cart : Seq(Slots), item : Nat, patch : Statuses \cup {NoStatus},
   seen : Statuses]

TypeOK ==
  /\ status \in [Bookings -> Statuses \cup {"absent", "unset"}]
  /\ customer \in [Bookings -> Users]
  /\ booked \in [Bookings -> SUBSET Slots]
  /\ deleted \in SUBSET Bookings
  /\ stamps \in [Bookings -> SUBSET Stamps]
  /\ serving \in SUBSET Providers
  /\ bizOpen \in BOOLEAN
  /\ clock \in Nat
  /\ jobs \in SUBSET Jobs
  /\ lapses \in [Bookings -> SUBSET Lapses]
  /\ req \in [Requests -> Request]
  /\ \A r \in Requests : Idle(r) \/ req[r].target \in Bookings

----------------------------------------------------------------------------
\* Helpers.

\* A document without bookingStatus is hydrated with the schema's default.
Hydrate(st) == IF st = "unset" THEN "pending" ELSE st

Occupying == {"pending", "confirmed", "in_progress"}

\* The documents the conflict query matches: "unset" is not in its $in list.
Occupies(b) == status[b] \in Occupying /\ b \notin deleted

\* A faulty query that only knows pending bookings.
ConflictsPending(s) ==
  {b \in Bookings : status[b] = "pending" /\ b \notin deleted /\ s \in booked[b]}

\* The bookings on slot s that the conflict query of create would find.
Conflicts(s) == {b \in Bookings : Occupies(b) /\ s \in booked[b]}

CartSlots(cart) == {cart[i] : i \in DOMAIN cart}

\* validateStatusTransition's table.
Table ==
  [ pending     |-> {"confirmed", "cancelled"},
    confirmed   |-> {"in_progress", "cancelled", "no_show"},
    in_progress |-> {"completed", "cancelled"},
    completed   |-> {},
    cancelled   |-> {},
    no_show     |-> {} ]

\* Faulty checks: a completed booking can be cancelled; PATCH is not checked.
PermittedCancel(op, seen, patch) ==
  CASE op = "update"   -> patch = NoStatus \/ patch \in Table[seen]
    [] op = "cancel"   -> seen # "cancelled"
    [] op = "complete" -> seen = "in_progress"
    [] OTHER           -> TRUE

PermittedPatch(op, seen, patch) ==
  CASE op = "cancel"   -> seen \notin {"completed", "cancelled"}
    [] op = "complete" -> seen = "in_progress"
    [] OTHER           -> TRUE

\* The status check each handler makes on the status it loaded.
Permitted(op, seen, patch) ==
  CASE op = "update"   -> patch = NoStatus \/ patch \in Table[seen]
    [] op = "cancel"   -> seen \notin {"completed", "cancelled"}
    [] op = "complete" -> seen = "in_progress"
    [] OTHER           -> TRUE

\* The status a handler saves.  A PATCH body that leaves bookingStatus out
\* still carries the property, undefined: the DTO's class fields are
\* initialised (tsconfig targets ES2023) and the pipe returns the instance,
\* so Object.assign assigns it and save() unsets the path.
NewStatus(q, st) ==
  CASE q.op = "update"   -> IF q.patch = NoStatus THEN "unset" ELSE q.patch
    [] q.op = "cancel"   -> "cancelled"
    [] q.op = "complete" -> "completed"
    [] OTHER             -> st

\* The timestamp set together with status st.
StampOf(st) ==
  CASE st = "confirmed" -> {"confirmedAt"}
    [] st = "completed" -> {"completedAt"}
    [] st = "cancelled" -> {"cancelledAt"}
    [] OTHER            -> {}

NewStamps(q) == StampOf(NewStatus(q, NoStatus))

LapseOf(st) ==
  CASE st = "unset"                                   -> {"unset"}
    [] st \in {"completed", "cancelled", "no_show"} -> {"ended"}
    [] OTHER                                          -> {}

----------------------------------------------------------------------------
Init ==
  /\ status = [b \in Bookings |-> "absent"]
  /\ customer = [b \in Bookings |-> Owner]
  /\ booked = [b \in Bookings |-> {}]
  /\ deleted = {}
  /\ stamps = [b \in Bookings |-> {}]
  /\ serving = Providers
  /\ bizOpen = TRUE
  /\ clock = BootTime
  /\ jobs = {}
  /\ lapses = [b \in Bookings |-> {}]
  /\ req = [r \in Requests |-> NoRequest]

\* The document id is generated in the application, before the insert.
FreshId(b) ==
  /\ status[b] = "absent"
  /\ \A r \in Requests : Idle(r) \/ req[r].target # b

----------------------------------------------------------------------------
\* create and createManualBooking.

\* The pipe validates the body and the handler finds the business.  MinDate
\* compares with the instant the DTO class was evaluated, not with the clock;
\* the manual body is not compared with anything here.
StartBooking(r, op, u, b, cart) ==
  /\ Idle(r)
  /\ r \in Creators
  /\ op \in Ops
  /\ FreshId(b)
  /\ bizOpen
  /\ IF op = "create"
       THEN \A s \in CartSlots(cart) : s[2] >= BootTime
       ELSE op = "manual" /\ u = Owner
  /\ req' = [req EXCEPT ![r] =
       [pc |-> "provider", op |-> op, user |-> u, target |-> b, cart |-> cart,
        item |-> 1, patch |-> NoStatus, seen |-> "pending"]]
  /\ UNCHANGED <<docs, world, jobs, lapses>>

\* The current item passed its last check: go on to the next one, or insert.
\* A manual booking compares its dates with the clock before that.
NextItem(r) ==
  LET q == req[r] IN
  IF q.item < Len(q.cart)
    THEN req' = [req EXCEPT ![r].pc = "provider", ![r].item = @ + 1]
    ELSE IF q.op = "manual" => \A s \in CartSlots(q.cart) : s[2] > clock
           THEN Goto(r, "insert")
           ELSE Finish(r)

\* The provider of the current item is read.  create also wants it scheduled
\* at that time and not asked for twice at the same time in this body.
CheckProvider(r) ==
  LET q == req[r]
      s == q.cart[q.item]
      twice == \E i \in 1..(q.item - 1) : q.cart[i] = s
      ok == s[1] \in serving /\ (q.op = "create" => s \in Scheduled /\ ~twice)
  IN /\ q.pc = "provider"
     /\ \/ ~ok /\ Finish(r)
        \/ ok /\ q.op = "create" /\ Goto(r, "slot")
        \/ ok /\ q.op = "manual" /\ NextItem(r)
     /\ UNCHANGED <<docs, world, jobs, lapses>>

\* The conflict query for the current item.
CheckSlot(r) ==
  LET q == req[r] IN
  /\ q.pc = "slot"
  /\ IF Conflicts(q.cart[q.item]) = {} THEN NextItem(r) ELSE Finish(r)
  /\ UNCHANGED <<docs, world, jobs, lapses>>

\* The document is written.  (The user of a manual booking's e-mail is looked
\* up or created before; Accounts models that.)
Insert(r) ==
  LET q == req[r]
      st == IF q.op = "create" THEN "pending" ELSE "confirmed"
  IN /\ q.pc = "insert"
     /\ status' = [status EXCEPT ![q.target] = st]
     /\ \E c \in IF q.op = "create" THEN {q.user} ELSE Customers :
          customer' = [customer EXCEPT ![q.target] = c]
     /\ booked' = [booked EXCEPT ![q.target] = CartSlots(q.cart)]
     /\ stamps' = [stamps EXCEPT ![q.target] = StampOf(st)]
     /\ lapses' = [lapses EXCEPT ![q.target] =
          IF q.op = "manual" THEN {"manual"} ELSE {}]
     /\ Goto(r, "notify")
     /\ UNCHANGED <<deleted, world, jobs>>

\* Notifications are queued; a failure to queue is logged and swallowed.
\* Manual bookings send no SMS.
Notify(r) ==
  LET q == req[r]
      kinds == IF q.op = "create" THEN {"email", "sms"} ELSE {"email"}
  IN /\ q.pc = "notify"
     /\ \E K \in IF "queue" \in Disruptions THEN SUBSET kinds ELSE {kinds} :
          jobs' = jobs \cup {[booking |-> q.target, kind |-> k] : k \in K}
     /\ Finish(r)
     /\ UNCHANGED <<docs, world, lapses>>

----------------------------------------------------------------------------
\* update, cancelBooking, completeBooking and remove: load, check, save.

\* The booking is loaded.  Its customer needs no further read, except to
\* complete; anybody else is looked up as the owner of the business first.
\* A request that is refused here has changed nothing and is not shown.
Load(r, op, u, b, patch) ==
  LET seen == Hydrate(status[b])
      direct == op # "complete" /\ u = customer[b]
  IN /\ Idle(r)
     /\ op \in Ops \ {"create", "manual"}
     /\ status[b] # "absent"
     /\ b \notin deleted
     /\ patch \in IF op = "update" THEN PatchStatuses ELSE {NoStatus}
     /\ direct => Permitted(op, seen, patch)
     /\ req' = [req EXCEPT ![r] =
          [pc |-> IF direct THEN "save" ELSE "authorise", op |-> op, user |-> u,
           target |-> b, cart |-> <<>>, item |-> 1, patch |-> patch,
           seen |-> seen]]
     /\ UNCHANGED <<docs, world, jobs, lapses>>

\* The business is read; only its owner goes on, and only past the check of
\* the status that was loaded.
Authorise(r) ==
  LET q == req[r] IN
  /\ q.pc = "authorise"
  /\ IF bizOpen /\ q.user = Owner /\ Permitted(q.op, q.seen, q.patch)
       THEN Goto(r, "save")
       ELSE Finish(r)
  /\ UNCHANGED <<docs, world, jobs, lapses>>

\* A save that replaces the document with the one the request loaded.
SaveWhole(r) ==
  LET q == req[r]
      b == q.target
  IN /\ q.pc = "save"
     /\ status' = [status EXCEPT ![b] = NewStatus(q, @)]
     /\ stamps' = [stamps EXCEPT ![b] = @ \cup NewStamps(q)]
     /\ deleted' = IF q.op = "remove" THEN deleted \cup {b} ELSE deleted \ {b}
     /\ lapses' = [lapses EXCEPT ![b] = @ \cup LapseOf(NewStatus(q, status[b]))]
     /\ Finish(r)
     /\ UNCHANGED <<customer, booked, world, jobs>>

Save(r) ==
  LET q == req[r]
      b == q.target
  IN /\ q.pc = "save"
     /\ status' = [status EXCEPT ![b] = NewStatus(q, @)]
     /\ stamps' = [stamps EXCEPT ![b] = @ \cup NewStamps(q)]
     /\ deleted' = IF q.op = "remove" THEN deleted \cup {b} ELSE deleted
     /\ lapses' = [lapses EXCEPT ![b] = @ \cup LapseOf(NewStatus(q, status[b]))]
     /\ Finish(r)
     /\ UNCHANGED <<customer, booked, world, jobs>>

----------------------------------------------------------------------------
\* What other modules and the passing of time do to what this one reads.

\* StaffService activates, deactivates or removes a provider.
ChangeStaff(p) ==
  /\ "staff" \in Disruptions
  /\ serving' = IF p \in serving THEN serving \ {p} ELSE serving \cup {p}
  /\ UNCHANGED <<docs, bizOpen, clock, jobs, lapses, req>>

\* AdminService hard-deletes the business.
DeleteBusiness ==
  /\ "business" \in Disruptions
  /\ bizOpen
  /\ bizOpen' = FALSE
  /\ UNCHANGED <<docs, serving, clock, jobs, lapses, req>>

Tick ==
  /\ clock < MaxClock
  /\ clock' = clock + 1
  /\ UNCHANGED <<docs, serving, bizOpen, jobs, lapses, req>>

----------------------------------------------------------------------------
Step(r) ==
  \/ \E op \in {"create", "manual"}, u \in Users, b \in Bookings, cart \in Carts :
       StartBooking(r, op, u, b, cart)
  \/ CheckProvider(r)
  \/ CheckSlot(r)
  \/ Insert(r)
  \/ Notify(r)
  \/ \E op \in Endpoints, u \in Users, b \in Bookings, patch \in PatchStatuses \cup {NoStatus} :
       Load(r, op, u, b, patch)
  \/ Authorise(r)
  \/ Save(r)

Next ==
  \/ \E r \in Requests : Step(r)
  \/ \E p \in Providers : ChangeStaff(p)
  \/ DeleteBusiness
  \/ Tick

Spec == Init /\ [][Next]_vars

----------------------------------------------------------------------------
\* Properties.

\* Two bookings that hold the same provider at the same start time.
Clash(b1, b2) ==
  b1 # b2 /\ Occupies(b1) /\ Occupies(b2) /\ booked[b1] \cap booked[b2] # {}

\* No provider is booked twice at the same start time: what the conflict
\* query of create (and the duplicate check within one body) is there for.
SlotExclusive == \A b1, b2 \in Bookings : ~Clash(b1, b2)

\* With requests served one after the other, a slot is double-booked only
\* through the two doors the code leaves open: a manual booking, or a booking
\* whose status a PATCH without bookingStatus once unset, so that the conflict
\* query did not see it while the slot was given away.
Escaped(b) == lapses[b] \cap {"manual", "unset"} # {}

OnlyEscapedClash ==
  \A b1, b2 \in Bookings : Clash(b1, b2) => Escaped(b1) \/ Escaped(b2)

\* With creations served one at a time and every other request concurrent,
\* a slot is double-booked only by a manual booking, or by one that came back
\* to its slots after it had left the conflict query's sight: unset, or
\* cancelled, completed or a no-show under a save that overtook the other.
Revived(b) == Occupies(b) /\ lapses[b] # {}

OnlyRevivedClash ==
  \A b1, b2 \in Bookings : Clash(b1, b2) => Revived(b1) \/ Revived(b2)

\* However requests interleave, a booking past confirmation carries
\* confirmedAt, a completed one completedAt and a cancelled one cancelledAt.
StampsWitnessStatus ==
  \A b \in Bookings :
    /\ status[b] \in {"confirmed", "in_progress", "completed", "no_show"}
         => "confirmedAt" \in stamps[b]
    /\ StampOf(status[b]) \subseteq stamps[b]

\* No request, also none that loaded the booking before its removal, brings
\* a removed booking back, takes a timestamp away or moves it to other slots.
KeepsRecord ==
  /\ deleted \subseteq deleted'
  /\ \A b \in Bookings : status[b] # "absent" =>
       /\ status'[b] # "absent"
       /\ booked'[b] = booked[b]
       /\ customer'[b] = customer[b]
       /\ stamps[b] \subseteq stamps'[b]

RemovalIsFinal == [][KeepsRecord]_vars

\* What the local state of a request in flight says of its booking, however
\* the requests interleave.  StampsWitnessStatus is inductive together with it.
Preparing(r) == req[r].pc \in {"provider", "slot", "insert"}
Changing(r) == req[r].pc \in {"authorise", "save"}

Evidence(st, S) ==
  st \in {"confirmed", "in_progress", "completed", "no_show"} => "confirmedAt" \in S

RequestInv ==
  \A r \in Requests :
    /\ Preparing(r) =>
         /\ status[req[r].target] = "absent"
         /\ \A x \in Requests \ {r} : Idle(x) \/ req[x].target # req[r].target
    /\ Changing(r) =>
         /\ status[req[r].target] # "absent"
         /\ req[r].op \notin {"create", "manual"}
         /\ Evidence(req[r].seen, stamps[req[r].target])
    /\ req[r].pc = "save" => Permitted(req[r].op, req[r].seen, req[r].patch)

\* The calendar this module implements when requests do not overlap.
Calendar == INSTANCE BookingCalendar WITH
  life <- status,
  holds <- booked,
  hidden <- deleted

ImplementsCalendar == Calendar!Spec
============================================================================
