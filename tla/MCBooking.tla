----------------------------- MODULE MCBooking -----------------------------
(***************************************************************************)
(* Instances of Booking for TLC.  A run looks at the module in one or two  *)
(* scopes, each wide in one respect and narrow in the others; the scope is *)
(* chosen at the start.                                                    *)
(***************************************************************************)
EXTENDS Booking, TLC

CONSTANTS c1, c2, owner, p1, r1, r2, b1, b2, b3, Scopes

VARIABLE scope

\* p1 works at times 1 and 2.
OneScheduled == {p1} \X {1}
AllScheduled == {p1} \X {1, 2}

AllPatches == Statuses \cup {NoStatus}

\* What the requests of a scope are, who books, how many bookings they make,
\* and whether the world around them moves: "lives" has every endpoint and
\* status on two bookings at one time; "bodies" has items at two times while
\* staff and clock change; "records" has every endpoint and status on one
\* booking; in "slots" two bookings leave one slot and come back to it.
Limits ==
  [lives   |-> [ops |-> Endpoints, patches |-> AllPatches, items |-> 1,
                times |-> {1}, bookings |-> 2, clients |-> Users, moves |-> FALSE],
   bodies  |-> [ops |-> Endpoints \ {"complete", "remove"},
                patches |-> {NoStatus, "confirmed", "no_show"}, items |-> 2,
                times |-> Times, bookings |-> 2, clients |-> Users, moves |-> TRUE],
   records |-> [ops |-> Endpoints, patches |-> AllPatches, items |-> 1,
                times |-> {1}, bookings |-> 1, clients |-> Users, moves |-> TRUE],
   slots   |-> [ops |-> Endpoints \ {"complete", "remove"},
                patches |-> {NoStatus, "confirmed"}, items |-> 1,
                times |-> {1}, bookings |-> 2, clients |-> Customers, moves |-> FALSE]]

Within(limit) ==
  /\ \A r \in Requests : req[r].pc # "idle" =>
       /\ req[r].op \in limit.ops
       /\ req[r].patch \in limit.patches
       /\ req[r].op = "create" => req[r].user \in limit.clients
       /\ Len(req[r].cart) <= limit.items
       /\ \A s \in CartSlots(req[r].cart) : s[2] \in limit.times
  /\ Cardinality({b \in Bookings : status[b] # "absent"}
                 \cup {req[r].target : r \in {x \in Requests : Preparing(x)}})
       <= limit.bookings

ScopedInit == Init /\ scope \in Scopes

ScopedNext ==
  /\ Next
  /\ UNCHANGED scope
  /\ Limits[scope].moves \/ UNCHANGED world
  /\ Within(Limits[scope])'

ScopedSpec == ScopedInit /\ [][ScopedNext]_<<vars, scope>>

BookingSymmetry == Permutations(Bookings)
============================================================================
