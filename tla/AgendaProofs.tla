---------------------------- MODULE AgendaProofs ----------------------------
(***************************************************************************)
(* Proofs about Agenda and Dashboards, for any staff, shifts, services,    *)
(* bookings and time zone.                                                 *)
(***************************************************************************)
EXTENDS Dashboards, FiniteSetTheorems, TLAPS

Statuses == {"none", "active", "completed", "cancelled", "deleted"}

Appointment == [service : Services, provider : Staff, at : Nat]

Document == [status : Statuses, items : Carts \cup {<< >>}]

BookingsFit ==
  /\ booking \in [Bookings -> Document]
  /\ doneOn \in [Bookings -> SUBSET Int]
  /\ \A b \in Bookings :
       /\ booking[b].status = "none" => booking[b].items = << >>
       /\ booking[b].status = "completed" => doneOn[b] # {}
       /\ booking[b].status \in {"none", "active", "cancelled"} => doneOn[b] = {}

DaysPast == \A b \in Bookings : \A d \in doneOn[b] : d <= Day(now)

AgendaParts ==
  /\ now \in 0..Horizon /\ offset \in Offsets
  /\ offered \subseteq Services /\ active \subseteq Staff /\ removed \subseteq Staff
  /\ BookingsFit /\ DaysPast

LEMMA AgendaTypeParts ==
  (AgendaTypeOK <=> AgendaParts) /\ (AgendaTypeOK' <=> AgendaParts')
BY DEF AgendaTypeOK, AgendaParts, BookingsFit, DaysPast, Document, Statuses

\* Days do not go back.
LEMMA DivGrows ==
  ASSUME NEW a \in Int, NEW b \in Int, NEW d \in Nat \ {0}, a <= b
  PROVE  a \div d <= b \div d
<1> DEFINE q == a \div d  r == b \div d
<1>1. q \in Int /\ r \in Int /\ a >= d * q /\ b < d * r + d
  OBVIOUS
<1> HIDE DEF q, r
<1>2. SUFFICES ASSUME r + 1 <= q PROVE FALSE
  BY <1>1 DEF q, r
<1>3. d * (q - (r + 1)) >= 0
  BY <1>1, <1>2
<1>4. d * (q - (r + 1)) = d * q - (d * r + d)
  BY <1>1
<1>5. d * q \in Int /\ d * r \in Int
  BY <1>1
<1>6. QED BY <1>1, <1>3, <1>4, <1>5

LEMMA DayType ==
  ASSUME AgendaParts, NEW t \in Int
  PROVE  Day(t) \in Int
BY AgendaAssumption DEF AgendaParts, Day

----------------------------------------------------------------------------
(* Type correctness. *)

LEMMA AgendaTypeInit == AgendaInit => AgendaParts
<1> SUFFICES ASSUME AgendaInit PROVE AgendaParts
  OBVIOUS
<1>1. /\ now \in 0..Horizon /\ offset \in Offsets
      /\ offered \subseteq Services /\ active \subseteq Staff /\ removed \subseteq Staff
  BY AgendaAssumption DEF AgendaInit
<1>2. NoBooking \in Document /\ NoBooking.status = "none" /\ NoBooking.items = << >>
  BY DEF NoBooking, Document, Statuses
<1>3. booking = [b \in Bookings |-> NoBooking] /\ doneOn = [b \in Bookings |-> {}]
  BY DEF AgendaInit
<1>4. BookingsFit /\ DaysPast
  BY <1>2, <1>3 DEF BookingsFit, DaysPast
<1>5. QED BY <1>1, <1>4 DEF AgendaParts

\* A booking becomes p.
LEMMA BookingMove ==
  ASSUME AgendaParts, NEW b \in Bookings, NEW p \in Document,
         booking' = [booking EXCEPT ![b] = p],
         p.status # "none", p.status = "completed" => doneOn[b] # {},
         p.status \in {"active", "cancelled"} => doneOn[b] = {},
         UNCHANGED <<now, offset, offered, active, removed, doneOn>>
  PROVE  AgendaParts'
<1>1. booking' \in [Bookings -> Document]
  BY DEF AgendaParts, BookingsFit
<1>2. booking'[b] = p /\ \A c \in Bookings : c # b => booking'[c] = booking[c]
  BY DEF AgendaParts, BookingsFit
<1>3. BookingsFit'
  BY <1>1, <1>2 DEF AgendaParts, BookingsFit
<1>4. DaysPast'
  BY DEF AgendaParts, DaysPast, Day
<1>5. QED BY <1>3, <1>4 DEF AgendaParts

LEMMA StatusType ==
  ASSUME AgendaParts, NEW b \in Bookings, NEW status \in Statuses
  PROVE  /\ [booking[b] EXCEPT !.status = status] \in Document
         /\ [booking[b] EXCEPT !.status = status].status = status
BY DEF AgendaParts, BookingsFit, Document

LEMMA CompleteMove ==
  ASSUME AgendaParts, NEW b \in Bookings, Complete(b)
  PROVE  AgendaParts'
<1> DEFINE p == [booking[b] EXCEPT !.status = "completed"]
<1>1. /\ booking' = [booking EXCEPT ![b] = p]
      /\ doneOn' = [doneOn EXCEPT ![b] = {Day(now)}]
      /\ UNCHANGED <<now, offset, offered, active, removed>>
  BY DEF Complete
<1>2. p \in Document /\ p.status = "completed"
  BY StatusType DEF Statuses
<1> HIDE DEF p
<1>3. Day(now) \in Int
  BY AgendaAssumption, DayType DEF AgendaParts
<1>4. /\ booking' \in [Bookings -> Document]
      /\ booking'[b] = p /\ \A c \in Bookings : c # b => booking'[c] = booking[c]
  BY <1>1, <1>2 DEF AgendaParts, BookingsFit
<1>5. /\ doneOn' \in [Bookings -> SUBSET Int]
      /\ doneOn'[b] = {Day(now)} /\ \A c \in Bookings : c # b => doneOn'[c] = doneOn[c]
  BY <1>1, <1>3 DEF AgendaParts, BookingsFit
<1>6. BookingsFit'
  BY <1>2, <1>4, <1>5 DEF AgendaParts, BookingsFit
<1>7. Day(now)' = Day(now)
  BY <1>1 DEF Day
<1>8. DaysPast'
  BY <1>3, <1>5, <1>7 DEF AgendaParts, DaysPast
<1>9. QED BY <1>1, <1>6, <1>8 DEF AgendaParts

LEMMA AgendaTypeStep == AgendaParts /\ [AgendaNext]_agendaVars => AgendaParts'
<1> SUFFICES ASSUME AgendaParts, [AgendaNext]_agendaVars PROVE AgendaParts'
  OBVIOUS
<1>1. ASSUME NEW b \in Bookings, NEW cart \in Carts, Book(b, cart) PROVE AgendaParts'
  <2>1. [status |-> "active", items |-> cart] \in Document
    BY DEF Document, Statuses
  <2>2. doneOn[b] = {}
    BY <1>1 DEF Book, AgendaParts, BookingsFit
  <2>3. QED BY <1>1, <2>1, <2>2, BookingMove DEF Book
<1>2. ASSUME NEW b \in Bookings, Complete(b) PROVE AgendaParts'
  BY <1>2, CompleteMove
<1>3. ASSUME NEW b \in Bookings, Cancel(b) PROVE AgendaParts'
  <2>1. /\ [booking[b] EXCEPT !.status = "cancelled"] \in Document
        /\ [booking[b] EXCEPT !.status = "cancelled"].status = "cancelled"
    BY StatusType DEF Statuses
  <2>2. doneOn[b] = {}
    BY <1>3 DEF Cancel, AgendaParts, BookingsFit
  <2>3. booking' = [booking EXCEPT ![b] = [booking[b] EXCEPT !.status = "cancelled"]]
    BY <1>3 DEF Cancel
  <2>4. QED BY <1>3, <2>1, <2>2, <2>3, BookingMove DEF Cancel
<1>4. ASSUME NEW b \in Bookings, Delete(b) PROVE AgendaParts'
  <2>1. /\ [booking[b] EXCEPT !.status = "deleted"] \in Document
        /\ [booking[b] EXCEPT !.status = "deleted"].status = "deleted"
    BY StatusType DEF Statuses
  <2>2. booking' = [booking EXCEPT ![b] = [booking[b] EXCEPT !.status = "deleted"]]
    BY <1>4 DEF Delete
  <2>3. QED BY <1>4, <2>1, <2>2, BookingMove DEF Delete
<1>5. ASSUME NEW s \in Services, Withdraw(s) PROVE AgendaParts'
  BY <1>5 DEF Withdraw, AgendaParts, BookingsFit, DaysPast, Day
<1>6. ASSUME NEW p \in Staff, ToggleStaff(p) PROVE AgendaParts'
  BY <1>6 DEF ToggleStaff, AgendaParts, BookingsFit, DaysPast, Day
<1>10. ASSUME NEW p \in Staff, RemoveStaff(p) PROVE AgendaParts'
  BY <1>10 DEF RemoveStaff, AgendaParts, BookingsFit, DaysPast, Day
<1>7. CASE Tick
  <2>1. /\ now' = now + 1 /\ now' \in 0..Horizon /\ offset' = offset
        /\ UNCHANGED <<offered, active, removed, booking, doneOn>>
    BY <1>7, AgendaAssumption DEF Tick, AgendaParts
  <2>2. now + offset \in Int /\ now + 1 + offset \in Int /\ now + offset <= now + 1 + offset
    BY AgendaAssumption DEF AgendaParts
  <2>3. Day(now) <= Day(now)'
    BY <2>1, <2>2, DivGrows, AgendaAssumption DEF Day
  <2>4. Day(now) \in Int /\ Day(now)' \in Int
    BY <2>1, <2>2, AgendaAssumption DEF Day
  <2>5. BookingsFit'
    BY <2>1 DEF AgendaParts, BookingsFit
  <2>6. DaysPast'
    <3>1. SUFFICES ASSUME NEW b \in Bookings, NEW d \in doneOn[b] PROVE d <= Day(now)'
      BY <2>1 DEF DaysPast
    <3>2. d \in Int /\ d <= Day(now)
      BY DEF AgendaParts, BookingsFit, DaysPast
    <3>3. QED BY <2>3, <2>4, <3>2
  <2>7. QED BY <2>1, <2>5, <2>6 DEF AgendaParts
<1>8. CASE UNCHANGED agendaVars
  BY <1>8 DEF agendaVars, AgendaParts, BookingsFit, DaysPast, Day
<1>9. QED BY <1>1, <1>2, <1>3, <1>4, <1>5, <1>6, <1>7, <1>8, <1>10 DEF AgendaNext

\* Type correctness of every reachable agenda: no completion is stamped with a
\* day to come, in whichever time zone the server runs, and nothing but a
\* completion, also one that was deleted later, is stamped.
THEOREM AgendaTyping == AgendaSpec => []AgendaTypeOK
<1>1. AgendaSpec => []AgendaParts
  BY AgendaTypeInit, AgendaTypeStep, PTL DEF AgendaSpec
<1>2. QED BY <1>1, AgendaTypeParts, PTL

----------------------------------------------------------------------------
(* What the services read out of it. *)

LEMMA EntryType ==
  ASSUME AgendaParts, NEW statuses, NEW e \in Entries(statuses)
  PROVE  e.service \in Services /\ e.provider \in Staff /\ e.at \in Nat
<1>1. PICK b \in Bookings : \E i \in DOMAIN booking[b].items :
        e = [booking |-> b, index |-> i, service |-> booking[b].items[i].service,
             provider |-> booking[b].items[i].provider, at |-> booking[b].items[i].at]
  BY DEF Entries
<1>2. PICK i \in DOMAIN booking[b].items :
        e = [booking |-> b, index |-> i, service |-> booking[b].items[i].service,
             provider |-> booking[b].items[i].provider, at |-> booking[b].items[i].at]
  BY <1>1
<1>3. booking[b].items \in Seq(Appointment)
  <2>1. booking[b].items \in Carts \cup {<< >>}
    BY DEF AgendaParts, BookingsFit, Document
  <2>2. \A cart \in Carts : cart \in Seq(Appointment)
    BY AgendaAssumption DEF Appointment
  <2>3. QED BY <2>1, <2>2
<1>4. booking[b].items[i] \in Appointment
  BY <1>2, <1>3
<1>5. QED BY <1>2, <1>4 DEF Appointment

LEMMA DurationType ==
  ASSUME NEW s \in Services
  PROVE  StaffDuration(s) \in Nat /\ BusinessDuration(s) \in Nat
<1>1. Catalogue[s] \in [form : Forms, length : Nat, price : Nat]
  BY AgendaAssumption
<1>2. QED BY <1>1, AgendaAssumption DEF StaffDuration, BusinessDuration, Minutes, Forms

LEMMA FreeStep == AgendaParts => AvailableIsFree
<1> SUFFICES ASSUME AgendaParts, NEW s \in offered, NEW t \in 0..Horizon,
                    WithinDay(t, StaffDuration(s)),
                    NEW p \in Available(s, t), NEW e \in Known(Pending),
                    e.provider = p, WithinDay(e.at, StaffDuration(e.service)),
                    NEW x \in Int, x \in Taken(e.at, StaffDuration(e.service)),
                    x \in Taken(t, StaffDuration(s))
             PROVE  FALSE
  <2>1. \A a, n : Taken(a, n) \subseteq Int
    BY DEF Taken
  <2>2. QED BY <2>1 DEF AvailableIsFree
<1>1. s \in Services /\ StaffDuration(s) \in Nat
  BY DurationType DEF AgendaParts
<1>2. e \in Pending /\ e.service \in offered /\ e.service \in Services /\ e.at \in Nat
  BY EntryType DEF Pending, Known
<1>3. StaffDuration(e.service) \in Nat /\ Length(e) = StaffDuration(e.service)
  BY <1>2, DurationType DEF Length
<1>4. ~(Day(e.at) = Day(t) /\ Overlaps(e, s, t))
  BY <1>2 DEF Available, Busy
<1>5. Day(x) = Day(e.at) /\ Day(x) = Day(t)
  BY DEF WithinDay
<1>6. ~Overlaps(e, s, t)
  BY <1>4, <1>5
<1>7. QED BY <1>1, <1>2, <1>3, <1>6, AgendaAssumption DEF Overlaps, Taken

\* A member who is offered for a service is free for the whole of it, where
\* neither the service nor an appointment crosses midnight: for whatever is
\* booked or switched off.  An appointment whose own service was removed from
\* the catalogue is excepted.
THEOREM OfferedAreFree == AgendaSpec => []AvailableIsFree
<1>1. AgendaSpec => []AgendaParts
  BY AgendaTypeInit, AgendaTypeStep, PTL DEF AgendaSpec
<1>2. QED BY <1>1, FreeStep, PTL

LEMMA NoSlip == AgendaParts => NothingSlips
<1> SUFFICES ASSUME AgendaParts, NEW e \in Known(Pending),
                    e.at <= now + Soon, e \notin Upcoming
             PROVE  /\ now < e.at + BusinessDuration(e.service) => e.provider \in DutyCount
                    /\ now < e.at + StaffDuration(e.service) /\ e.provider \in Working
                         => e.provider \in OnDuty
  BY DEF NothingSlips
<1>1. e \in Pending /\ e.service \in offered
  BY DEF Known
<1>2. e.service \in Services /\ e.at \in Nat /\ now \in Nat
  BY <1>1, EntryType, AgendaAssumption DEF Pending, AgendaParts
<1>3. e.at <= now
  BY <1>2 DEF Upcoming
<1>4. ASSUME now < e.at + BusinessDuration(e.service) PROVE e.provider \in DutyCount
  BY <1>3, <1>4 DEF DutyCount, UnderWay
<1>5. ASSUME now < e.at + StaffDuration(e.service), e.provider \in Working
      PROVE  e.provider \in OnDuty
  <2>1. Length(e) = StaffDuration(e.service)
    BY <1>1 DEF Length
  <2>2. UnderWay(e, Length(e))
    BY <1>3, <1>5, <2>1 DEF UnderWay
  <2>3. QED BY <1>1, <1>5, <2>2 DEF OnDuty
<1>6. QED BY <1>4, <1>5

\* An appointment that is about to begin or under way is on one of the lists
\* of either page, for as long as that page takes it to last; except for
\* members who do not work and services that were removed.
THEOREM AppointmentsAreListed == AgendaSpec => []NothingSlips
<1>1. AgendaSpec => []AgendaParts
  BY AgendaTypeInit, AgendaTypeStep, PTL DEF AgendaSpec
<1>2. QED BY <1>1, NoSlip, PTL

LEMMA DurationsDiffer ==
  ASSUME NEW s \in Services, StaffDuration(s) # BusinessDuration(s)
  PROVE  Catalogue[s].form = "clock"
<1>1. Catalogue[s].form \in Forms
  BY AgendaAssumption
<1>2. QED BY <1>1 DEF StaffDuration, BusinessDuration, Forms

LEMMA DutyStep == AgendaParts => DutyAgrees
<1> SUFFICES ASSUME AgendaParts, NEW p \in Working, (p \in OnDuty) # (p \in DutyCount)
             PROVE  \E e \in Pending : e.provider = p /\ ReadDifferently(e)
  BY DEF DutyAgrees
<1>1. ASSUME NEW e \in Pending PROVE e.service \in Services
  BY <1>1, EntryType DEF Pending
<1>2. CASE p \in OnDuty /\ p \notin DutyCount
  <2>1. PICK e \in Pending : e.provider = p /\ UnderWay(e, Length(e))
    BY <1>2 DEF OnDuty
  <2>2. CASE e.service \notin offered
    BY <2>1, <2>2 DEF Length, ReadDifferently
  <2>3. CASE e.service \in offered
    <3>1. UnderWay(e, StaffDuration(e.service))
      BY <2>1, <2>3 DEF Length
    <3>2. ~UnderWay(e, BusinessDuration(e.service))
      BY <1>2, <2>1, <2>3 DEF DutyCount, Known
    <3>3. Catalogue[e.service].form = "clock"
      BY <1>1, <3>1, <3>2, DurationsDiffer
    <3>4. QED BY <2>1, <3>1, <3>2, <3>3 DEF ReadDifferently
  <2>4. QED BY <2>2, <2>3
<1>3. CASE p \in DutyCount /\ p \notin OnDuty
  <2>1. PICK e \in Known(Pending) :
          e.provider = p /\ UnderWay(e, BusinessDuration(e.service))
    BY <1>3 DEF DutyCount
  <2>2. e \in Pending /\ e.service \in offered
    BY DEF Known
  <2>3. ~UnderWay(e, StaffDuration(e.service))
    BY <1>3, <2>1, <2>2 DEF OnDuty, Length
  <2>4. Catalogue[e.service].form = "clock"
    BY <1>1, <2>1, <2>2, <2>3, DurationsDiffer
  <2>5. QED BY <2>1, <2>2, <2>3, <2>4 DEF ReadDifferently
<1>4. QED BY <1>2, <1>3

\* For every catalogue, the two pages count the same members who work as on
\* duty, but for an item under way whose service was removed or whose length
\* only one of them can read.
THEOREM PagesAgreeOnDuty == AgendaSpec => []DutyAgrees
<1>1. AgendaSpec => []AgendaParts
  BY AgendaTypeInit, AgendaTypeStep, PTL DEF AgendaSpec
<1>2. QED BY <1>1, DutyStep, PTL

-----------------------------------------------------------------------------
(***************************************************************************)
(* Sums over finite sets. The recursion behind a sum is a CHOOSE of a      *)
(* function on the subsets of a set. That such a function exists, and what *)
(* it returns, is proved by induction over those subsets: the proper subsets *)
(* of a finite set are well founded, and "holds of T" is "T is in Good".   *)
(***************************************************************************)

\* The element a sum of the community modules takes next.
Pick(T) == CHOOSE x \in T : TRUE

\* g[T] is the sum of w over T, for every subset T of S.
Sums(g, w, S) ==
  g = [T \in SUBSET S |-> IF T = {} THEN 0 ELSE w[Pick(T)] + g[T \ {Pick(T)}]]

Solution(w, S) == CHOOSE g : Sums(g, w, S)

Total(w, S) == Solution(w, S)[S]

\* Induction over the subsets of a finite set.
LEMMA SubsetInduction ==
  ASSUME NEW S, IsFiniteSet(S), NEW Good,
         \A T \in SUBSET S : (\A U \in SUBSET T : U # T => U \in Good) => T \in Good
  PROVE  SUBSET S \subseteq Good
<1> SUFFICES ASSUME ~(SUBSET S \subseteq Good) PROVE FALSE
  OBVIOUS
<1> DEFINE Bad == (SUBSET S) \ Good
<1>1. IsWellFoundedOn(StrictSubsetOrdering(S), SUBSET S)
  <2>1. FiniteSubsetsOf(S) = SUBSET S
    BY FS_FiniteSubsetsOfFinite
  <2>2. IsWellFoundedOn(StrictSubsetOrdering(S), FiniteSubsetsOf(S))
    BY FS_StrictSubsetOrderingWellFounded
  <2>3. QED BY <2>1, <2>2
<1>2. Bad # {} /\ Bad \subseteq SUBSET S
  OBVIOUS
<1> HIDE DEF Bad
<1>3. PICK T \in Bad : \A U \in Bad : <<U, T>> \notin StrictSubsetOrdering(S)
  BY <1>1, <1>2, WFMin
<1>4. ASSUME NEW U \in SUBSET T, U # T PROVE U \in Good
  <2>1. U \in SUBSET S /\ T \in SUBSET S
    BY <1>2, <1>3
  <2>2. <<U, T>> \in StrictSubsetOrdering(S)
    BY <1>4, <2>1 DEF StrictSubsetOrdering
  <2>3. QED BY <1>3, <2>1, <2>2 DEF Bad
<1>5. QED BY <1>3, <1>4 DEF Bad

LEMMA PickIn == ASSUME NEW T, T # {} PROVE Pick(T) \in T
BY DEF Pick

\* Two functions that follow the recursion agree at the smaller domain's top.
LEMMA SumsAgree ==
  ASSUME NEW w, NEW A, NEW B, IsFiniteSet(B), B \subseteq A, NEW g, NEW h,
         Sums(g, w, A), Sums(h, w, B)
  PROVE  g[B] = h[B]
<1> DEFINE Good == {U \in SUBSET B : g[U] = h[U]}
<1>1. ASSUME NEW T \in SUBSET B, \A U \in SUBSET T : U # T => U \in Good
      PROVE  T \in Good
  <2>1. CASE T = {}
    BY <2>1 DEF Sums
  <2>2. CASE T # {}
    <3> DEFINE V == T \ {Pick(T)}
    <3>1. V \in SUBSET T /\ V # T
      BY <2>2, PickIn
    <3>2. g[V] = h[V]
      BY <1>1, <3>1
    <3>3. g[T] = w[Pick(T)] + g[V] /\ h[T] = w[Pick(T)] + h[V]
      <4>1. T \in SUBSET A /\ T \in SUBSET B
        OBVIOUS
      <4>2. QED BY <2>2, <4>1 DEF Sums
    <3>4. QED BY <3>2, <3>3
  <2>3. QED BY <2>1, <2>2
<1> HIDE DEF Good
<1>2. SUBSET B \subseteq Good
  BY <1>1, SubsetInduction
<1>3. B \in SUBSET B
  OBVIOUS
<1>4. QED BY <1>2, <1>3 DEF Good

\* Total follows the recursion wherever some function does.
LEMMA TotalAgrees ==
  ASSUME NEW w, NEW S, IsFiniteSet(S), NEW g, Sums(g, w, S),
         NEW U \in SUBSET S, Sums(Solution(w, U), w, U)
  PROVE  Total(w, U) = g[U]
<1>1. IsFiniteSet(U) /\ U \subseteq S
  BY FS_Subset
<1>2. g[U] = Solution(w, U)[U]
  BY <1>1, SumsAgree
<1>3. QED BY <1>2 DEF Total

\* The recursion behind a sum has a solution.
LEMMA SumsExist ==
  ASSUME NEW w, NEW S, IsFiniteSet(S)
  PROVE  Sums(Solution(w, S), w, S)
<1> DEFINE Good == {T \in SUBSET S : Sums(Solution(w, T), w, T)}
<1>1. ASSUME NEW T \in SUBSET S, \A U \in SUBSET T : U # T => U \in Good
      PROVE  T \in Good
  <2> DEFINE G == [U \in SUBSET T |-> IF U = {} THEN 0
                                      ELSE w[Pick(U)] + Total(w, U \ {Pick(U)})]
  <2>1. ASSUME NEW U \in SUBSET T, U # T PROVE Total(w, U) = G[U]
    <3> DEFINE g == Solution(w, U)
    <3>1. Sums(g, w, U)
      BY <1>1, <2>1
    <3>2. Total(w, U) = g[U] /\ U \in SUBSET U
      BY DEF Total
    <3>3. CASE U = {}
      <4>1. g[U] = 0
        BY <3>1, <3>2, <3>3 DEF Sums
      <4>2. QED BY <3>2, <3>3, <4>1
    <3>4. CASE U # {}
      <4> DEFINE V == U \ {Pick(U)}
      <4>1. g[U] = w[Pick(U)] + g[V]
        BY <3>1, <3>2, <3>4 DEF Sums
      <4>2. V \in SUBSET U /\ V \in SUBSET T /\ V # T /\ IsFiniteSet(U)
        BY <2>1, FS_Subset
      <4>3. Sums(Solution(w, V), w, V)
        BY <1>1, <4>2
      <4> HIDE DEF V, g
      <4>4. Total(w, V) = g[V]
        BY <3>1, <4>2, <4>3, TotalAgrees
      <4>5. QED BY <3>2, <3>4, <4>1, <4>4 DEF V
    <3>5. QED BY <3>3, <3>4
  <2>2. ASSUME NEW U \in SUBSET T, U # {}
        PROVE  Total(w, U \ {Pick(U)}) = G[U \ {Pick(U)}]
    <3>1. U \ {Pick(U)} \in SUBSET T /\ U \ {Pick(U)} # T
      BY <2>2, PickIn
    <3>2. QED BY <2>1, <3>1
  <2>3. G = [U \in SUBSET T |-> IF U = {} THEN 0 ELSE w[Pick(U)] + G[U \ {Pick(U)}]]
    BY <2>2
  <2>4. Sums(G, w, T)
    BY <2>3 DEF Sums
  <2>5. Sums(Solution(w, T), w, T)
    BY <2>4 DEF Solution
  <2>6. QED BY <2>5
<1> HIDE DEF Good
<1>2. SUBSET S \subseteq Good
  BY <1>1, SubsetInduction
<1>3. QED BY <1>2 DEF Good

LEMMA TotalUnfolds ==
  ASSUME NEW w, NEW S, IsFiniteSet(S)
  PROVE  Total(w, S) = IF S = {} THEN 0 ELSE w[Pick(S)] + Total(w, S \ {Pick(S)})
<1> DEFINE g == Solution(w, S)  V == S \ {Pick(S)}
<1>1. Sums(g, w, S)
  BY SumsExist
<1>2. V \in SUBSET S /\ S \in SUBSET S /\ IsFiniteSet(V)
  BY FS_Subset
<1>3. Total(w, S) = g[S] /\ g[S] = IF S = {} THEN 0 ELSE w[Pick(S)] + g[V]
  BY <1>1, <1>2 DEF Total, Sums
<1>4. Sums(Solution(w, V), w, V)
  BY <1>2, SumsExist
<1> HIDE DEF g, V
<1>5. Total(w, V) = g[V]
  BY <1>1, <1>2, <1>4, TotalAgrees
<1>6. QED BY <1>3, <1>5 DEF V

LEMMA TotalOfNothing == ASSUME NEW w PROVE Total(w, {}) = 0
<1>1. IsFiniteSet({})
  BY FS_EmptySet
<1>2. QED BY <1>1, TotalUnfolds

LEMMA TotalType ==
  ASSUME NEW S, IsFiniteSet(S), NEW w, \A x \in S : w[x] \in Nat
  PROVE  Total(w, S) \in Nat
<1> DEFINE Good == {T \in SUBSET S : Total(w, T) \in Nat}
<1>1. ASSUME NEW T \in SUBSET S, \A U \in SUBSET T : U # T => U \in Good
      PROVE  T \in Good
  <2>1. IsFiniteSet(T)
    BY FS_Subset
  <2>2. CASE T = {}
    BY <2>2, TotalOfNothing
  <2>3. CASE T # {}
    <3>1. Pick(T) \in T /\ T \ {Pick(T)} \in SUBSET T /\ T \ {Pick(T)} # T
      BY <2>3, PickIn
    <3>2. Total(w, T \ {Pick(T)}) \in Nat /\ w[Pick(T)] \in Nat
      BY <1>1, <3>1
    <3>3. Total(w, T) = w[Pick(T)] + Total(w, T \ {Pick(T)})
      BY <2>1, <2>3, TotalUnfolds
    <3>4. QED BY <3>2, <3>3
  <2>4. QED BY <2>2, <2>3
<1> HIDE DEF Good
<1>2. SUBSET S \subseteq Good
  BY <1>1, SubsetInduction
<1>3. QED BY <1>2 DEF Good

\* The order does not matter: any element may come first.
LEMMA TotalOfElement ==
  ASSUME NEW S, IsFiniteSet(S), NEW w, \A x \in S : w[x] \in Nat, NEW e \in S
  PROVE  Total(w, S) = w[e] + Total(w, S \ {e})
<1> DEFINE Good == {T \in SUBSET S : \A x \in T : Total(w, T) = w[x] + Total(w, T \ {x})}
<1>1. ASSUME NEW T \in SUBSET S, \A U \in SUBSET T : U # T => U \in Good,
             NEW x \in T
      PROVE  Total(w, T) = w[x] + Total(w, T \ {x})
  <2> DEFINE p == Pick(T)
  <2>1. p \in T /\ IsFiniteSet(T)
    BY PickIn, FS_Subset
  <2>2. Total(w, T) = w[p] + Total(w, T \ {p})
    BY <2>1, TotalUnfolds
  <2>3. CASE x = p
    BY <2>2, <2>3
  <2>4. CASE x # p
    <3> HIDE DEF p
    <3>1. /\ x \in T \ {p} /\ p \in T \ {x} /\ T \ {p} \in SUBSET T /\ T \ {x} \in SUBSET T
          /\ T \ {p} # T /\ T \ {x} # T /\ (T \ {p}) \ {x} = (T \ {x}) \ {p}
      BY <2>1, <2>4
    <3> DEFINE R == (T \ {x}) \ {p}
    <3>2. Total(w, T \ {p}) = w[x] + Total(w, R)
      BY <1>1, <3>1
    <3>3. Total(w, T \ {x}) = w[p] + Total(w, R)
      BY <1>1, <3>1
    <3>4. w[x] \in Nat /\ w[p] \in Nat /\ IsFiniteSet(R) /\ \A y \in R : w[y] \in Nat
      BY <2>1, FS_Subset
    <3>5. Total(w, R) \in Nat
      BY <3>4, TotalType
    <3> HIDE DEF R
    <3>6. QED BY <2>2, <3>2, <3>3, <3>4, <3>5
  <2>5. QED BY <2>3, <2>4
<1>2. \A T \in SUBSET S : (\A U \in SUBSET T : U # T => U \in Good) => T \in Good
  BY <1>1
<1> HIDE DEF Good
<1>3. SUBSET S \subseteq Good
  BY <1>2, SubsetInduction
<1>4. QED BY <1>3 DEF Good

\* The sum over two disjoint sets.
LEMMA TotalOfUnion ==
  ASSUME NEW A, IsFiniteSet(A), NEW S, IsFiniteSet(S), A \cap S = {},
         NEW w, \A x \in A \cup S : w[x] \in Nat
  PROVE  Total(w, A \cup S) = Total(w, A) + Total(w, S)
<1> DEFINE Good == {T \in SUBSET S : Total(w, A \cup T) = Total(w, A) + Total(w, T)}
<1>1. ASSUME NEW T \in SUBSET S, \A U \in SUBSET T : U # T => U \in Good
      PROVE  T \in Good
  <2>1. Total(w, A) \in Nat
    BY TotalType
  <2>2. CASE T = {}
    <3>1. Total(w, {}) = 0 /\ A \cup T = A
      BY <2>2, TotalOfNothing
    <3>2. QED BY <2>1, <2>2, <3>1
  <2>3. CASE T # {}
    <3> DEFINE p == Pick(T)  R == T \ {p}
    <3>1. p \in T /\ R \in SUBSET T /\ R # T
      BY <2>3, PickIn
    <3> HIDE DEF p
    <3>2. Total(w, A \cup R) = Total(w, A) + Total(w, R)
      BY <1>1, <3>1
    <3>3. IsFiniteSet(T) /\ IsFiniteSet(R) /\ IsFiniteSet(A \cup T) /\ (A \cup T) \ {p} = A \cup R
      BY <3>1, FS_Subset, FS_Union
    <3>4. Total(w, T) = w[p] + Total(w, R)
      BY <3>1, <3>3, TotalOfElement
    <3>5. p \in A \cup T /\ \A x \in A \cup T : w[x] \in Nat
      BY <3>1
    <3>6. Total(w, A \cup T) = w[p] + Total(w, A \cup R)
      BY <3>3, <3>5, TotalOfElement
    <3>7. Total(w, R) \in Nat /\ w[p] \in Nat
      BY <3>1, <3>3, TotalType
    <3>8. QED BY <2>1, <3>2, <3>4, <3>6, <3>7
  <2>4. QED BY <2>2, <2>3
<1> HIDE DEF Good
<1>2. SUBSET S \subseteq Good
  BY <1>1, SubsetInduction
<1>3. QED BY <1>2 DEF Good

\* The sum over a part and over the rest of a set.
LEMMA TotalOfPart ==
  ASSUME NEW S, IsFiniteSet(S), NEW w, \A x \in S : w[x] \in Nat, NEW A \in SUBSET S
  PROVE  Total(w, A) <= Total(w, S) /\ Total(w, S) = Total(w, A) + Total(w, S \ A)
<1>1. /\ IsFiniteSet(A) /\ IsFiniteSet(S \ A) /\ A \cap (S \ A) = {} /\ A \cup (S \ A) = S
      /\ \A x \in A \cup (S \ A) : w[x] \in Nat
  BY FS_Subset
<1>2. Total(w, A) \in Nat /\ Total(w, S \ A) \in Nat
  BY <1>1, TotalType
<1>3. Total(w, S) = Total(w, A) + Total(w, S \ A)
  BY <1>1, TotalOfUnion
<1>4. QED BY <1>2, <1>3

Whole(part, J) == UNION {part[i] : i \in J}

\* The sum of the sums over disjoint parts is the sum over the whole.
LEMMA TotalOfParts ==
  ASSUME NEW I, IsFiniteSet(I), NEW S, IsFiniteSet(S), NEW part \in [I -> SUBSET S],
         \A i, j \in I : i # j => part[i] \cap part[j] = {},
         NEW w, \A x \in S : w[x] \in Nat,
         NEW v, \A i \in I : v[i] = Total(w, part[i])
  PROVE  Total(v, I) = Total(w, UNION {part[i] : i \in I})
<1> DEFINE Good == {J \in SUBSET I : Total(v, J) = Total(w, Whole(part, J))}
<1>1. ASSUME NEW J \in SUBSET I, \A K \in SUBSET J : K # J => K \in Good
      PROVE  J \in Good
  <2>1. CASE J = {}
    <3>1. Whole(part, J) = {}
      BY <2>1 DEF Whole
    <3>2. Total(v, {}) = 0 /\ Total(w, {}) = 0
      BY TotalOfNothing
    <3>3. QED BY <2>1, <3>1, <3>2
  <2>2. CASE J # {}
    <3> DEFINE p == Pick(J)  K == J \ {p}
    <3>1. p \in J /\ K \in SUBSET J /\ K # J /\ p \in I
      BY <2>2, PickIn
    <3> HIDE DEF p
    <3>2. Total(v, K) = Total(w, Whole(part, K))
      BY <1>1, <3>1
    <3>3. Whole(part, J) = part[p] \cup Whole(part, K) /\ part[p] \cap Whole(part, K) = {}
      BY <3>1 DEF Whole
    <3>4. part[p] \in SUBSET S /\ Whole(part, K) \in SUBSET S
      BY <3>1 DEF Whole
    <3>5. IsFiniteSet(part[p]) /\ IsFiniteSet(Whole(part, K)) /\ IsFiniteSet(J)
      BY <3>4, FS_Subset
    <3>6. \A x \in part[p] \cup Whole(part, K) : w[x] \in Nat
      BY <3>4
    <3> DEFINE A == part[p]  B == Whole(part, K)
    <3>7. Total(w, Whole(part, J)) = Total(w, part[p]) + Total(w, Whole(part, K))
      <4>1. IsFiniteSet(A) /\ IsFiniteSet(B) /\ A \cap B = {} /\ \A x \in A \cup B : w[x] \in Nat
        BY <3>3, <3>5, <3>6
      <4>2. Whole(part, J) = A \cup B
        BY <3>3
      <4> HIDE DEF A, B
      <4>3. Total(w, A \cup B) = Total(w, A) + Total(w, B)
        BY <4>1, TotalOfUnion
      <4>4. QED BY <4>2, <4>3 DEF A, B
    <3>8. \A i \in J : v[i] \in Nat
      <4>1. SUFFICES ASSUME NEW i \in J PROVE Total(w, part[i]) \in Nat
        OBVIOUS
      <4>2. part[i] \in SUBSET S /\ IsFiniteSet(part[i]) /\ \A x \in part[i] : w[x] \in Nat
        BY FS_Subset
      <4>3. QED BY <4>2, TotalType
    <3>9. Total(v, J) = v[p] + Total(v, K)
      BY <3>1, <3>5, <3>8, TotalOfElement
    <3>10. QED BY <3>1, <3>2, <3>7, <3>9
  <2>3. QED BY <2>1, <2>2
<1> HIDE DEF Good
<1>2. SUBSET I \subseteq Good
  BY <1>1, SubsetInduction
<1>3. QED BY <1>2 DEF Good, Whole

-----------------------------------------------------------------------------
(***************************************************************************)
(* The sums of the dashboards are such totals.                             *)
(***************************************************************************)

LEMMA RevenueIsTotal ==
  ASSUME NEW X, NEW w, \A e \in Known(X) : w[e] = Price(e)
  PROVE  Revenue(X) = Total(w, Known(X))
<1> DEFINE S == Known(X)
           Q(g) == g = [T \in SUBSET S |->
                          IF T = {} THEN 0 ELSE LET x == CHOOSE x \in T : TRUE
                                                IN  Price(x) + g[T \ {x}]]
<1>1. Revenue(X) = (CHOOSE g : Q(g))[S]
  BY DEF Revenue, MapThenSumSet, MapThenFoldSet
<1>2. ASSUME NEW g PROVE Q(g) <=> Sums(g, w, S)
  BY DEF Sums, Pick
<1>3. QED BY <1>1, <1>2 DEF Total, Solution

LEMMA StaffSumIsTotal ==
  ASSUME NEW v, \A p \in Members : v[p] = StaffRevenue(p)
  PROVE  MapThenSumSet(StaffRevenue, Members) = Total(v, Members)
<1> DEFINE Q(g) == g = [T \in SUBSET Members |->
                          IF T = {} THEN 0 ELSE LET x == CHOOSE x \in T : TRUE
                                                IN  StaffRevenue(x) + g[T \ {x}]]
<1>1. MapThenSumSet(StaffRevenue, Members) = (CHOOSE g : Q(g))[Members]
  BY DEF MapThenSumSet, MapThenFoldSet
<1>2. ASSUME NEW g PROVE Q(g) <=> Sums(g, v, Members)
  BY DEF Sums, Pick
<1>3. QED BY <1>1, <1>2 DEF Total, Solution

LEMMA BarSumIsTotal ==
  MapThenSumSet(LAMBDA i : Bars[i], DOMAIN Bars) = Total(Bars, DOMAIN Bars)
<1> DEFINE D == DOMAIN Bars
           Q(g) == g = [T \in SUBSET D |->
                          IF T = {} THEN 0 ELSE LET x == CHOOSE x \in T : TRUE
                                                IN  Bars[x] + g[T \ {x}]]
<1>1. MapThenSumSet(LAMBDA i : Bars[i], DOMAIN Bars) = (CHOOSE g : Q(g))[D]
  BY DEF MapThenSumSet, MapThenFoldSet
<1>2. ASSUME NEW g PROVE Q(g) <=> Sums(g, Bars, D)
  BY DEF Sums, Pick
<1>3. QED BY <1>1, <1>2 DEF Total, Solution

\* A finite function's values are finitely many.
LEMMA ImageFinite ==
  ASSUME NEW S, IsFiniteSet(S), NEW f, DOMAIN f = S
  PROVE  IsFiniteSet({f[x] : x \in S})
<1> DEFINE F == [x \in S |-> f[x]]
<1>1. F \in Surjection(S, {f[x] : x \in S})
  BY DEF Surjection
<1>2. QED BY <1>1, FS_Surjection

ItemsOf(b) ==
  {[booking |-> b, index |-> i, service |-> booking[b].items[i].service,
    provider |-> booking[b].items[i].provider, at |-> booking[b].items[i].at] :
     i \in DOMAIN booking[b].items}

LEMMA ItemsType ==
  ASSUME AgendaParts, NEW b \in Bookings
  PROVE  booking[b].items \in Seq(Appointment)
<1>1. booking[b].items \in Carts \cup {<< >>}
  BY DEF AgendaParts, BookingsFit, Document
<1>2. \A cart \in Carts : cart \in Seq(Appointment)
  BY AgendaAssumption DEF Appointment
<1>3. << >> \in Seq(Appointment)
  OBVIOUS
<1>4. QED BY <1>1, <1>2, <1>3, Zenon

LEMMA EntriesFinite ==
  ASSUME AgendaParts, NEW statuses
  PROVE  IsFiniteSet(Entries(statuses))
<1> DEFINE B == {c \in Bookings : booking[c].status \in statuses}
           f == [b \in B |-> ItemsOf(b)]
<1>1. IsFiniteSet(B)
  BY AgendaAssumption, FS_Subset
<1>2. ASSUME NEW b \in B PROVE IsFiniteSet(ItemsOf(b))
  <2> DEFINE g == [i \in DOMAIN booking[b].items |->
           [booking |-> b, index |-> i, service |-> booking[b].items[i].service,
            provider |-> booking[b].items[i].provider, at |-> booking[b].items[i].at]]
  <2>1. booking[b].items \in Seq(Appointment)
    BY ItemsType
  <2>2. DOMAIN booking[b].items = 1..Len(booking[b].items) /\ Len(booking[b].items) \in Nat
    BY <2>1
  <2>3. IsFiniteSet(DOMAIN booking[b].items)
    BY <2>2, FS_Interval
  <2>4. IsFiniteSet({g[i] : i \in DOMAIN booking[b].items})
    BY <2>3, ImageFinite
  <2>5. ItemsOf(b) = {g[i] : i \in DOMAIN booking[b].items}
    BY DEF ItemsOf
  <2>6. QED BY <2>4, <2>5
<1>3. IsFiniteSet({f[b] : b \in B})
  <2>1. DOMAIN f = B
    OBVIOUS
  <2> HIDE DEF f, B
  <2>2. QED BY <1>1, <2>1, ImageFinite
<1>4. \A T \in {f[b] : b \in B} : IsFiniteSet(T)
  BY <1>2
<1>5. Entries(statuses) = UNION {f[b] : b \in B}
  <2>1. {f[b] : b \in B} = {ItemsOf(b) : b \in B}
    OBVIOUS
  <2>2. Entries(statuses) = UNION {ItemsOf(b) : b \in B}
    BY Zenon DEF Entries, ItemsOf
  <2>3. QED BY <2>1, <2>2
<1> HIDE DEF f, B
<1>6. QED BY <1>3, <1>4, <1>5, FS_UNION

-----------------------------------------------------------------------------
(***************************************************************************)
(* Revenues: parts and partitions of what the bookings earned.             *)
(***************************************************************************)

\* Every line item of a booking, and what it is worth at today's prices.
AllEntries == Entries(Statuses)

Worth == [e \in AllEntries |-> Price(e)]

LEMMA EntriesIncluded ==
  ASSUME NEW A, NEW B, A \subseteq B
  PROVE  Entries(A) \subseteq Entries(B)
BY DEF Entries

LEMMA WorthType ==
  ASSUME AgendaParts, NEW e \in AllEntries
  PROVE  Worth[e] = Price(e) /\ Worth[e] \in Nat
<1>1. e.service \in Services
  BY EntryType DEF AllEntries
<1>2. Catalogue[e.service] \in [form : Forms, length : Nat, price : Nat]
  BY <1>1, AgendaAssumption
<1>3. QED BY <1>2 DEF Worth, Price

\* Revenue is a sum over finitely many known entries.
LEMMA RevenueOf ==
  ASSUME AgendaParts, NEW X \in SUBSET AllEntries
  PROVE  /\ Revenue(X) = Total(Worth, Known(X))
         /\ IsFiniteSet(Known(X)) /\ \A e \in Known(X) : Worth[e] \in Nat
         /\ Revenue(X) \in Nat
<1>1. Known(X) \subseteq AllEntries
  BY DEF Known
<1>2. IsFiniteSet(Known(X))
  BY <1>1, EntriesFinite, FS_Subset DEF AllEntries
<1>3. \A e \in Known(X) : Worth[e] = Price(e) /\ Worth[e] \in Nat
  BY <1>1, WorthType
<1>4. Revenue(X) = Total(Worth, Known(X))
  BY <1>3, RevenueIsTotal
<1>5. Total(Worth, Known(X)) \in Nat
  BY <1>2, <1>3, TotalType
<1>6. QED BY <1>2, <1>3, <1>4, <1>5

\* A part of the entries earns no more than the whole.
LEMMA RevenueOfPart ==
  ASSUME AgendaParts, NEW Y \in SUBSET AllEntries, NEW X \in SUBSET Y
  PROVE  /\ Revenue(X) <= Revenue(Y)
         /\ Revenue(Y) = Revenue(Y \ X) + Revenue(X)
         /\ Revenue(X) \in Nat /\ Revenue(Y) \in Nat
<1>1. X \in SUBSET AllEntries /\ Y \ X \in SUBSET AllEntries
  OBVIOUS
<1>2. Known(X) \in SUBSET Known(Y) /\ Known(Y \ X) = Known(Y) \ Known(X)
  BY DEF Known
<1> DEFINE A == Known(X)  B == Known(Y)
<1>3. IsFiniteSet(B) /\ A \in SUBSET B /\ \A e \in B : Worth[e] \in Nat
  BY <1>2, RevenueOf
<1>4. /\ Revenue(X) = Total(Worth, A) /\ Revenue(Y) = Total(Worth, B)
      /\ Revenue(Y \ X) = Total(Worth, B \ A)
      /\ Revenue(X) \in Nat /\ Revenue(Y) \in Nat /\ Revenue(Y \ X) \in Nat
  BY <1>1, <1>2, RevenueOf
<1> HIDE DEF A, B
<1>5. Total(Worth, A) <= Total(Worth, B) /\ Total(Worth, B) = Total(Worth, A) + Total(Worth, B \ A)
  BY <1>3, TotalOfPart
<1>6. QED BY <1>4, <1>5

\* The parts that sum up to the revenue of X.
LEMMA RevenueOfParts ==
  ASSUME AgendaParts, NEW X \in SUBSET AllEntries, NEW I, IsFiniteSet(I), NEW part,
         \A i \in I : part[i] \in SUBSET X,
         \A e \in Known(X) : \E i \in I : e \in part[i],
         \A i, j \in I : i # j => part[i] \cap part[j] = {},
         NEW v, \A i \in I : v[i] = Revenue(part[i])
  PROVE  Total(v, I) = Revenue(X)
<1> DEFINE known == [i \in I |-> Known(part[i])]  S == Known(X)
<1>1. IsFiniteSet(S) /\ \A e \in S : Worth[e] \in Nat
  BY RevenueOf
<1>2. known \in [I -> SUBSET S]
  BY DEF Known
<1>3. \A i, j \in I : i # j => known[i] \cap known[j] = {}
  BY DEF Known
<1>4. ASSUME NEW i \in I PROVE v[i] = Total(Worth, known[i])
  <2>1. part[i] \in SUBSET AllEntries
    OBVIOUS
  <2>2. QED BY <2>1, RevenueOf
<1>5. UNION {known[i] : i \in I} = S
  BY <1>2 DEF Known
<1>6. Revenue(X) = Total(Worth, S)
  BY RevenueOf
<1> HIDE DEF known, S
<1>7. Total(v, I) = Total(Worth, UNION {known[i] : i \in I})
  BY <1>1, <1>2, <1>3, <1>4, TotalOfParts
<1>8. QED BY <1>5, <1>6, <1>7

LEMMA EarnedIncluded ==
  /\ Earned \in SUBSET AllEntries /\ Entries(Counted) \in SUBSET AllEntries
  /\ Earned \in SUBSET Entries(Counted) /\ Charted \in SUBSET Earned
<1>1. {"completed"} \subseteq Counted /\ Counted \subseteq Statuses /\ {"completed"} \subseteq Statuses
  BY DEF Counted, Statuses
<1>2. QED BY <1>1, EntriesIncluded DEF Earned, AllEntries, Charted

\* What the members that are left have sold.
Kept == {e \in Earned : e.provider \in Members}

\* The members that are left partition it by provider.
LEMMA MembersEarn ==
  ASSUME AgendaParts
  PROVE  MapThenSumSet(StaffRevenue, Members) = Revenue(Kept)
<1> DEFINE part == [p \in Members |-> {e \in Earned : e.provider = p}]
           v == [p \in Members |-> StaffRevenue(p)]
<1>1. MapThenSumSet(StaffRevenue, Members) = Total(v, Members)
  BY StaffSumIsTotal
<1>2. IsFiniteSet(Members) /\ Kept \in SUBSET AllEntries
  BY AgendaAssumption, FS_Subset, EarnedIncluded DEF Members, Kept
<1>3. \A p \in Members : part[p] \in SUBSET Kept
  BY DEF Kept
<1>4. ASSUME NEW e \in Known(Kept) PROVE \E p \in Members : e \in part[p]
  <2>1. e \in Earned /\ e.provider \in Members
    BY DEF Known, Kept
  <2>2. QED BY <2>1
<1>5. \A p, q \in Members : p # q => part[p] \cap part[q] = {}
  OBVIOUS
<1>6. \A p \in Members : v[p] = Revenue(part[p])
  BY DEF StaffRevenue
<1> HIDE DEF part, v
<1>7. Total(v, Members) = Revenue(Kept)
  BY <1>2, <1>3, <1>4, <1>5, <1>6, RevenueOfParts
<1>8. QED BY <1>1, <1>7

\* What is left and what is gone is everything that was earned.
LEMMA NoneUnaccounted ==
  ASSUME AgendaParts
  PROVE  /\ Revenue(Earned) = Revenue(Kept) + Revenue({e \in Earned : e.provider \in removed})
         /\ Revenue(Kept) <= Revenue(Earned)
<1> DEFINE X == {e \in Earned : e.provider \in removed}
<1>1. X \in SUBSET Earned /\ Kept \in SUBSET Earned /\ Earned \in SUBSET AllEntries
  BY EarnedIncluded DEF Kept
<1>2. Kept = Earned \ X
  <2>1. \A e \in Earned : e.provider \in Staff
    BY EntryType DEF Earned
  <2>2. QED BY <2>1 DEF Kept, Members
<1> HIDE DEF X
<1>3. Revenue(Earned) = Revenue(Kept) + Revenue(X) /\ Revenue(Kept) <= Revenue(Earned)
  BY <1>1, <1>2, RevenueOfPart
<1>4. QED BY <1>3 DEF X

\* A whole number of days is divided without remainder.
LEMMA DivOfMultiple ==
  ASSUME NEW k \in Int, NEW d \in Nat \ {0}
  PROVE  (k * d) \div d = k
<1> DEFINE q == (k * d) \div d
<1>1. q \in Int /\ k * d >= d * q /\ k * d < d * q + d
  OBVIOUS
<1>2. k * d = d * k /\ d * q + d = d * (q + 1)
  BY <1>1
<1> HIDE DEF q
<1>3. ASSUME q >= k + 1 PROVE FALSE
  <2>1. d * (q - k) >= d
    BY <1>1, <1>3
  <2>2. d * (q - k) = d * q - d * k /\ d * q \in Int /\ d * k \in Int
    BY <1>1
  <2>3. QED BY <1>1, <1>2, <2>1, <2>2
<1>4. ASSUME q + 1 <= k PROVE FALSE
  <2>1. d * (k - (q + 1)) >= 0
    BY <1>1, <1>4
  <2>2. /\ d * (k - (q + 1)) = d * k - d * (q + 1)
        /\ d * k \in Int /\ d * (q + 1) \in Int
    BY <1>1
  <2>3. QED BY <1>1, <1>2, <2>1, <2>2
<1>5. q = k
  BY <1>1, <1>3, <1>4
<1>6. QED BY <1>5 DEF q

\* The day a bar stands for, in a server that runs in UTC.
LEMMA BarDay ==
  ASSUME AgendaParts, offset = 0, NEW i \in 0..(ChartDays - 1)
  PROVE  /\ DayInUTC(ChartStart + i * DayLength) = Day(now) - (ChartDays - 1) + i
         /\ ChartStart \in Int /\ Day(now) = DayInUTC(now)
         /\ ChartStart = (Day(now) - (ChartDays - 1)) * DayLength
<1>1. /\ now \in Nat /\ DayLength \in Nat \ {0} /\ ChartDays \in Nat /\ i \in Int
      /\ Day(now) \in Int
  BY AgendaAssumption, DayType DEF AgendaParts
<1> DEFINE f == Day(now) - (ChartDays - 1)
<1>2. f \in Int /\ ChartStart = f * DayLength /\ ChartStart \in Int
  BY <1>1 DEF ChartStart, Midnight
<1> HIDE DEF f
<1>3. ChartStart + i * DayLength = (f + i) * DayLength /\ f + i \in Int
  BY <1>1, <1>2
<1>4. DayInUTC(ChartStart + i * DayLength) = f + i
  BY <1>1, <1>3, DivOfMultiple DEF DayInUTC
<1>5. Day(now) = DayInUTC(now)
  BY <1>1 DEF Day, DayInUTC
<1>6. QED BY <1>2, <1>4, <1>5 DEF f

\* The bars partition the sales of the chart by their day.
LEMMA ChartIsWhole ==
  ASSUME AgendaParts, offset = 0
  PROVE  Total(Bars, DOMAIN Bars) = Revenue(Charted)
<1> DEFINE I == 0..(ChartDays - 1)
           f == Day(now) - (ChartDays - 1)
           part == [i \in I |-> {e \in Charted : DayInUTC(e.at) = f + i}]
<1>1. /\ ChartDays \in Nat \ {0} /\ Day(now) \in Int /\ f \in Int /\ now \in Nat
      /\ DayLength \in Nat \ {0}
  BY AgendaAssumption, DayType DEF AgendaParts
<1>2. DOMAIN Bars = I /\ \A i \in I : Bars[i] = Revenue(part[i])
  BY BarDay DEF Bars
<1>3. IsFiniteSet(I) /\ Charted \in SUBSET AllEntries
  BY <1>1, FS_Interval, EarnedIncluded
<1>4. \A i \in I : part[i] \in SUBSET Charted
  OBVIOUS
<1>5. ASSUME NEW e \in Known(Charted) PROVE \E i \in I : e \in part[i]
  <2>1. e \in Charted /\ e \in Earned /\ ChartStart <= e.at /\ e.at <= now
    BY DEF Known, Charted
  <2>2. e.at \in Nat
    BY <2>1, EntryType DEF Earned
  <2>3. /\ ChartStart \in Int /\ Day(now) = DayInUTC(now)
        /\ ChartStart = f * DayLength
    <3>1. 0 \in I
      BY <1>1
    <3>2. QED BY <3>1, BarDay
  <2> HIDE DEF f
  <2>4. DayInUTC(ChartStart) = f
    BY <1>1, <2>3, DivOfMultiple DEF DayInUTC
  <2>5. DayInUTC(ChartStart) <= DayInUTC(e.at) /\ DayInUTC(e.at) <= DayInUTC(now)
    BY <1>1, <2>1, <2>2, <2>3, DivGrows DEF DayInUTC
  <2>6. DayInUTC(e.at) \in Int
    BY <1>1, <2>2 DEF DayInUTC
  <2> DEFINE k == DayInUTC(e.at) - f
  <2>7. k \in Int /\ 0 <= k /\ DayInUTC(e.at) = f + k
    BY <1>1, <2>4, <2>5, <2>6
  <2>8. k <= ChartDays - 1
    BY <1>1, <2>3, <2>5, <2>6 DEF f
  <2>9. k \in I
    BY <1>1, <2>7, <2>8
  <2> HIDE DEF k
  <2>10. QED BY <2>1, <2>7, <2>9
<1>6. \A i, j \in I : i # j => part[i] \cap part[j] = {}
  BY <1>1
<1> HIDE DEF I, part
<1>7. Total(Bars, I) = Revenue(Charted)
  BY <1>2, <1>3, <1>4, <1>5, <1>6, RevenueOfParts
<1>8. QED BY <1>2, <1>7

\* Members, payments, today and the chart, each as a part of what was earned.
LEMMA RevenueStep == AgendaParts => RevenueReconciles
<1> SUFFICES ASSUME AgendaParts PROVE RevenueReconciles
  OBVIOUS
<1> DEFINE members == MapThenSumSet(StaffRevenue, Members)
           gone == Revenue({e \in Earned : e.provider \in removed})
<1>1. members = Revenue(Kept) /\ members + gone = Revenue(Earned)
  BY MembersEarn, NoneUnaccounted
<1>2. members <= TopPayment
  <2>1. Kept \in SUBSET Entries(Counted)
    BY EarnedIncluded DEF Kept
  <2>2. QED BY <1>1, <2>1, EarnedIncluded, RevenueOfPart DEF TopPayment
<1>3. TodaysRevenue <= members + gone
  <2>1. {e \in Earned : Day(now) \in doneOn[e.booking]} \in SUBSET Earned
    OBVIOUS
  <2>2. QED BY <1>1, <2>1, EarnedIncluded, RevenueOfPart DEF TodaysRevenue
<1>4. ASSUME offset = 0
      PROVE  members + gone
               = Revenue(Earned \ Charted) + MapThenSumSet(LAMBDA i : Bars[i], DOMAIN Bars)
  <2>1. MapThenSumSet(LAMBDA i : Bars[i], DOMAIN Bars) = Revenue(Charted)
    BY <1>4, ChartIsWhole, BarSumIsTotal
  <2>2. Revenue(Earned) = Revenue(Earned \ Charted) + Revenue(Charted)
    BY EarnedIncluded, RevenueOfPart
  <2>3. QED BY <1>1, <2>1, <2>2
<1> HIDE DEF members, gone
<1>5. QED BY <1>2, <1>3, <1>4 DEF RevenueReconciles, members, gone

\* Handlers that sum the same sales separately agree: what the members' pages
\* sum up to is at most what the admin's ranking credits; with what removed
\* members earned it is at least today's revenue and, in a server that runs in
\* UTC, the bars of a fresh chart and the sales that lie outside the chart.
THEOREM RevenuesReconcile == AgendaSpec => []RevenueReconciles
<1>1. AgendaSpec => []AgendaParts
  BY AgendaTypeInit, AgendaTypeStep, PTL DEF AgendaSpec
<1>2. QED BY <1>1, RevenueStep, PTL

=============================================================================
