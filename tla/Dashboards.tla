----------------------------- MODULE Dashboards -----------------------------
(***************************************************************************)
(* The figures BusinessService, StaffService and AdminService compute from *)
(* one agenda, each as its aggregation does, and how they fit together.    *)
(* Prices are in cents.                                                    *)
(***************************************************************************)
EXTENDS Agenda

Counted == {"active", "completed", "cancelled"}

Today(entries) == {e \in entries : Day(e.at) = Day(now)}

UnderWay(e, length) == e.at <= now /\ now < e.at + length

----------------------------------------------------------------------------
\* Who is on duty.

\* StaffService.getBusinessOwnerDashboardStatistics: members who work; an item
\* counts half an hour when its service was removed.
OnDuty == {e.provider : e \in {f \in Pending : UnderWay(f, Length(f)) /\ f.provider \in Working}}

\* A dashboard that looks at the items of today only.
DutyToday ==
  {e.provider : e \in {f \in Today(Known(Pending)) : UnderWay(f, BusinessDuration(f.service))}}

\* BusinessService.getStaffManagementCount: whoever the item names.
DutyCount ==
  {e.provider : e \in {f \in Known(Pending) : UnderWay(f, BusinessDuration(f.service))}}

\* getUpcomingAppointments; the client still exists.
Upcoming == {e \in Known(Pending) : now <= e.at /\ e.at <= now + Soon}

----------------------------------------------------------------------------
\* What was earned.

Earned == Entries({"completed"})

\* The members getStaffIndividualStats finds.
Members == Staff \ removed

\* What it returns of one of them.
StaffRevenue(p) == Revenue({e \in Earned : e.provider = p})

\* getBookingManagementCount: bookings completed today.
TodaysRevenue == Revenue({e \in Earned : Day(now) \in doneOn[e.booking]})

\* AdminService.getTopBusinessesByPayment: whatever became of the bookings.
TopPayment == Revenue(Entries(Counted))

\* getRevenueChartData, when the chart it cached is gone (after 15 minutes, or
\* in Redis's absence): the items that began since the first day's midnight,
\* grouped by MongoDB.
ChartStart == Midnight(Day(now) - (ChartDays - 1))

Charted == {e \in Earned : ChartStart <= e.at /\ e.at <= now}

\* A chart without its last day.
BarsShort ==
  [i \in 0..(ChartDays - 2) |->
     Revenue({e \in Charted : DayInUTC(e.at) = DayInUTC(ChartStart + i * DayLength)})]

\* One bar a day, labelled with the day in UTC of the server's midnight.
Bars ==
  [i \in 0..(ChartDays - 1) |->
     Revenue({e \in Charted : DayInUTC(e.at) = DayInUTC(ChartStart + i * DayLength)})]

----------------------------------------------------------------------------
\* Properties.

\* Nothing that will begin soon or is under way slips between the lists an
\* owner looks at, not even over midnight, unless its service was removed: the
\* appointment is upcoming or its provider is on duty, on either page, for as
\* long as that page takes the service to last.  One of the pages leaves out
\* members who do not work any more.
NothingSlips ==
  \A e \in Known(Pending) : e.at <= now + Soon /\ e \notin Upcoming =>
    /\ now < e.at + BusinessDuration(e.service) => e.provider \in DutyCount
    /\ now < e.at + StaffDuration(e.service) /\ e.provider \in Working => e.provider \in OnDuty

\* Why one of the pages may keep an item under way when the other does not:
\* its service was removed, or its length has a colon, which only one reads.
ReadDifferently(e) ==
  \/ e.service \notin offered /\ UnderWay(e, HalfHour)
  \/ /\ Catalogue[e.service].form = "clock"
     /\ UnderWay(e, StaffDuration(e.service)) # UnderWay(e, BusinessDuration(e.service))

\* The two pages disagree on who is on duty only about members who do not work
\* any more, and about those with such an item at this moment.
DutyAgrees ==
  \A p \in Staff : (p \in OnDuty) # (p \in DutyCount) =>
    p \notin Working \/ \E e \in Pending : e.provider = p /\ ReadDifferently(e)

\* What the members' own pages show is never more than the payments an admin
\* sees; with what removed members earned, whose pages are gone, it is at
\* least today's revenue.  A chart computed now by a server that runs in UTC
\* loses none of it but what was earned outside its days.  In another zone
\* some of today's revenue is in no bar.
RevenueReconciles ==
  LET members == MapThenSumSet(StaffRevenue, Members)
      gone == Revenue({e \in Earned : e.provider \in removed}) IN
  /\ members <= TopPayment
  /\ TodaysRevenue <= members + gone
  /\ offset = 0 =>
       members + gone = Revenue(Earned \ Charted)
                        + MapThenSumSet(LAMBDA i : Bars[i], DOMAIN Bars)
=============================================================================
