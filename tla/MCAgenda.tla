------------------------------ MODULE MCAgenda ------------------------------
(***************************************************************************)
(* An instance of the dashboards: days of six quarters of an hour.         *)
(***************************************************************************)
EXTENDS Dashboards, TLC

CONSTANTS p1, p2, s1, s2, s3, b1, b2

\* One member works by day, the other one over midnight.
Shifts == p1 :> [from |-> 0, to |-> 5] @@ p2 :> [from |-> 3, to |-> 2]

\* "45 minutes", "0:15", and a service of no length.
Offers ==
  s1 :> [form |-> "words", length |-> 3, price |-> 15]
    @@ s2 :> [form |-> "clock", length |-> 1, price |-> 24]
    @@ s3 :> [form |-> "number", length |-> 0, price |-> 8]

Item(s, p, t) == [service |-> s, provider |-> p, at |-> t]

\* Single appointments, by day and over midnight, and pairs.
SomeCarts ==
  {<<Item(s1, p1, 1)>>, <<Item(s1, p2, 4)>>, <<Item(s2, p2, 3)>>,
   <<Item(s1, p1, 0), Item(s2, p1, 3)>>, <<Item(s1, p2, 5), Item(s3, p1, 6)>>}

Twins == Permutations(Bookings)
=============================================================================
