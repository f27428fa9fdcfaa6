--------------------------- MODULE BookingProofs ---------------------------
(***************************************************************************)
(* Theorems about Booking, for every number of requests, bookings, users,  *)
(* providers and items.                                                    *)
(***************************************************************************)
EXTENDS Booking, SequenceTheorems, TLAPS

----------------------------------------------------------------------------
\* A non-empty sequence of slots, of at most MaxItems elements.
LEMMA CartTyped ==
  ASSUME NEW cart \in Carts
  PROVE  /\ cart \in Seq(Slots)
         /\ Len(cart) \in Nat \ {0}
         /\ CartSlots(cart) # {}
  <1>1. PICK n \in 1..MaxItems : cart \in [1..n -> Slots]
    BY DEF Carts
  <1>2. cart \in Seq(Slots) /\ n \in Nat /\ n >= 1
    BY <1>1, BookingAssumption, SeqDef
  <1>3. Len(cart) = n /\ DOMAIN cart = 1..n
    BY <1>1, <1>2
  <1>4. 1 \in DOMAIN cart
    BY <1>2, <1>3
  <1>. QED
    BY <1>2, <1>3, <1>4 DEF CartSlots

LEMMA CartSlotsTyped ==
  ASSUME NEW cart \in Seq(Slots)
  PROVE  CartSlots(cart) \in SUBSET Slots
  BY DEF CartSlots

LEMMA NoRequestTyped == NoRequest \in Request
  <1>1. <<>> \in Seq(Slots)
    OBVIOUS
  <1>. QED
    BY <1>1, BookingAssumption
    DEF NoRequest, Request, Phases, Endpoints, Users, Statuses, NoStatus

\* The three ways a step moves a request on: to another phase, to the next
\* item, or to its answer.  Each keeps requests typed and leaves others alone.
LEMMA GotoEffect ==
  ASSUME req \in [Requests -> Request], NEW r \in Requests, NEW phase \in Phases,
         Goto(r, phase)
  PROVE  /\ req' \in [Requests -> Request]
         /\ \A x \in Requests : x # r => req'[x] = req[x]
         /\ req'[r] = [req[r] EXCEPT !.pc = phase]
         /\ req'[r].pc = phase
         /\ req'[r].target = req[r].target
         /\ req'[r].cart = req[r].cart
         /\ req'[r].item = req[r].item
         /\ req'[r].op = req[r].op
  <1>1. /\ [req[r] EXCEPT !.pc = phase] \in Request
        /\ [req[r] EXCEPT !.pc = phase].pc = phase
        /\ [req[r] EXCEPT !.pc = phase].target = req[r].target
        /\ [req[r] EXCEPT !.pc = phase].cart = req[r].cart
        /\ [req[r] EXCEPT !.pc = phase].item = req[r].item
        /\ [req[r] EXCEPT !.pc = phase].op = req[r].op
    BY DEF Request
  <1>2. req' = [req EXCEPT ![r] = [req[r] EXCEPT !.pc = phase]]
    BY DEF Goto
  <1>. QED
    BY <1>1, <1>2

LEMMA FinishEffect ==
  ASSUME req \in [Requests -> Request], NEW r \in Requests, Finish(r)
  PROVE  /\ req' \in [Requests -> Request]
         /\ \A x \in Requests : x # r => req'[x] = req[x]
         /\ req'[r].pc = "idle"
  <1>1. NoRequest.pc = "idle"
    BY DEF NoRequest
  <1>. QED
    BY <1>1, NoRequestTyped DEF Finish

LEMMA NextItemEffect ==
  ASSUME req \in [Requests -> Request], NEW r \in Requests, NextItem(r)
  PROVE  /\ req' \in [Requests -> Request]
         /\ \A x \in Requests : x # r => req'[x] = req[x]
         /\ req'[r].pc \in {"idle", "provider", "insert"}
         /\ req'[r].pc # "idle" => /\ req'[r].target = req[r].target
                                  /\ req'[r].cart = req[r].cart
                                  /\ req'[r].op = req[r].op
         /\ req'[r].pc = "provider" => /\ req[r].item < Len(req[r].cart)
                                      /\ req'[r].item = req[r].item + 1
         /\ req'[r].pc = "insert" => /\ ~(req[r].item < Len(req[r].cart))
                                    /\ req'[r].item = req[r].item
  <1>1. "provider" \in Phases /\ "insert" \in Phases
    BY DEF Phases
  <1>2. CASE req[r].item < Len(req[r].cart)
    <2> DEFINE next == [req[r] EXCEPT !.pc = "provider", !.item = req[r].item + 1]
    <2>1. req[r] \in Request
      OBVIOUS
    <2>2a. req[r].item + 1 \in Nat
      BY <2>1 DEF Request
    <2>2b. next \in Request
      BY <1>1, <2>1, <2>2a DEF Request
    <2>2. /\ next \in Request
          /\ next.pc = "provider"
          /\ next.target = req[r].target
          /\ next.cart = req[r].cart
          /\ next.op = req[r].op
          /\ next.item = req[r].item + 1
      BY <1>1, <2>1, <2>2b DEF Request
    <2>3. req' = [req EXCEPT ![r] = next]
      BY <1>2 DEF NextItem
    <2>4. req'[r] = next /\ req' \in [Requests -> Request]
      BY <2>2, <2>3
    <2>. HIDE DEF next
    <2>. QED
      BY <1>2, <2>2, <2>3, <2>4
  <1>3. CASE ~(req[r].item < Len(req[r].cart))
    BY <1>1, <1>3, GotoEffect, FinishEffect DEF NextItem
  <1>. QED
    BY <1>2, <1>3

\* The type invariant holds in every run.
THEOREM Typing == Spec => []TypeOK
  <1>1. Init => TypeOK
    BY NoRequestTyped, BookingAssumption DEF Init, TypeOK, Users, Idle, NoRequest
  <1>2. TypeOK /\ [Next]_vars => TypeOK'
    <2> SUFFICES ASSUME TypeOK, [Next]_vars PROVE TypeOK'
      OBVIOUS
    <2>0. req \in [Requests -> Request] /\ \A x \in Requests : Idle(x) \/ req[x].target \in Bookings
      BY DEF TypeOK
    <2>1. ASSUME NEW r \in Requests, NEW op \in {"create", "manual"}, NEW u \in Users,
                 NEW b \in Bookings, NEW cart \in Carts, StartBooking(r, op, u, b, cart)
          PROVE  TypeOK'
      <3>1. [pc |-> "provider", op |-> op, user |-> u, target |-> b, cart |-> cart,
             item |-> 1, patch |-> NoStatus, seen |-> "pending"] \in Request
        BY CartTyped DEF TypeOK, Request, Phases, Endpoints, Statuses, NoStatus
      <3>. QED
        BY <2>1, <3>1 DEF TypeOK, StartBooking, docs, world, Idle
    <2>2. ASSUME NEW r \in Requests, CheckProvider(r)
          PROVE  TypeOK'
      <3>1. "slot" \in Phases /\ ~Idle(r)
        BY <2>2 DEF Phases, CheckProvider, Idle
      <3>2. /\ req' \in [Requests -> Request]
            /\ \A x \in Requests : req'[x].pc = "idle" \/ req'[x].target \in Bookings
        <4>1. req[r].pc # "idle" /\ (Finish(r) \/ Goto(r, "slot") \/ NextItem(r))
          BY <2>2 DEF CheckProvider
        <4>2. CASE Finish(r)
          BY <2>0, <4>2, FinishEffect DEF Idle
        <4>3. CASE Goto(r, "slot")
          BY <2>0, <3>1, <4>1, <4>3, GotoEffect DEF Idle
        <4>4. CASE NextItem(r)
          BY <2>0, <4>1, <4>4, NextItemEffect DEF Idle
        <4>. QED
          BY <4>1, <4>2, <4>3, <4>4
      <3>. QED
        BY <2>2, <3>2 DEF TypeOK, CheckProvider, docs, world, Idle
    <2>3. ASSUME NEW r \in Requests, CheckSlot(r)
          PROVE  TypeOK'
      <3>1. /\ req' \in [Requests -> Request]
            /\ \A x \in Requests : req'[x].pc = "idle" \/ req'[x].target \in Bookings
        <4>1. req[r].pc # "idle" /\ (Finish(r) \/ NextItem(r))
          BY <2>3 DEF CheckSlot
        <4>2. CASE Finish(r)
          BY <2>0, <4>2, FinishEffect DEF Idle
        <4>3. CASE NextItem(r)
          BY <2>0, <4>1, <4>3, NextItemEffect DEF Idle
        <4>. QED
          BY <4>1, <4>2, <4>3
      <3>. QED
        BY <2>3, <3>1 DEF TypeOK, CheckSlot, docs, world, Idle
    <2>4. ASSUME NEW r \in Requests, Insert(r)
          PROVE  TypeOK'
      <3>1. "notify" \in Phases /\ ~Idle(r)
        BY <2>4 DEF Phases, Insert, Idle
      <3>2. /\ req' \in [Requests -> Request]
            /\ \A x \in Requests : req'[x].pc = "idle" \/ req'[x].target \in Bookings
        BY <2>0, <2>4, <3>1, GotoEffect DEF Insert, Idle
      <3>3. CartSlots(req[r].cart) \in SUBSET Slots /\ req[r].user \in Users
        BY <2>0, CartSlotsTyped DEF Request
      <3>4. customer' \in [Bookings -> Users]
        BY <2>4, <3>3 DEF TypeOK, Insert, Users
      <3>5. status' \in [Bookings -> Statuses \cup {"absent", "unset"}]
        BY <2>4 DEF TypeOK, Insert, Statuses
      <3>6. stamps' \in [Bookings -> SUBSET Stamps]
        BY <2>4 DEF TypeOK, Insert, StampOf, Stamps
      <3>7. booked' \in [Bookings -> SUBSET Slots]
        BY <2>4, <3>3 DEF TypeOK, Insert
      <3>8. lapses' \in [Bookings -> SUBSET Lapses]
        BY <2>4 DEF TypeOK, Insert, Lapses
      <3>. QED
        BY <2>4, <3>2, <3>4, <3>5, <3>6, <3>7, <3>8 DEF TypeOK, Insert, world, Idle
    <2>5. ASSUME NEW r \in Requests, Notify(r)
          PROVE  TypeOK'
      <3>1. /\ req' \in [Requests -> Request]
            /\ \A x \in Requests : req'[x].pc = "idle" \/ req'[x].target \in Bookings
            /\ req[r].target \in Bookings
        BY <2>0, <2>5, FinishEffect DEF Notify, Idle
      <3>2. jobs' \in SUBSET Jobs
        BY <2>5, <3>1 DEF TypeOK, Notify, Jobs
      <3>. QED
        BY <2>5, <3>1, <3>2 DEF TypeOK, Notify, docs, world, Idle
    <2>6. ASSUME NEW r \in Requests, NEW op \in Endpoints, NEW u \in Users,
                 NEW b \in Bookings, NEW patch \in PatchStatuses \cup {NoStatus},
                 Load(r, op, u, b, patch)
          PROVE  TypeOK'
      <3>1. Hydrate(status[b]) \in Statuses
        BY <2>6 DEF TypeOK, Load, Hydrate, Statuses
      <3>2. patch \in Statuses \cup {NoStatus} /\ <<>> \in Seq(Slots)
        BY BookingAssumption
      <3>3. \A phase \in {"save", "authorise"} :
              [pc |-> phase, op |-> op, user |-> u, target |-> b, cart |-> <<>>,
               item |-> 1, patch |-> patch, seen |-> Hydrate(status[b])]
                 \in Request
        BY <3>1, <3>2 DEF TypeOK, Request, Phases
      <3>. QED
        BY <2>6, <3>3 DEF TypeOK, Load, docs, world, Idle
    <2>7. ASSUME NEW r \in Requests, Authorise(r)
          PROVE  TypeOK'
      <3>1. "save" \in Phases
        BY DEF Phases
      <3>2. /\ req' \in [Requests -> Request]
            /\ \A x \in Requests : req'[x].pc = "idle" \/ req'[x].target \in Bookings
        <4>1. req[r].pc # "idle" /\ (Finish(r) \/ Goto(r, "save"))
          BY <2>7 DEF Authorise
        <4>2. CASE Finish(r)
          BY <2>0, <4>2, FinishEffect DEF Idle
        <4>3. CASE Goto(r, "save")
          BY <2>0, <3>1, <4>1, <4>3, GotoEffect DEF Idle
        <4>. QED
          BY <4>1, <4>2, <4>3
      <3>. QED
        BY <2>7, <3>2 DEF TypeOK, Authorise, docs, world, Idle
    <2>8. ASSUME NEW r \in Requests, Save(r)
          PROVE  TypeOK'
      <3>1. /\ req' \in [Requests -> Request]
            /\ \A x \in Requests : req'[x].pc = "idle" \/ req'[x].target \in Bookings
            /\ req[r].target \in Bookings
        BY <2>0, <2>8, FinishEffect DEF Save, Idle
      <3>2. req[r].patch \in Statuses \cup {NoStatus}
        BY <2>0 DEF Request
      <3>3. \A st \in Statuses \cup {"absent", "unset"} :
              NewStatus(req[r], st) \in Statuses \cup {"absent", "unset"}
        BY <3>2 DEF NewStatus, Statuses, NoStatus
      <3>4. NewStamps(req[r]) \in SUBSET Stamps
        BY DEF NewStamps, StampOf, Stamps
      <3>5. /\ deleted' \in SUBSET Bookings
            /\ status' \in [Bookings -> Statuses \cup {"absent", "unset"}]
            /\ stamps' \in [Bookings -> SUBSET Stamps]
        BY <2>8, <3>1, <3>3, <3>4 DEF Save, TypeOK
      <3>6. lapses' \in [Bookings -> SUBSET Lapses]
        BY <2>8, <3>1 DEF Save, TypeOK, Lapses, LapseOf
      <3>. QED
        BY <2>8, <3>1, <3>5, <3>6 DEF TypeOK, Save, world, Idle
    <2>9. CASE \E p \in Providers : ChangeStaff(p)
      BY <2>9 DEF TypeOK, ChangeStaff, docs, Idle
    <2>10. CASE DeleteBusiness
      BY <2>10 DEF TypeOK, DeleteBusiness, docs, Idle
    <2>11. CASE Tick
      BY <2>11 DEF TypeOK, Tick, docs, Idle
    <2>12. CASE UNCHANGED vars
      BY <2>12 DEF TypeOK, vars, docs, world, Idle
    <2>. QED
      BY <2>1, <2>2, <2>3, <2>4, <2>5, <2>6, <2>7, <2>8, <2>9, <2>10, <2>11, <2>12
      DEF Next, Step
  <1>. QED
    BY <1>1, <1>2, PTL DEF Spec

----------------------------------------------------------------------------
(***************************************************************************)
(* Timestamps.  A save carries a status together with its timestamp, and a *)
(* status past confirmation is only reached from a loaded status past      *)
(* confirmation, whose document then had confirmedAt: it still has,        *)
(* because no request removes a timestamp.                                 *)
(***************************************************************************)

\* A status that the checks let a handler save brings its evidence along.
LEMMA PermittedEvidence ==
  ASSUME NEW q \in Request, NEW S, NEW st \in Statuses \cup {"unset"},
         q.op \in {"update", "cancel", "complete", "remove"},
         Permitted(q.op, q.seen, q.patch), Evidence(q.seen, S),
         Evidence(st, S), StampOf(st) \subseteq S
  PROVE  /\ Evidence(NewStatus(q, st), S \cup NewStamps(q))
         /\ StampOf(NewStatus(q, st)) \subseteq S \cup NewStamps(q)
         /\ NewStatus(q, st) # "absent"
  <1>1. q.seen \in Statuses /\ q.patch \in Statuses \cup {NoStatus}
    BY DEF Request
  <1>2. CASE q.op = "update" /\ q.patch = NoStatus
    BY <1>2 DEF NewStatus, NewStamps, StampOf, Evidence
  <1>3. CASE q.op = "update" /\ q.patch # NoStatus
    <2>1. q.patch \in Table[q.seen]
      BY <1>3 DEF Permitted
    <2>2. /\ q.patch \in {"confirmed", "in_progress", "completed", "no_show", "cancelled"}
          /\ q.patch \in {"in_progress", "completed", "no_show"}
               => q.seen \in {"confirmed", "in_progress"}
      BY <1>1, <2>1 DEF Table, Statuses
    <2>3. NewStatus(q, st) = q.patch /\ NewStamps(q) = StampOf(q.patch)
      BY <1>3 DEF NewStatus, NewStamps
    <2>. QED
      BY <2>2, <2>3 DEF StampOf, Evidence
  <1>4. CASE q.op = "cancel"
    BY <1>4 DEF NewStatus, NewStamps, StampOf, Evidence
  <1>5. CASE q.op = "complete"
    BY <1>5 DEF NewStatus, NewStamps, StampOf, Evidence, Permitted
  <1>6. CASE q.op = "remove"
    BY <1>6 DEF NewStatus, NewStamps, StampOf, Evidence, Statuses
  <1>. QED
    BY <1>2, <1>3, <1>4, <1>5, <1>6

StampsInv == TypeOK /\ RequestInv /\ StampsWitnessStatus

LEMMA StampsInit == Init => StampsInv
  <1> SUFFICES ASSUME Init PROVE RequestInv /\ StampsWitnessStatus /\ TypeOK
    BY DEF StampsInv
  <1>1. TypeOK
    BY NoRequestTyped, BookingAssumption DEF Init, TypeOK, Users, Idle, NoRequest
  <1>2. RequestInv
    BY DEF Init, RequestInv, NoRequest, Preparing, Changing
  <1>3. StampsWitnessStatus
    BY DEF Init, StampsWitnessStatus, StampOf
  <1>. QED
    BY <1>1, <1>2, <1>3

\* Steps that leave the documents alone.
LEMMA QuietStep ==
  ASSUME StampsInv, UNCHANGED docs, RequestInv'
  PROVE  RequestInv' /\ StampsWitnessStatus'
  BY DEF StampsInv, StampsWitnessStatus, docs

LEMMA StampsStep == StampsInv /\ TypeOK' /\ [Next]_vars => StampsInv'
  <1> SUFFICES ASSUME StampsInv, TypeOK', [Next]_vars
               PROVE  RequestInv' /\ StampsWitnessStatus'
    BY DEF StampsInv
  <1>0. /\ req \in [Requests -> Request]
        /\ \A x \in Requests : Idle(x) \/ req[x].target \in Bookings
        /\ RequestInv
    BY DEF StampsInv, TypeOK
  <1>1. ASSUME NEW r \in Requests, NEW op \in {"create", "manual"}, NEW u \in Users,
               NEW b \in Bookings, NEW cart \in Carts, StartBooking(r, op, u, b, cart)
        PROVE  RequestInv' /\ StampsWitnessStatus'
    <2>1. /\ req'[r].pc = "provider" /\ req'[r].target = b
          /\ \A x \in Requests : x # r => req'[x] = req[x]
      BY <1>0, <1>1 DEF StartBooking
    <2>2. /\ status[b] = "absent"
          /\ \A x \in Requests : Idle(x) \/ req[x].target # b
      BY <1>1 DEF StartBooking, FreshId
    <2>3. UNCHANGED docs
      BY <1>1 DEF StartBooking
    <2>4. RequestInv'
      BY <1>0, <2>1, <2>2, <2>3 DEF RequestInv, Preparing, Changing, Idle, docs
    <2>. QED
      BY <2>3, <2>4, QuietStep
  <1>2. ASSUME NEW r \in Requests, CheckProvider(r) \/ CheckSlot(r)
        PROVE  RequestInv' /\ StampsWitnessStatus'
    <2>1. /\ \A x \in Requests : x # r => req'[x] = req[x]
          /\ req'[r].pc \in {"idle", "provider", "slot", "insert"}
          /\ req'[r].pc # "idle" => req'[r].target = req[r].target
          /\ Preparing(r)
      BY <1>0, <1>2, NextItemEffect, FinishEffect, GotoEffect
      DEF CheckProvider, CheckSlot, Preparing, Phases
    <2>2. UNCHANGED docs
      BY <1>2 DEF CheckProvider, CheckSlot
    <2>3. RequestInv'
      BY <1>0, <2>1, <2>2 DEF RequestInv, Preparing, Changing, Idle, docs
    <2>. QED
      BY <2>2, <2>3, QuietStep
  <1>3. ASSUME NEW r \in Requests, Insert(r)
        PROVE  RequestInv' /\ StampsWitnessStatus'
    <2> DEFINE t == req[r].target
    <2>1. /\ \A x \in Requests : x # r => req'[x] = req[x]
          /\ req'[r].pc = "notify" /\ req'[r].target = t
          /\ req[r].pc = "insert"
      BY <1>0, <1>3, GotoEffect DEF Insert, Phases
    <2>2. /\ t \in Bookings
          /\ \A x \in Requests \ {r} : Idle(x) \/ req[x].target # t
      BY <1>0, <2>1 DEF RequestInv, Preparing, Idle
    <2>3. /\ \A b \in Bookings \ {t} : status'[b] = status[b] /\ stamps'[b] = stamps[b]
          /\ status'[t] \in {"pending", "confirmed"}
          /\ stamps'[t] = StampOf(status'[t])
      BY <1>3, <2>2 DEF Insert, StampsInv, TypeOK
    <2>4. RequestInv'
      <3>1. \A x \in Requests : x # r => req[x].target # t \/ req[x].pc = "idle"
        BY <2>2 DEF Idle
      <3>. QED
        BY <1>0, <2>1, <2>2, <2>3, <3>1 DEF RequestInv, Preparing, Changing, Idle
    <2>5. StampsWitnessStatus'
      BY <2>2, <2>3 DEF StampsInv, StampsWitnessStatus, StampOf
    <2>. QED
      BY <2>4, <2>5
  <1>4. ASSUME NEW r \in Requests, Notify(r)
        PROVE  RequestInv' /\ StampsWitnessStatus'
    <2>1. /\ \A x \in Requests : x # r => req'[x] = req[x]
          /\ req'[r].pc = "idle"
          /\ UNCHANGED docs
      BY <1>0, <1>4, FinishEffect DEF Notify
    <2>2. RequestInv'
      BY <1>0, <2>1 DEF RequestInv, Preparing, Changing, Idle, docs
    <2>. QED
      BY <2>1, <2>2, QuietStep
  <1>5. ASSUME NEW r \in Requests, NEW op \in Endpoints, NEW u \in Users,
               NEW b \in Bookings, NEW patch \in PatchStatuses \cup {NoStatus},
               Load(r, op, u, b, patch)
        PROVE  RequestInv' /\ StampsWitnessStatus'
    <2>1. /\ \A x \in Requests : x # r => req'[x] = req[x]
          /\ req'[r].pc \in {"save", "authorise"} /\ req'[r].target = b
          /\ req'[r].op = op /\ req'[r].seen = Hydrate(status[b]) /\ req'[r].patch = patch
          /\ req'[r].pc = "save" => Permitted(op, Hydrate(status[b]), patch)
      BY <1>0, <1>5 DEF Load
    <2>2. status[b] # "absent" /\ op \notin {"create", "manual"} /\ UNCHANGED docs
      BY <1>5 DEF Load
    <2>3. Evidence(Hydrate(status[b]), stamps[b])
      BY <2>2 DEF StampsInv, StampsWitnessStatus, Evidence, Hydrate
    <2>4. \A x \in Requests : Preparing(x) => req[x].target # b
      BY <1>0, <2>2 DEF RequestInv
    <2>5. RequestInv'
      BY <1>0, <2>1, <2>2, <2>3, <2>4 DEF RequestInv, Preparing, Changing, Idle, docs
    <2>. QED
      BY <2>2, <2>5, QuietStep
  <1>6. ASSUME NEW r \in Requests, Authorise(r)
        PROVE  RequestInv' /\ StampsWitnessStatus'
    <2>1. CASE Goto(r, "save") /\ Permitted(req[r].op, req[r].seen, req[r].patch)
      <3>0. req'[r] = [req[r] EXCEPT !.pc = "save"]
        BY <1>0, <2>1, GotoEffect DEF Phases
      <3>1. UNCHANGED docs /\ req[r].pc = "authorise"
        BY <1>6 DEF Authorise
      <3>2. /\ req'[r].pc = "save" /\ req'[r].target = req[r].target
            /\ req'[r].op = req[r].op /\ req'[r].seen = req[r].seen
            /\ req'[r].patch = req[r].patch
        BY <1>0, <3>0 DEF Request
      <3>3. \A x \in Requests : x # r => req'[x] = req[x]
        BY <1>0, <2>1, GotoEffect DEF Phases
      <3>4. \A x \in Requests : /\ req'[x].target = req[x].target
                               /\ req'[x].op = req[x].op
                               /\ req'[x].seen = req[x].seen
                               /\ req'[x].patch = req[x].patch
                               /\ Idle(x)' = Idle(x)
                               /\ Preparing(x)' = Preparing(x)
                               /\ Changing(x)' = Changing(x)
        BY <3>1, <3>2, <3>3 DEF Preparing, Changing, Idle
      <3>5. RequestInv'
        BY <1>0, <2>1, <3>1, <3>3, <3>4 DEF RequestInv, docs
      <3>. QED
        BY <3>1, <3>5, QuietStep
    <2>2. CASE Finish(r)
      <3>1. /\ \A x \in Requests : x # r => req'[x] = req[x]
            /\ req'[r].pc = "idle"
            /\ UNCHANGED docs
        BY <1>0, <1>6, <2>2, FinishEffect DEF Authorise
      <3>2. RequestInv'
        BY <1>0, <3>1 DEF RequestInv, Preparing, Changing, Idle, docs
      <3>. QED
        BY <3>1, <3>2, QuietStep
    <2>. QED
      BY <1>6, <2>1, <2>2 DEF Authorise
  <1>7. ASSUME NEW r \in Requests, Save(r)
        PROVE  RequestInv' /\ StampsWitnessStatus'
    <2> DEFINE q == req[r]
               t == req[r].target
    <2>1. /\ \A x \in Requests : x # r => req'[x] = req[x]
          /\ req'[r].pc = "idle"
          /\ q.pc = "save"
      BY <1>0, <1>7, FinishEffect DEF Save
    <2>2. /\ t \in Bookings /\ status[t] # "absent" /\ q \in Request
          /\ q.op \in {"update", "cancel", "complete", "remove"}
          /\ Permitted(q.op, q.seen, q.patch) /\ Evidence(q.seen, stamps[t])
      BY <1>0, <2>1 DEF RequestInv, Changing, Idle, Request, Endpoints
    <2>3. /\ \A b \in Bookings \ {t} : status'[b] = status[b] /\ stamps'[b] = stamps[b]
          /\ status'[t] = NewStatus(q, status[t])
          /\ stamps'[t] = stamps[t] \cup NewStamps(q)
      BY <1>7, <2>2 DEF Save, StampsInv, TypeOK
    <2>4. /\ status[t] \in Statuses \cup {"unset"}
          /\ Evidence(status[t], stamps[t]) /\ StampOf(status[t]) \subseteq stamps[t]
      BY <2>2 DEF StampsInv, TypeOK, StampsWitnessStatus, Evidence
    <2>5. /\ Evidence(status'[t], stamps'[t])
          /\ StampOf(status'[t]) \subseteq stamps'[t]
          /\ status'[t] # "absent"
      BY <2>2, <2>3, <2>4, PermittedEvidence, SMTT(30)
    <2>6. StampsWitnessStatus'
      BY <2>2, <2>3, <2>5 DEF StampsInv, StampsWitnessStatus, Evidence
    <2>7. \A x \in Requests : x # r /\ Preparing(x) => req[x].target # t
      BY <1>0, <2>1 DEF RequestInv, Idle
    <2>8. \A b \in Bookings : stamps[b] \subseteq stamps'[b]
      BY <2>2, <2>3
    <2>9. RequestInv'
      <3> SUFFICES ASSUME NEW x \in Requests, x # r
                   PROVE  /\ Preparing(x)' =>
                               /\ status'[req[x].target] = "absent"
                               /\ \A y \in Requests \ {x} : Idle(y)' \/ req'[y].target # req[x].target
                          /\ Changing(x)' =>
                               /\ status'[req[x].target] # "absent"
                               /\ req[x].op \notin {"create", "manual"}
                               /\ Evidence(req[x].seen, stamps'[req[x].target])
                          /\ req[x].pc = "save" => Permitted(req[x].op, req[x].seen, req[x].patch)
        BY <2>1 DEF RequestInv, Preparing, Changing
      <3>1. ~Idle(x) => req[x].target \in Bookings
        BY <1>0
      <3>2. Preparing(x)' = Preparing(x) /\ Changing(x)' = Changing(x)
        BY <2>1 DEF Preparing, Changing
      <3>3. Preparing(x) => status'[req[x].target] = "absent"
        BY <1>0, <2>3, <2>7, <3>1 DEF RequestInv, Preparing, Idle
      <3>4. Changing(x) => /\ status'[req[x].target] # "absent"
                           /\ Evidence(req[x].seen, stamps'[req[x].target])
        BY <1>0, <2>3, <2>5, <2>8, <3>1 DEF RequestInv, Changing, Idle, Evidence
      <3>5. Preparing(x) => \A y \in Requests \ {x} : Idle(y)' \/ req'[y].target # req[x].target
        BY <1>0, <2>1 DEF RequestInv, Idle
      <3>. QED
        BY <1>0, <3>2, <3>3, <3>4, <3>5 DEF RequestInv
    <2>. QED
      BY <2>6, <2>9
  <1>8. ASSUME UNCHANGED <<docs, req>>
        PROVE  RequestInv' /\ StampsWitnessStatus'
    <2>1. RequestInv'
      BY <1>0, <1>8 DEF RequestInv, Preparing, Changing, Idle, docs
    <2>. QED
      BY <1>8, <2>1, QuietStep
  <1>9. (\E p \in Providers : ChangeStaff(p)) \/ DeleteBusiness \/ Tick \/ UNCHANGED vars
          => UNCHANGED <<docs, req>>
    BY DEF ChangeStaff, DeleteBusiness, Tick, vars
  <1>. QED
    BY <1>1, <1>2, <1>3, <1>4, <1>5, <1>6, <1>7, <1>8, <1>9 DEF Next, Step

\* However requests interleave, the timestamps witness the status.
THEOREM StampsWitness == Spec => []StampsWitnessStatus
  <1>1. StampsInv => StampsWitnessStatus
    BY DEF StampsInv
  <1>. QED
    BY <1>1, Typing, StampsInit, StampsStep, PTL DEF Spec

\* No step, of whatever request, loses part of the record of a booking.
THEOREM RecordKept == Spec => RemovalIsFinal
  <1>1. StampsInv /\ [Next]_vars => [KeepsRecord]_vars
    <2> SUFFICES ASSUME StampsInv, Next PROVE KeepsRecord
      OBVIOUS
    <2>0. /\ req \in [Requests -> Request]
          /\ \A x \in Requests : Idle(x) \/ req[x].target \in Bookings
          /\ RequestInv
      BY DEF StampsInv, TypeOK
    <2>1. ASSUME NEW r \in Requests, Insert(r)
          PROVE  KeepsRecord
      <3>1. status[req[r].target] = "absent"
        BY <2>0, <2>1 DEF RequestInv, Preparing, Insert
      <3>2. \A b \in Bookings : b # req[r].target =>
              /\ status'[b] = status[b] /\ booked'[b] = booked[b]
              /\ customer'[b] = customer[b] /\ stamps'[b] = stamps[b]
        BY <2>1 DEF Insert, StampsInv, TypeOK
      <3>. QED
        BY <2>1, <3>1, <3>2 DEF Insert, KeepsRecord
    <2>2. ASSUME NEW r \in Requests, Save(r)
          PROVE  KeepsRecord
      <3> DEFINE q == req[r]
      <3>1. /\ q.target \in Bookings /\ q \in Request
            /\ q.op \in {"update", "cancel", "complete", "remove"}
            /\ Permitted(q.op, q.seen, q.patch) /\ status[q.target] # "absent"
        BY <2>0, <2>2 DEF Save, RequestInv, Changing, Idle, Request, Endpoints
      <3>2. /\ q.patch \in Statuses \cup {NoStatus}
            /\ status[q.target] \in Statuses \cup {"unset"}
        BY <3>1 DEF Request, StampsInv, TypeOK
      <3>3. NewStatus(q, status[q.target]) # "absent"
        BY <3>1, <3>2 DEF NewStatus, Statuses, NoStatus
      <3>4. \A b \in Bookings :
              /\ b # q.target => status'[b] = status[b] /\ stamps'[b] = stamps[b]
              /\ status'[q.target] = NewStatus(q, status[q.target])
              /\ stamps'[q.target] = stamps[q.target] \cup NewStamps(q)
        BY <2>2, <3>1 DEF Save, StampsInv, TypeOK
      <3>5. deleted \subseteq deleted' /\ UNCHANGED <<customer, booked>>
        BY <2>2 DEF Save
      <3>. HIDE DEF q
      <3>. QED
        BY <3>3, <3>4, <3>5 DEF KeepsRecord
    <2>3. ASSUME UNCHANGED docs
          PROVE  KeepsRecord
      BY <2>3 DEF docs, KeepsRecord
    <2>4. ASSUME NEW r \in Requests, Step(r), ~Insert(r), ~Save(r)
          PROVE  UNCHANGED docs
      BY <2>4 DEF Step, StartBooking, CheckProvider, CheckSlot, Notify, Load, Authorise
    <2>5. ASSUME ~\E r \in Requests : Step(r)
          PROVE  UNCHANGED docs
      BY <2>5 DEF Next, ChangeStaff, DeleteBusiness, Tick
    <2>. QED
      BY <2>1, <2>2, <2>3, <2>4, <2>5
  <1>. QED
    BY <1>1, Typing, StampsInit, StampsStep, PTL DEF Spec, RemovalIsFinal

----------------------------------------------------------------------------
(***************************************************************************)
(* Exclusive slots.  Between its conflict queries and its insert a request *)
(* relies on every slot it checked staying free.  When requests are served *)
(* one after the other nothing takes them meanwhile, and a booking that    *)
(* was away gets its slots back only from unset; when only creations are,  *)
(* a slot can still be taken by a booking that comes back, by whatever     *)
(* way.  A manual booking may clash with any.                              *)
(***************************************************************************)

\* The items of the request in flight whose slots were found free.
Checked(r) ==
  {i \in DOMAIN req[r].cart :
     /\ req[r].op = "create"
     /\ \/ req[r].pc \in {"provider", "slot"} /\ i < req[r].item
        \/ req[r].pc = "insert"}

\* The current item of a body under way is one of its items.
CartInv(r) ==
  Preparing(r) => /\ req[r].op \in {"create", "manual"}
                  /\ req[r].item \in DOMAIN req[r].cart

\* A status that the conflict query does not see leaves its mark.
LapseInv == \A b \in Bookings : LapseOf(status[b]) \subseteq lapses[b]

\* Requests are served one after the other.
Serial == \A x, y \in Requests : x = y

SerialInv ==
  /\ LapseInv
  /\ \A r \in Requests :
       /\ CartInv(r)
       /\ \A i \in Checked(r) : Conflicts(req[r].cart[i]) = {}
       /\ Changing(r) => req[r].seen = Hydrate(status[req[r].target])
       /\ Changing(r) => req[r].target \notin deleted

\* Creations are served one after the other, everything else overlaps.
OneCreator == \A x, y \in Creators : x = y

RevivedInv(r) ==
  /\ CartInv(r)
  /\ Preparing(r) => r \in Creators
  /\ \A i \in Checked(r) : \A b \in Conflicts(req[r].cart[i]) : Revived(b)

OneCreatorInv == LapseInv /\ \A r \in Requests : RevivedInv(r)

LEMMA StartEffect ==
  ASSUME req \in [Requests -> Request],
         NEW r \in Requests, NEW op \in {"create", "manual"}, NEW u \in Users,
         NEW b \in Bookings, NEW cart \in Carts, StartBooking(r, op, u, b, cart)
  PROVE  /\ \A x \in Requests : x # r => req'[x] = req[x]
         /\ r \in Creators
         /\ CartInv(r)'
         /\ Checked(r)' = {}
         /\ ~Changing(r)'
  <1>1. /\ \A x \in Requests : x # r => req'[x] = req[x]
        /\ r \in Creators
        /\ req'[r].pc = "provider" /\ req'[r].op = op
        /\ req'[r].cart = cart /\ req'[r].item = 1
    BY DEF StartBooking
  <1>2. cart \in Seq(Slots) /\ Len(cart) \in Nat \ {0}
    BY CartTyped
  <1>3. 1 \in DOMAIN cart /\ \A i \in DOMAIN cart : ~(i < 1)
    BY <1>2
  <1>. QED
    BY <1>1, <1>3 DEF CartInv, Checked, Preparing, Changing

LEMMA AdvanceEffect ==
  ASSUME req \in [Requests -> Request], NEW r \in Requests, CartInv(r),
         CheckProvider(r) \/ CheckSlot(r)
  PROVE  /\ \A x \in Requests : x # r => req'[x] = req[x]
         /\ Preparing(r)
         /\ req'[r].pc \in {"idle", "provider", "slot", "insert"}
         /\ CartInv(r)'
         /\ \A i \in Checked(r)' :
              /\ req'[r].cart = req[r].cart
              /\ i \in Checked(r) \/ Conflicts(req[r].cart[i]) = {}
  <1>1. /\ req[r].op \in {"create", "manual"} /\ req[r].item \in DOMAIN req[r].cart
        /\ req[r].cart \in Seq(Slots) /\ req[r].item \in Nat
        /\ req[r].pc \in {"provider", "slot"} /\ Preparing(r)
    BY DEF CartInv, CheckProvider, CheckSlot, Preparing, Request
  <1>2. CASE Finish(r)
    BY <1>1, <1>2, FinishEffect DEF CartInv, Preparing, Checked
  <1>3. CASE Goto(r, "slot") /\ req[r].pc = "provider"
    BY <1>1, <1>3, GotoEffect DEF CartInv, Preparing, Checked, Phases
  <1>4. CASE NextItem(r) /\ (req[r].op = "manual" \/ Conflicts(req[r].cart[req[r].item]) = {})
    <2>1. /\ \A x \in Requests : x # r => req'[x] = req[x]
          /\ req'[r].pc \in {"idle", "provider", "insert"}
      BY <1>4, NextItemEffect
    <2>2. CASE req'[r].pc = "idle"
      BY <1>1, <2>1, <2>2 DEF CartInv, Preparing, Checked
    <2>3. CASE req'[r].pc = "provider"
      <3>1. /\ req'[r].cart = req[r].cart /\ req'[r].op = req[r].op
            /\ req'[r].item = req[r].item + 1 /\ req[r].item < Len(req[r].cart)
        BY <1>1, <1>4, <2>3, NextItemEffect
      <3>2. /\ req[r].item + 1 \in DOMAIN req[r].cart
            /\ \A i \in DOMAIN req[r].cart :
                 i < req[r].item + 1 => i < req[r].item \/ i = req[r].item
        BY <1>1, <3>1
      <3>. QED
        BY <1>1, <1>4, <2>1, <2>3, <3>1, <3>2 DEF CartInv, Preparing, Checked
    <2>4. CASE req'[r].pc = "insert"
      <3>1. /\ req'[r].cart = req[r].cart /\ req'[r].op = req[r].op
            /\ req'[r].item = req[r].item /\ ~(req[r].item < Len(req[r].cart))
        BY <1>1, <1>4, <2>4, NextItemEffect
      <3>2. \A i \in DOMAIN req[r].cart : i < req[r].item \/ i = req[r].item
        BY <1>1, <3>1
      <3>. QED
        BY <1>1, <1>4, <2>1, <2>4, <3>1, <3>2 DEF CartInv, Preparing, Checked
    <2>. QED
      BY <2>1, <2>2, <2>3, <2>4
  <1>. QED
    BY <1>1, <1>2, <1>3, <1>4 DEF CheckProvider, CheckSlot

\* An insert makes one new booking, which holds exactly the slots checked.
LEMMA InsertEffect ==
  ASSUME StampsInv, NEW r \in Requests, CartInv(r), Insert(r)
  PROVE  /\ req[r].target \in Bookings
         /\ \A x \in Requests : x # r => req'[x] = req[x]
         /\ req'[r].pc = "notify"
         /\ \A b \in Bookings : b # req[r].target =>
              /\ status'[b] = status[b] /\ booked'[b] = booked[b] /\ lapses'[b] = lapses[b]
         /\ status[req[r].target] = "absent"
         /\ \/ /\ req[r].op = "create" /\ status'[req[r].target] = "pending"
               /\ lapses'[req[r].target] = {}
            \/ /\ req[r].op = "manual" /\ status'[req[r].target] = "confirmed"
               /\ lapses'[req[r].target] = {"manual"}
         /\ booked'[req[r].target] = CartSlots(req[r].cart)
         /\ deleted' = deleted
         /\ req[r].op = "create" => Checked(r) = DOMAIN req[r].cart
  <1>1. /\ req \in [Requests -> Request] /\ req[r].pc = "insert"
        /\ req[r].op \in {"create", "manual"} /\ req[r].target \in Bookings
    BY DEF StampsInv, TypeOK, Insert, Idle, CartInv, Preparing
  <1>2. req'[r].pc = "notify" /\ \A x \in Requests : x # r => req'[x] = req[x]
    BY <1>1, GotoEffect DEF Insert, Phases
  <1>3. status[req[r].target] = "absent"
    BY <1>1 DEF StampsInv, RequestInv, Preparing
  <1>4. req[r].op = "create" => Checked(r) = DOMAIN req[r].cart
    BY <1>1 DEF Checked
  <1>. QED
    BY <1>1, <1>2, <1>3, <1>4 DEF Insert, StampsInv, TypeOK

\* A save changes one booking, which exists, and no slots.
LEMMA SaveEffect ==
  ASSUME StampsInv, NEW r \in Requests, Save(r)
  PROVE  /\ req[r] \in Request
         /\ req[r].pc = "save" /\ Changing(r) /\ ~Preparing(r)
         /\ req[r].target \in Bookings
         /\ req[r].op \in {"update", "cancel", "complete", "remove"}
         /\ Permitted(req[r].op, req[r].seen, req[r].patch)
         /\ \A x \in Requests : x # r => req'[x] = req[x]
         /\ req'[r].pc = "idle"
         /\ \A b \in Bookings : b # req[r].target =>
              status'[b] = status[b] /\ lapses'[b] = lapses[b]
         /\ status[req[r].target] \in Statuses \cup {"unset"}
         /\ status'[req[r].target] = NewStatus(req[r], status[req[r].target])
         /\ lapses'[req[r].target] =
              lapses[req[r].target] \cup LapseOf(NewStatus(req[r], status[req[r].target]))
         /\ booked' = booked
         /\ deleted \subseteq deleted'
  <1>1. req \in [Requests -> Request] /\ req[r].pc = "save"
    BY DEF StampsInv, TypeOK, Save
  <1>2. /\ req[r] \in Request /\ req[r].target \in Bookings
        /\ Changing(r) /\ ~Preparing(r)
    BY <1>1 DEF StampsInv, TypeOK, Idle, Changing, Preparing
  <1>3. /\ status[req[r].target] # "absent"
        /\ req[r].op \in {"update", "cancel", "complete", "remove"}
        /\ Permitted(req[r].op, req[r].seen, req[r].patch)
    BY <1>1, <1>2 DEF StampsInv, RequestInv, Request, Endpoints
  <1>4. req'[r].pc = "idle" /\ \A x \in Requests : x # r => req'[x] = req[x]
    BY <1>1, FinishEffect DEF Save
  <1>5. status[req[r].target] \in Statuses \cup {"unset"}
    BY <1>2, <1>3 DEF StampsInv, TypeOK
  <1>. QED
    BY <1>1, <1>2, <1>3, <1>4, <1>5 DEF Save, StampsInv, TypeOK

----------------------------------------------------------------------------
\* A save leaves its mark on a booking that goes out of the query's sight, and
\* one that is in its sight again has such a mark.
LEMMA LapseSave ==
  ASSUME StampsInv, LapseInv, NEW r \in Requests, Save(r)
  PROVE  /\ LapseInv'
         /\ \A b \in Bookings :
              /\ lapses[b] \subseteq lapses'[b]
              /\ Occupies(b)' => Occupies(b) \/ lapses[b] # {}
  <1>0. PICK t \in Bookings : t = req[r].target
    BY SaveEffect
  <1>1. /\ deleted \subseteq deleted' /\ status[t] \in Statuses \cup {"unset"}
        /\ status'[t] = NewStatus(req[r], status[t])
        /\ lapses'[t] = lapses[t] \cup LapseOf(status'[t])
        /\ \A b \in Bookings : b # t => status'[b] = status[b] /\ lapses'[b] = lapses[b]
    BY <1>0, SaveEffect
  <1>2. LapseInv'
    BY <1>1 DEF LapseInv
  <1>3. Occupies(t)' => Occupies(t) \/ lapses[t] # {}
    <2>1. status[t] \in Occupying \/ LapseOf(status[t]) # {}
      BY <1>1 DEF LapseOf, Occupying, Statuses
    <2>. QED
      BY <1>1, <2>1 DEF Occupies, LapseInv
  <1>. QED
    BY <1>1, <1>2, <1>3 DEF Occupies

\* Served one after the other, only an unset booking gets its slots back.
LEMMA SerialSave ==
  ASSUME StampsInv, SerialInv, NEW r \in Requests, Save(r)
  PROVE  \A b \in Bookings :
           Occupies(b)' /\ ~Escaped(b)' => Occupies(b) /\ ~Escaped(b)
  <1>0. PICK t \in Bookings : t = req[r].target
    BY SaveEffect
  <1>1. req[r].seen = Hydrate(status[t]) /\ t \notin deleted
    BY <1>0, SaveEffect DEF SerialInv
  <1>2. /\ req[r].op \in {"update", "cancel", "complete", "remove"}
        /\ Permitted(req[r].op, Hydrate(status[t]), req[r].patch)
        /\ status[t] \in Statuses \cup {"unset"}
        /\ status'[t] = NewStatus(req[r], status[t])
    BY <1>0, <1>1, SaveEffect
  <1>3. /\ LapseOf(status[t]) \subseteq lapses[t] /\ lapses[t] \subseteq lapses'[t]
        /\ \A b \in Bookings : b # t =>
             status'[b] = status[b] /\ lapses'[b] = lapses[b] /\ (b \in deleted => b \in deleted')
    BY <1>0, SaveEffect DEF SerialInv, LapseInv
  <1>4. req[r].patch \in Statuses \cup {NoStatus}
    BY SaveEffect DEF Request
  <1>5. status[t] = "unset" => Escaped(t) /\ "unset" \in lapses'[t]
    BY <1>3 DEF LapseOf, Escaped
  <1>6. status[t] # "unset" /\ status'[t] \in Occupying => status[t] \in Occupying
    <2> SUFFICES ASSUME status[t] # "unset", status'[t] \in Occupying
                 PROVE  status[t] \in Occupying
      OBVIOUS
    <2>1. Hydrate(status[t]) = status[t] /\ status[t] \in Statuses
      BY <1>2 DEF Hydrate
    <2>2. CASE req[r].op = "update"
      <3>1. status'[t] = req[r].patch /\ req[r].patch \in Table[status[t]]
        BY <1>2, <2>1, <2>2 DEF NewStatus, Permitted, Occupying
      <3>. QED
        BY <2>1, <3>1 DEF Table, Statuses, Occupying
    <2>3. CASE req[r].op # "update"
      BY <1>2, <2>3 DEF NewStatus, Occupying
    <2>. QED
      BY <2>2, <2>3
  <1>7. Occupies(t)' /\ ~Escaped(t)' => Occupies(t) /\ ~Escaped(t)
    BY <1>1, <1>3, <1>5, <1>6 DEF Occupies, Escaped
  <1>8. \A b \in Bookings : b # t =>
          (Occupies(b)' /\ ~Escaped(b)' => Occupies(b) /\ ~Escaped(b))
    BY <1>3 DEF Occupies, Escaped
  <1>. QED
    BY <1>7, <1>8

LEMMA SerialStep ==
  ASSUME Serial, StampsInv, SerialInv, OnlyEscapedClash, Next
  PROVE  SerialInv' /\ OnlyEscapedClash'
  <1>0. /\ req \in [Requests -> Request]
        /\ \A x, y \in Requests : x = y
    BY DEF StampsInv, TypeOK, Serial
  <1>1. ASSUME NEW r \in Requests, NEW op \in {"create", "manual"}, NEW u \in Users,
               NEW b \in Bookings, NEW cart \in Carts, StartBooking(r, op, u, b, cart)
        PROVE  SerialInv' /\ OnlyEscapedClash'
    <2>1. CartInv(r)' /\ Checked(r)' = {} /\ ~Changing(r)'
      BY <1>0, <1>1, StartEffect
    <2>2. UNCHANGED <<docs, lapses>>
      BY <1>1 DEF StartBooking
    <2>. QED
      BY <1>0, <2>1, <2>2 DEF SerialInv, LapseInv, OnlyEscapedClash, Clash, Escaped, Occupies, docs
  <1>2. ASSUME NEW r \in Requests, CheckProvider(r) \/ CheckSlot(r)
        PROVE  SerialInv' /\ OnlyEscapedClash'
    <2>1. UNCHANGED <<docs, lapses>> /\ CartInv(r)
      BY <1>2 DEF CheckProvider, CheckSlot, SerialInv
    <2>2. /\ CartInv(r)' /\ ~Changing(r)'
          /\ \A i \in Checked(r)' :
               /\ req'[r].cart = req[r].cart
               /\ i \in Checked(r) \/ Conflicts(req[r].cart[i]) = {}
      BY <1>0, <1>2, <2>1, AdvanceEffect DEF Changing
    <2>3. \A i \in Checked(r)' : Conflicts(req[r].cart[i]) = {}
      BY <2>2 DEF SerialInv
    <2>4. \A s : Conflicts(s)' = Conflicts(s)
      BY <2>1 DEF Conflicts, Occupies, docs
    <2>. QED
      BY <1>0, <2>1, <2>2, <2>3, <2>4 DEF SerialInv, LapseInv, OnlyEscapedClash, Clash, Escaped, Occupies, docs
  <1>3. ASSUME NEW r \in Requests, Insert(r)
        PROVE  SerialInv' /\ OnlyEscapedClash'
    <2>0. CartInv(r) /\ LapseInv
      BY DEF SerialInv
    <2>1. PICK t \in Bookings : t = req[r].target
      BY <1>3, <2>0, InsertEffect
    <2>2. /\ req'[r].pc = "notify" /\ deleted' = deleted
          /\ \A b \in Bookings : b # t =>
               status'[b] = status[b] /\ booked'[b] = booked[b] /\ lapses'[b] = lapses[b]
          /\ status'[t] \in {"pending", "confirmed"}
          /\ booked'[t] = CartSlots(req[r].cart)
          /\ \/ req[r].op = "create" /\ Checked(r) = DOMAIN req[r].cart
             \/ "manual" \in lapses'[t]
      BY <1>3, <2>0, <2>1, InsertEffect
    <2>3. LapseInv'
      BY <2>0, <2>2 DEF LapseInv, LapseOf
    <2>4. SerialInv'
      BY <1>0, <2>2, <2>3 DEF SerialInv, CartInv, Checked, Preparing, Changing
    <2>5. \A b \in Bookings : b # t =>
            Occupies(b)' = Occupies(b) /\ Escaped(b)' = Escaped(b)
      BY <2>2 DEF Occupies, Escaped
    <2>6. \A b \in Bookings :
            b # t /\ Occupies(b)' => booked'[b] \cap booked'[t] = {} \/ Escaped(t)'
      <3> SUFFICES ASSUME NEW b \in Bookings, b # t, Occupies(b)', ~Escaped(t)',
                          NEW i \in DOMAIN req[r].cart, req[r].cart[i] \in booked[b]
                   PROVE  FALSE
        BY <2>2 DEF CartSlots
      <3>1. Checked(r) = DOMAIN req[r].cart
        BY <2>2 DEF Escaped
      <3>2. Conflicts(req[r].cart[i]) = {}
        BY <3>1 DEF SerialInv
      <3>. QED
        BY <2>5, <3>2 DEF Conflicts
    <2>7. OnlyEscapedClash'
      BY <2>2, <2>5, <2>6 DEF OnlyEscapedClash, Clash
    <2>. QED
      BY <2>4, <2>7
  <1>4. ASSUME NEW r \in Requests, Notify(r)
        PROVE  SerialInv' /\ OnlyEscapedClash'
    <2>1. req'[r].pc = "idle" /\ UNCHANGED <<docs, lapses>>
      BY <1>0, <1>4, FinishEffect DEF Notify
    <2>. QED
      BY <1>0, <2>1
      DEF SerialInv, LapseInv, OnlyEscapedClash, Clash, Escaped, Occupies, CartInv, Checked, Preparing, Changing, docs
  <1>5. ASSUME NEW r \in Requests, NEW op \in Endpoints, NEW u \in Users,
               NEW b \in Bookings, NEW patch \in PatchStatuses \cup {NoStatus},
               Load(r, op, u, b, patch)
        PROVE  SerialInv' /\ OnlyEscapedClash'
    <2>1. /\ req'[r].pc \in {"save", "authorise"} /\ req'[r].target = b
          /\ req'[r].seen = Hydrate(status[b])
      BY <1>0, <1>5 DEF Load
    <2>2. UNCHANGED <<docs, lapses>> /\ b \notin deleted
      BY <1>5 DEF Load
    <2>. QED
      BY <1>0, <2>1, <2>2
      DEF SerialInv, LapseInv, OnlyEscapedClash, Clash, Escaped, Occupies, CartInv, Checked, Preparing, Changing, docs
  <1>6. ASSUME NEW r \in Requests, Authorise(r)
        PROVE  SerialInv' /\ OnlyEscapedClash'
    <2>1. UNCHANGED <<docs, lapses>> /\ Changing(r)
      BY <1>6 DEF Authorise, Changing
    <2>2. CASE Goto(r, "save")
      <3>1. req'[r] = [req[r] EXCEPT !.pc = "save"]
        BY <1>0, <2>2, GotoEffect DEF Phases
      <3>2. /\ req'[r].pc = "save" /\ req'[r].target = req[r].target
            /\ req'[r].seen = req[r].seen
        BY <1>0, <3>1 DEF Request
      <3>. QED
        BY <1>0, <2>1, <3>2
        DEF SerialInv, LapseInv, OnlyEscapedClash, Clash, Escaped, Occupies, CartInv, Checked, Preparing, Changing, docs
    <2>3. CASE Finish(r)
      <3>1. req'[r].pc = "idle"
        BY <1>0, <2>3, FinishEffect
      <3>. QED
        BY <1>0, <2>1, <3>1
        DEF SerialInv, LapseInv, OnlyEscapedClash, Clash, Escaped, Occupies, CartInv, Checked, Preparing, Changing, docs
    <2>. QED
      BY <1>6, <2>2, <2>3 DEF Authorise
  <1>7. ASSUME NEW r \in Requests, Save(r)
        PROVE  SerialInv' /\ OnlyEscapedClash'
    <2>1. req'[r].pc = "idle" /\ booked' = booked
      BY <1>7, SaveEffect
    <2>2. \A b \in Bookings :
            Occupies(b)' /\ ~Escaped(b)' => Occupies(b) /\ ~Escaped(b)
      BY <1>7, SerialSave
    <2>3. LapseInv' /\ \A b \in Bookings : Escaped(b) => Escaped(b)'
      BY <1>7, LapseSave DEF SerialInv, Escaped
    <2>4. OnlyEscapedClash'
      <3> SUFFICES ASSUME NEW x \in Bookings, NEW y \in Bookings, Clash(x, y)',
                          ~Escaped(x)', ~Escaped(y)'
                   PROVE  FALSE
        BY DEF OnlyEscapedClash
      <3>1. Clash(x, y) /\ ~Escaped(x) /\ ~Escaped(y)
        BY <2>1, <2>2 DEF Clash
      <3>. QED
        BY <3>1 DEF OnlyEscapedClash
    <2>5. SerialInv'
      BY <1>0, <2>1, <2>3 DEF SerialInv, CartInv, Checked, Preparing, Changing
    <2>. QED
      BY <2>4, <2>5
  <1>8. ASSUME UNCHANGED <<docs, lapses, req>>
        PROVE  SerialInv' /\ OnlyEscapedClash'
    BY <1>8
    DEF SerialInv, LapseInv, OnlyEscapedClash, Clash, Escaped, Conflicts, Occupies, CartInv,
        Checked, Preparing, Changing, docs
  <1>9. (\E p \in Providers : ChangeStaff(p)) \/ DeleteBusiness \/ Tick
          => UNCHANGED <<docs, lapses, req>>
    BY DEF ChangeStaff, DeleteBusiness, Tick
  <1>. QED
    BY <1>1, <1>2, <1>3, <1>4, <1>5, <1>6, <1>7, <1>8, <1>9 DEF Next, Step

\* The inductive invariant of serial service.
SerialSlots == StampsInv /\ SerialInv /\ OnlyEscapedClash

LEMMA SerialInit == Init => SerialSlots
  <1> SUFFICES ASSUME Init PROVE SerialInv /\ OnlyEscapedClash
    BY StampsInit DEF SerialSlots
  <1>1. LapseInv /\ \A b \in Bookings : ~Occupies(b)
    BY DEF Init, LapseInv, LapseOf, Occupies, Occupying
  <1>2. \A r \in Requests : req[r].pc = "idle"
    BY DEF Init, NoRequest
  <1>. QED
    BY <1>1, <1>2
    DEF SerialInv, OnlyEscapedClash, Clash, CartInv, Checked, Preparing, Changing

LEMMA SerialInduction ==
  ASSUME Serial, SerialSlots, TypeOK', [Next]_vars
  PROVE  SerialSlots'
  <1>1. StampsInv'
    BY StampsStep DEF SerialSlots
  <1>2. CASE Next
    BY <1>1, <1>2, SerialStep DEF SerialSlots
  <1>3. CASE UNCHANGED vars
    BY <1>1, <1>3
    DEF SerialSlots, SerialInv, LapseInv, OnlyEscapedClash, Clash, Escaped, Conflicts,
        Occupies, CartInv, Checked, Preparing, Changing, vars, docs
  <1>. QED
    BY <1>2, <1>3

\* With requests served one after the other, two bookings hold one slot only
\* if one of them is manual or was once without a status.
THEOREM SerialExclusion ==
  ASSUME Serial
  PROVE  Spec => []OnlyEscapedClash
  <1>1. SerialSlots /\ TypeOK' /\ [Next]_vars => SerialSlots'
    BY SerialInduction
  <1>2. SerialSlots => OnlyEscapedClash
    BY DEF SerialSlots
  <1>. QED
    BY <1>1, <1>2, SerialInit, Typing, PTL DEF Spec

----------------------------------------------------------------------------
\* A step that changes no document only has its own request to account for.
LEMMA OneCreatorQuiet ==
  ASSUME OneCreatorInv, OnlyRevivedClash, UNCHANGED <<docs, lapses>>, NEW r \in Requests,
         \A x \in Requests : x # r => req'[x] = req[x], RevivedInv(r)'
  PROVE  OneCreatorInv' /\ OnlyRevivedClash'
  <1>1. /\ \A s : Conflicts(s)' = Conflicts(s)
        /\ \A b : Revived(b)' = Revived(b) /\ Occupies(b)' = Occupies(b)
        /\ LapseInv' = LapseInv
    BY DEF LapseInv, Conflicts, Revived, Occupies, docs
  <1>2. \A x \in Requests : x # r => RevivedInv(x)'
    BY <1>1 DEF OneCreatorInv, RevivedInv, CartInv, Checked, Preparing, Changing
  <1>. QED
    BY <1>1, <1>2 DEF OneCreatorInv, OnlyRevivedClash, Clash, docs

LEMMA OneCreatorStep ==
  ASSUME OneCreator, StampsInv, OneCreatorInv, OnlyRevivedClash, Next
  PROVE  OneCreatorInv' /\ OnlyRevivedClash'
  <1>0. /\ req \in [Requests -> Request]
        /\ \A x, y \in Creators : x = y
    BY DEF StampsInv, TypeOK, OneCreator
  <1>1. ASSUME NEW r \in Requests, NEW op \in {"create", "manual"}, NEW u \in Users,
               NEW b \in Bookings, NEW cart \in Carts, StartBooking(r, op, u, b, cart)
        PROVE  OneCreatorInv' /\ OnlyRevivedClash'
    <2>1. /\ CartInv(r)' /\ Checked(r)' = {} /\ ~Changing(r)'
          /\ r \in Creators /\ \A x \in Requests : x # r => req'[x] = req[x]
      BY <1>0, <1>1, StartEffect
    <2>2. RevivedInv(r)' /\ UNCHANGED <<docs, lapses>>
      BY <1>1, <2>1 DEF StartBooking, RevivedInv
    <2>. QED
      BY <2>1, <2>2, OneCreatorQuiet
  <1>2. ASSUME NEW r \in Requests, CheckProvider(r) \/ CheckSlot(r)
        PROVE  OneCreatorInv' /\ OnlyRevivedClash'
    <2>1. UNCHANGED <<docs, lapses>> /\ RevivedInv(r) /\ CartInv(r)
      BY <1>2 DEF CheckProvider, CheckSlot, OneCreatorInv, RevivedInv
    <2>2. /\ CartInv(r)' /\ ~Changing(r)' /\ r \in Creators
          /\ \A x \in Requests : x # r => req'[x] = req[x]
          /\ \A i \in Checked(r)' :
               /\ req'[r].cart = req[r].cart
               /\ i \in Checked(r) \/ Conflicts(req[r].cart[i]) = {}
      BY <1>0, <1>2, <2>1, AdvanceEffect DEF Changing, RevivedInv
    <2>3. \A i \in Checked(r)' : \A b \in Conflicts(req[r].cart[i]) : Revived(b)
      BY <2>1, <2>2 DEF RevivedInv
    <2>4. /\ \A s : Conflicts(s)' = Conflicts(s)
          /\ \A b : Revived(b)' = Revived(b)
      BY <2>1 DEF Conflicts, Revived, Occupies, docs
    <2>5. RevivedInv(r)'
      BY <2>2, <2>3, <2>4 DEF RevivedInv
    <2>. QED
      BY <2>1, <2>2, <2>5, OneCreatorQuiet
  <1>3. ASSUME NEW r \in Requests, Insert(r)
        PROVE  OneCreatorInv' /\ OnlyRevivedClash'
    <2>0. RevivedInv(r) /\ CartInv(r) /\ r \in Creators /\ LapseInv
      BY <1>3 DEF OneCreatorInv, RevivedInv, Insert, Preparing
    <2>t. PICK t \in Bookings : t = req[r].target
      BY <1>3, <2>0, InsertEffect
    <2>1. /\ req'[r].pc = "notify"
          /\ \A x \in Requests : x # r => req'[x] = req[x]
          /\ \A b \in Bookings : b # t =>
               /\ status'[b] = status[b] /\ booked'[b] = booked[b] /\ lapses'[b] = lapses[b]
          /\ status'[t] \in {"pending", "confirmed"}
          /\ booked'[t] = CartSlots(req[r].cart)
          /\ deleted' = deleted
          /\ Checked(r) = DOMAIN req[r].cart \/ lapses'[t] # {}
      BY <1>3, <2>0, <2>t, InsertEffect
    <2>2. \A b \in Bookings : b # t =>
            Occupies(b)' = Occupies(b) /\ Revived(b)' = Revived(b)
      BY <2>1 DEF Occupies, Revived
    <2>3. \A x \in Requests : x # r => ~Preparing(x)
      BY <1>0, <2>0 DEF OneCreatorInv, RevivedInv
    <2>4. \A x \in Requests : x # r => RevivedInv(x)'
      <3> SUFFICES ASSUME NEW x \in Requests, x # r PROVE RevivedInv(x)'
        OBVIOUS
      <3>1. req'[x] = req[x] /\ RevivedInv(x) /\ ~Preparing(x)
        BY <2>1, <2>3 DEF OneCreatorInv
      <3>. QED
        BY <3>1 DEF RevivedInv, CartInv, Checked, Preparing, Changing
    <2>5. RevivedInv(r)'
      BY <2>1 DEF RevivedInv, CartInv, Checked, Preparing, Changing
    <2>6. LapseInv' /\ OneCreatorInv'
      BY <2>0, <2>1, <2>4, <2>5 DEF OneCreatorInv, LapseInv, LapseOf
    <2>7. \A b \in Bookings :
            b # t /\ Occupies(b)' /\ Occupies(t)' /\ booked'[b] \cap booked'[t] # {}
              => Revived(b)' \/ Revived(t)'
      <3> SUFFICES ASSUME NEW b \in Bookings, b # t, Occupies(b)', Occupies(t)', lapses'[t] = {},
                          NEW i \in DOMAIN req[r].cart, req[r].cart[i] \in booked[b]
                   PROVE  Revived(b)
        BY <2>1, <2>2 DEF CartSlots, Revived
      <3>1. b \in Conflicts(req[r].cart[i])
        BY <2>2 DEF Conflicts
      <3>. QED
        BY <2>0, <2>1, <3>1 DEF RevivedInv
    <2>8. OnlyRevivedClash'
      BY <2>1, <2>2, <2>7 DEF OnlyRevivedClash, Clash
    <2>. QED
      BY <2>6, <2>8
  <1>4. ASSUME NEW r \in Requests, Notify(r)
        PROVE  OneCreatorInv' /\ OnlyRevivedClash'
    <2>1. /\ req'[r].pc = "idle" /\ UNCHANGED <<docs, lapses>>
          /\ \A x \in Requests : x # r => req'[x] = req[x]
      BY <1>0, <1>4, FinishEffect DEF Notify
    <2>2. RevivedInv(r)'
      BY <2>1 DEF RevivedInv, CartInv, Checked, Preparing, Changing
    <2>. QED
      BY <2>1, <2>2, OneCreatorQuiet
  <1>5. ASSUME NEW r \in Requests, NEW op \in Endpoints, NEW u \in Users,
               NEW b \in Bookings, NEW patch \in PatchStatuses \cup {NoStatus},
               Load(r, op, u, b, patch)
        PROVE  OneCreatorInv' /\ OnlyRevivedClash'
    <2>1. /\ req'[r].pc \in {"save", "authorise"}
          /\ \A x \in Requests : x # r => req'[x] = req[x]
      BY <1>0, <1>5 DEF Load
    <2>2. UNCHANGED <<docs, lapses>>
      BY <1>5 DEF Load
    <2>3. RevivedInv(r)'
      BY <2>1, <2>2 DEF RevivedInv, CartInv, Checked, Preparing, Changing
    <2>. QED
      BY <2>1, <2>2, <2>3, OneCreatorQuiet
  <1>6. ASSUME NEW r \in Requests, Authorise(r)
        PROVE  OneCreatorInv' /\ OnlyRevivedClash'
    <2>1. UNCHANGED <<docs, lapses>> /\ Changing(r) /\ RevivedInv(r)
      BY <1>6 DEF Authorise, Changing, OneCreatorInv
    <2>2. CASE Goto(r, "save")
      <3>1. /\ req'[r] = [req[r] EXCEPT !.pc = "save"]
            /\ \A x \in Requests : x # r => req'[x] = req[x]
        BY <1>0, <2>2, GotoEffect DEF Phases
      <3>2. req'[r].pc = "save"
        BY <1>0, <3>1 DEF Request
      <3>3. RevivedInv(r)'
        BY <2>1, <3>2 DEF RevivedInv, CartInv, Checked, Preparing, Changing
      <3>4. \A x \in Requests : x # r => req'[x] = req[x]
        BY <3>1
      <3>. QED
        BY <2>1, <3>3, <3>4, OneCreatorQuiet
    <2>3. CASE Finish(r)
      <3>1. req'[r].pc = "idle" /\ \A x \in Requests : x # r => req'[x] = req[x]
        BY <1>0, <2>3, FinishEffect
      <3>2. RevivedInv(r)'
        BY <3>1 DEF RevivedInv, CartInv, Checked, Preparing, Changing
      <3>. QED
        BY <2>1, <3>1, <3>2, OneCreatorQuiet
    <2>. QED
      BY <1>6, <2>2, <2>3 DEF Authorise
  <1>7. ASSUME NEW r \in Requests, Save(r)
        PROVE  OneCreatorInv' /\ OnlyRevivedClash'
    <2>1. /\ req'[r].pc = "idle" /\ booked' = booked
          /\ \A x \in Requests : x # r => req'[x] = req[x]
      BY <1>7, SaveEffect
    <2>2. /\ LapseInv'
          /\ \A b \in Bookings :
               Occupies(b)' => Revived(b)' \/ (Occupies(b) /\ ~Revived(b))
      <3>1. /\ LapseInv'
            /\ \A b \in Bookings :
                 /\ lapses[b] \subseteq lapses'[b]
                 /\ Occupies(b)' => Occupies(b) \/ lapses[b] # {}
        BY <1>7, LapseSave DEF OneCreatorInv
      <3>. QED
        BY <3>1 DEF Revived
    <2>3. OnlyRevivedClash'
      BY <2>1, <2>2 DEF OnlyRevivedClash, Clash
    <2>4. \A s : \A b \in Conflicts(s)' : Revived(b)' \/ (b \in Conflicts(s) /\ ~Revived(b))
      BY <2>1, <2>2 DEF Conflicts
    <2>5. \A x \in Requests : x # r => RevivedInv(x)'
      <3> SUFFICES ASSUME NEW x \in Requests, x # r PROVE RevivedInv(x)'
        OBVIOUS
      <3>1. req'[x] = req[x] /\ RevivedInv(x)
        BY <2>1 DEF OneCreatorInv
      <3>2. \A i \in Checked(x) : \A b \in Conflicts(req[x].cart[i])' : Revived(b)'
        BY <2>4, <3>1 DEF RevivedInv
      <3>. QED
        BY <3>1, <3>2 DEF RevivedInv, CartInv, Checked, Preparing, Changing
    <2>6. RevivedInv(r)'
      BY <2>1 DEF RevivedInv, CartInv, Checked, Preparing, Changing
    <2>7. OneCreatorInv'
      BY <2>2, <2>5, <2>6 DEF OneCreatorInv
    <2>. QED
      BY <2>3, <2>7
  <1>8. ASSUME UNCHANGED <<docs, lapses, req>>
        PROVE  OneCreatorInv' /\ OnlyRevivedClash'
    BY <1>8
    DEF OneCreatorInv, LapseInv, RevivedInv, OnlyRevivedClash, Clash, Conflicts, Occupies,
        Revived, CartInv, Checked, Preparing, Changing, docs
  <1>9. (\E p \in Providers : ChangeStaff(p)) \/ DeleteBusiness \/ Tick
          => UNCHANGED <<docs, lapses, req>>
    BY DEF ChangeStaff, DeleteBusiness, Tick
  <1>. QED
    BY <1>1, <1>2, <1>3, <1>4, <1>5, <1>6, <1>7, <1>8, <1>9 DEF Next, Step

\* With creations served one at a time, and everything else concurrent, a slot
\* is only double-booked by a manual booking or by one that was away before.
THEOREM OneCreatorExclusion ==
  ASSUME OneCreator
  PROVE  Spec => []OnlyRevivedClash
  <1> DEFINE Inv == StampsInv /\ OneCreatorInv /\ OnlyRevivedClash
  <1>1. Init => Inv
    <2> SUFFICES ASSUME Init PROVE OneCreatorInv /\ OnlyRevivedClash
      BY StampsInit
    <2>. QED
      BY DEF Init, OneCreatorInv, LapseInv, LapseOf, RevivedInv, OnlyRevivedClash, Clash, Occupies, Occupying,
             CartInv, Checked, Preparing, Changing, NoRequest
  <1>2. Inv /\ TypeOK' /\ [Next]_vars => Inv'
    <2> SUFFICES ASSUME Inv, TypeOK', [Next]_vars PROVE Inv'
      OBVIOUS
    <2>1. StampsInv'
      BY StampsStep
    <2>2. CASE Next
      BY <2>1, <2>2, OneCreatorStep
    <2>3. CASE UNCHANGED vars
      BY <2>1, <2>3
      DEF OneCreatorInv, LapseInv, RevivedInv, OnlyRevivedClash, Clash, Conflicts, Occupies,
          Revived, CartInv, Checked, Preparing, Changing, vars, docs
    <2>. QED
      BY <2>2, <2>3
  <1>3. Inv => OnlyRevivedClash
    OBVIOUS
  <1>. QED
    BY <1>1, <1>2, <1>3, Typing, PTL DEF Spec

----------------------------------------------------------------------------
(***************************************************************************)
(* Refinement.  Served one after the other, a creation reserves its slots  *)
(* in one step (the insert), a manual one enters it, a change is one step  *)
(* of one booking's life (the save), and every other step is invisible.    *)
(***************************************************************************)

LEMMA CalendarInit == Init => Calendar!Init
  BY DEF Init, Calendar!Init

LEMMA CalendarReserve ==
  ASSUME StampsInv, SerialInv, NEW r \in Requests, Insert(r)
  PROVE  Calendar!Next
  <1>0. CartInv(r)
    BY DEF SerialInv
  <1>1. PICK t \in Bookings : t = req[r].target
    BY <1>0, InsertEffect
  <1>2. PICK S \in SUBSET Slots : S = CartSlots(req[r].cart)
    BY CartSlotsTyped DEF StampsInv, TypeOK, Request
  <1>3. S # {}
    <2>1. req[r].item \in DOMAIN req[r].cart
      BY <1>0 DEF CartInv, Preparing, Insert
    <2>. QED
      BY <1>2, <2>1 DEF CartSlots
  <1>4. /\ status[t] = "absent" /\ deleted' = deleted
        /\ \/ /\ req[r].op = "create" /\ status'[t] = "pending"
              /\ Checked(r) = DOMAIN req[r].cart
           \/ req[r].op = "manual" /\ status'[t] = "confirmed"
    BY <1>0, <1>1, InsertEffect
  <1>5. /\ booked' = [booked EXCEPT ![t] = S]
        /\ status' = [status EXCEPT ![t] = status'[t]]
    BY <1>1, <1>2 DEF Insert, StampsInv, TypeOK
  <1>6. CASE req[r].op = "create"
    <2>1. \A s \in S : Calendar!Free(s)
      <3> SUFFICES ASSUME NEW i \in DOMAIN req[r].cart, NEW b \in Bookings,
                          Calendar!Live(b), req[r].cart[i] \in booked[b]
                   PROVE  FALSE
        BY <1>2 DEF Calendar!Free, CartSlots
      <3>1. Occupies(b)
        BY DEF Calendar!Live, Occupies, Occupying
      <3>2. Conflicts(req[r].cart[i]) = {}
        BY <1>4, <1>6 DEF SerialInv
      <3>. QED
        BY <3>1, <3>2 DEF Conflicts
    <2>2. Calendar!Reserve(t, S)
      BY <1>4, <1>5, <1>6, <2>1 DEF Calendar!Reserve
    <2>. QED
      BY <1>3, <2>2 DEF Calendar!Next
  <1>7. CASE req[r].op = "manual"
    <2>1. Calendar!Enter(t, S)
      BY <1>4, <1>5, <1>7 DEF Calendar!Enter
    <2>. QED
      BY <1>3, <2>1 DEF Calendar!Next
  <1>. QED
    BY <1>4, <1>6, <1>7

LEMMA CalendarMove ==
  ASSUME StampsInv, SerialInv, NEW r \in Requests, Save(r)
  PROVE  Calendar!Next
  <1>1. PICK t \in Bookings : t = req[r].target
    BY SaveEffect
  <1>2. /\ req[r].seen = Hydrate(status[t]) /\ t \notin deleted
        /\ req[r].seen = Calendar!Standing(t)
    BY <1>1, SaveEffect DEF SerialInv, Hydrate, Calendar!Standing
  <1>3. /\ req[r].op \in {"update", "cancel", "complete", "remove"}
        /\ Permitted(req[r].op, Calendar!Standing(t), req[r].patch)
        /\ status[t] \in Statuses \cup {"unset"}
        /\ status' = [status EXCEPT ![t] = NewStatus(req[r], status[t])]
        /\ booked' = booked
        /\ req[r].patch \in Statuses \cup {NoStatus}
    BY <1>1, <1>2, SaveEffect DEF Request, Save
  <1>4. status[t] # "absent" /\ Calendar!Standing(t) \in Statuses
    BY <1>3 DEF Statuses, Calendar!Standing
  <1>5. CASE req[r].op = "remove"
    <2>1. status' = status /\ deleted' = deleted \cup {t}
      BY <1>1, <1>3, <1>5 DEF NewStatus, Save, StampsInv, TypeOK
    <2>2. Calendar!Hide(t)
      BY <1>2, <1>3, <1>4, <2>1 DEF Calendar!Hide
    <2>. QED
      BY <2>2 DEF Calendar!Next
  <1>6. CASE req[r].op # "remove"
    <2>1. deleted' = deleted
      BY <1>6 DEF Save
    <2>2. CASE req[r].op = "cancel"
      <3>1. Calendar!Cancel(t)
        BY <1>2, <1>3, <1>4, <2>1, <2>2
        DEF NewStatus, Permitted, Calendar!Cancel, Calendar!Standing
      <3>. QED
        BY <3>1 DEF Calendar!Next
    <2>3. CASE req[r].op = "complete"
      <3>1. Calendar!Move(t, "completed")
        BY <1>2, <1>3, <2>1, <2>3 DEF NewStatus, Permitted, Calendar!Move, Calendar!Moves
      <3>. QED
        BY <3>1 DEF Calendar!Next, Calendar!Statuses
    <2>4. CASE req[r].op = "update" /\ req[r].patch = NoStatus
      <3>1. Calendar!Unset(t)
        BY <1>2, <1>3, <1>4, <2>1, <2>4 DEF NewStatus, Calendar!Unset
      <3>. QED
        BY <3>1 DEF Calendar!Next
    <2>5. CASE req[r].op = "update" /\ req[r].patch # NoStatus
      <3>1. req[r].patch \in Table[Calendar!Standing(t)]
        BY <1>3, <2>5 DEF Permitted
      <3>2. req[r].patch \in Calendar!Moves[Calendar!Standing(t)]
        BY <1>4, <3>1 DEF Table, Calendar!Moves, Statuses
      <3>3. Calendar!Move(t, req[r].patch)
        BY <1>2, <1>3, <2>1, <2>5, <3>2 DEF NewStatus, Calendar!Move
      <3>4. req[r].patch \in Calendar!Statuses
        BY <1>3, <2>5 DEF Statuses, Calendar!Statuses
      <3>. QED
        BY <3>3, <3>4 DEF Calendar!Next
    <2>. QED
      BY <1>3, <1>6, <2>2, <2>3, <2>4, <2>5
  <1>. QED
    BY <1>5, <1>6

\* With requests served one after the other the module is a calendar.
THEOREM SerialRefinement ==
  ASSUME Serial
  PROVE  Spec => ImplementsCalendar
  <1>1. SerialSlots /\ TypeOK' /\ [Next]_vars
          => SerialSlots' /\ [Calendar!Next]_(Calendar!vars)
    <2> SUFFICES ASSUME SerialSlots, TypeOK', [Next]_vars
                 PROVE  SerialSlots' /\ [Calendar!Next]_(Calendar!vars)
      OBVIOUS
    <2>1. SerialSlots'
      BY SerialInduction
    <2>2. UNCHANGED <<docs, lapses>> => UNCHANGED Calendar!vars
      BY DEF docs, Calendar!vars
    <2>3. ASSUME NEW r \in Requests, Step(r)
          PROVE  Calendar!Next \/ UNCHANGED <<docs, lapses>>
      <3>1. Insert(r) => Calendar!Next
        BY CalendarReserve DEF SerialSlots
      <3>2. Save(r) => Calendar!Next
        BY CalendarMove DEF SerialSlots
      <3>3. Insert(r) \/ Save(r) \/ UNCHANGED <<docs, lapses>>
        BY <2>3 DEF Step, StartBooking, CheckProvider, CheckSlot, Notify, Load, Authorise
      <3>. QED
        BY <3>1, <3>2, <3>3
    <2>4. (\A r \in Requests : ~Step(r)) => UNCHANGED <<docs, lapses>>
      BY DEF Next, ChangeStaff, DeleteBusiness, Tick, vars
    <2>. QED
      BY <2>1, <2>2, <2>3, <2>4
  <1>. QED
    BY <1>1, SerialInit, CalendarInit, Typing, PTL DEF Spec, ImplementsCalendar, Calendar!Spec
============================================================================
