-------------------------- MODULE CatalogueProofs --------------------------
(***************************************************************************)
(* Proofs about the records the services keep, for every number of requests *)
(* at a time and any businesses, owners, e-mails and accounts: rows removed by *)
(* a flag (SoftRows), the one business of an owner (Ownership), accounts and *)
(* their OAuth states (Accounts).                                          *)
(***************************************************************************)
EXTENDS MCCatalogue, PicturesProofs, TLAPS

----------------------------------------------------------------------------
(* SoftRows. *)

RowDoc == [state : {"none", "live", "removed"}, key : Keys \cup {Missing}, value : BOOLEAN]

Step == [pc : {"idle", "insert", "restore", "save", "remove"},
         row : Rows \cup {Missing}, key : Keys \cup {Missing},
         seen : BOOLEAN, new : BOOLEAN, late : BOOLEAN]

\* What a request has at its stage, and what the collection allows it to do.
Allowed(p) ==
  /\ p.pc \in {"restore", "save", "remove"} => p.row \in Rows
  /\ p.pc = "insert" => p.key \in Keys
  /\ p.pc = "restore" => collection = "wishlist"
  /\ p.pc = "save" => collection # "wishlist"

RowParts ==
  /\ collection \in Collections /\ muddled \subseteq Rows
  /\ rows \in [Rows -> RowDoc]
  /\ call \in [Calls -> Step]
  /\ \A c \in Calls : Allowed(call[c])

LEMMA RowTypeParts == (RowTypeOK <=> RowParts) /\ (RowTypeOK' <=> RowParts')
<1>1. RowTypeOK <=> RowParts
  BY DEF RowTypeOK, RowParts, RowDoc, Step, Allowed
<1>2. QED BY <1>1, PTL

LEMMA RestingType == Resting \in Step /\ Resting.pc = "idle" /\ ~Resting.late /\ Allowed(Resting)
BY DEF Resting, Step, Allowed

\* A request starts with p.
LEMMA EnterFacts ==
  ASSUME RowParts, NEW c \in Calls, NEW p \in Step, Allowed(p), Enter(c, p)
  PROVE  /\ RowParts'
         /\ call'[c] = p /\ \A x \in Calls : x # c => call'[x] = call[x]
         /\ UNCHANGED <<collection, rows, muddled>>
<1>1. /\ UNCHANGED <<collection, rows, muddled>>
      /\ call' = [call EXCEPT ![c] = p] /\ call \in [Calls -> Step]
  BY DEF Enter, RowParts
<1>2. /\ call' \in [Calls -> Step]
      /\ call'[c] = p /\ \A x \in Calls : x # c => call'[x] = call[x]
  BY <1>1
<1>3. \A x \in Calls : Allowed(call[x])'
  BY <1>1, <1>2 DEF RowParts, Allowed
<1>4. QED BY <1>1, <1>2, <1>3 DEF RowParts

LEMMA AnsweredFacts ==
  ASSUME RowParts, NEW c \in Calls, Answered(c)
  PROVE  /\ RowParts'
         /\ call'[c] = Resting /\ \A x \in Calls : x # c => call'[x] = call[x]
         /\ UNCHANGED <<collection, rows, muddled>>
<1>1. /\ UNCHANGED <<collection, rows, muddled>>
      /\ call' = [call EXCEPT ![c] = Resting] /\ call \in [Calls -> Step]
  BY DEF Answered, RowParts
<1>2. /\ call' \in [Calls -> Step]
      /\ call'[c] = Resting /\ \A x \in Calls : x # c => call'[x] = call[x]
  BY <1>1, RestingType
<1>3. \A x \in Calls : Allowed(call[x])'
  BY <1>1, <1>2, RestingType DEF RowParts, Allowed
<1>4. QED BY <1>1, <1>2, <1>3 DEF RowParts

\* What another request has after a write: it may be late.
Overtaken(x, r, k) == [call[x] EXCEPT !.late = @ \/ Touched(call[x], r, k)]

LEMMA OvertakenFacts ==
  ASSUME RowParts, NEW x \in Calls, NEW r, NEW k
  PROVE  /\ Overtaken(x, r, k) \in Step
         /\ Overtaken(x, r, k).pc = call[x].pc /\ Overtaken(x, r, k).row = call[x].row
         /\ Overtaken(x, r, k).key = call[x].key /\ Overtaken(x, r, k).seen = call[x].seen
         /\ ~Overtaken(x, r, k).late => ~call[x].late /\ ~Touched(call[x], r, k)
<1> DEFINE b == call[x].late \/ Touched(call[x], r, k)
<1>1. b \in BOOLEAN
  BY Zenon
<1>2. call[x] \in Step
  BY DEF RowParts
<1>3. Overtaken(x, r, k) = [call[x] EXCEPT !.late = b]
  BY DEF Overtaken
<1> HIDE DEF b
<1>4. /\ Overtaken(x, r, k) \in Step /\ Overtaken(x, r, k).late = b
      /\ Overtaken(x, r, k).pc = call[x].pc /\ Overtaken(x, r, k).row = call[x].row
      /\ Overtaken(x, r, k).key = call[x].key /\ Overtaken(x, r, k).seen = call[x].seen
  BY <1>1, <1>2, <1>3 DEF Step
<1>5. QED BY <1>4, Zenon DEF b

\* A request is answered with a write.
LEMMA WriteFacts ==
  ASSUME RowParts, NEW c \in Calls, NEW r \in Rows, NEW d \in RowDoc, Write(c, r, d)
  PROVE  /\ RowParts' /\ UNCHANGED collection
         /\ rows'[r] = d /\ \A q \in Rows : q # r => rows'[q] = rows[q]
         /\ call'[c] = Resting
         /\ \A x \in Calls : x # c => call'[x] = Overtaken(x, r, d.key)
         /\ muddled \subseteq muddled'
         /\ call[c].late /\ d.state = "removed" => r \in muddled'
<1>1. /\ UNCHANGED collection /\ rows' = [rows EXCEPT ![r] = d] /\ rows \in [Rows -> RowDoc]
      /\ muddled' \subseteq Rows /\ muddled \subseteq muddled'
      /\ call[c].late /\ d.state = "removed" => r \in muddled'
  BY DEF Write, RowParts
<1>2. call' = [x \in Calls |-> IF x = c THEN Resting ELSE Overtaken(x, r, d.key)]
  BY DEF Write, Overtaken
<1>3. /\ call'[c] = Resting
      /\ \A x \in Calls : x # c => call'[x] = Overtaken(x, r, d.key)
      /\ call' \in [Calls -> Step]
  BY <1>2, RestingType, OvertakenFacts
<1>4. \A x \in Calls : Allowed(call[x])'
  <2>1. ASSUME NEW x \in Calls, x # c PROVE Allowed(call[x])'
    <3>1. Allowed(call[x])
      BY DEF RowParts
    <3>2. /\ call'[x].pc = call[x].pc /\ call'[x].row = call[x].row /\ call'[x].key = call[x].key
          /\ collection' = collection
      BY <1>1, <1>3, <2>1, OvertakenFacts
    <3>3. QED BY <3>1, <3>2 DEF Allowed
  <2>2. QED BY <1>1, <1>3, <2>1, RestingType DEF Allowed
<1>5. rows' \in [Rows -> RowDoc] /\ rows'[r] = d /\ \A q \in Rows : q # r => rows'[q] = rows[q]
  BY <1>1
<1>6. QED BY <1>1, <1>3, <1>4, <1>5 DEF RowParts

----------------------------------------------------------------------------
(* What each request asks or writes; the kinds of steps there are. *)

\* A request starts with what it found.
StartsOn(c, p) ==
  /\ p \in Step /\ Allowed(p) /\ Enter(c, p) /\ ~p.late
  /\ p.pc \in {"save", "remove"} =>
       rows[p.row].state = "live" /\ p.seen = rows[p.row].value
  /\ p.pc = "insert" =>
       \A r \in Rows : Has(r, p.key, {"live", "removed"}) =>
         rows[r].state = "removed" /\ collection # "wishlist"

\* A request writes its row.
WritesRow(c, r, d) ==
  /\ r \in Rows /\ d \in RowDoc /\ Write(c, r, d)
  /\ collection # "wishlist" /\ rows[r].state = "removed" => d.state = "removed"
  /\ d.state = "removed" /\ d.value /\ collection = "staff" /\ ~call[c].late =>
       rows[r].state # "live" \/ call[c].seen # rows[r].value
  /\ call[c].pc \in {"insert", "restore", "save", "remove"}
  /\ d.state = "removed" => call[c].pc \in {"save", "remove"} /\ call[c].row = r

LEMMA RowSteps ==
  ASSUME RowParts, RowNext
  PROVE  \E c \in Calls : \/ \E p \in Step : StartsOn(c, p)
                          \/ Answered(c)
                          \/ \E r \in Rows, d \in RowDoc : WritesRow(c, r, d)
<1>t. /\ rows \in [Rows -> RowDoc] /\ call \in [Calls -> Step] /\ Missing \notin Rows
      /\ \A c \in Calls : Allowed(call[c])
  BY RowsAssumption DEF RowParts
<1>1. ASSUME NEW c \in Calls, NEW k \in Keys, NEW new \in BOOLEAN, FindDuplicate(c, k, new)
      PROVE  \E p \in Step : StartsOn(c, p)
  <2>1. ASSUME collection = "wishlist" => ~Taken(k),
               Enter(c, [Resting EXCEPT !.pc = "insert", !.key = k, !.new = new])
        PROVE  \E p \in Step : StartsOn(c, p)
    <3> DEFINE p == [Resting EXCEPT !.pc = "insert", !.key = k, !.new = new]
    <3>1. p \in Step /\ p.pc = "insert" /\ p.key = k /\ p.late = FALSE
      BY DEF Resting, Step
    <3>2. \A r \in Rows : Has(r, k, {"live", "removed"}) =>
            rows[r].state = "removed" /\ collection # "wishlist"
      BY <1>1, <2>1 DEF FindDuplicate, Has, Taken
    <3> HIDE DEF p
    <3>3. StartsOn(c, p)
      BY <2>1, <3>1, <3>2 DEF StartsOn, Allowed, p
    <3>4. QED BY <3>1, <3>3
  <2>2. ASSUME collection = "wishlist", NEW r \in Rows,
               Enter(c, [Resting EXCEPT !.pc = "restore", !.row = r])
        PROVE  \E p \in Step : StartsOn(c, p)
    <3> DEFINE p == [Resting EXCEPT !.pc = "restore", !.row = r]
    <3>1. p \in Step /\ p.pc = "restore" /\ p.row = r /\ p.late = FALSE
      BY DEF Resting, Step
    <3> HIDE DEF p
    <3>2. StartsOn(c, p)
      BY <2>2, <3>1 DEF StartsOn, Allowed, p
    <3>3. QED BY <3>1, <3>2
  <2>3. QED BY <1>1, <2>1, <2>2 DEF FindDuplicate
<1>2. ASSUME NEW c \in Calls, NEW r \in Rows, NEW k \in Keys \cup {Missing}, NEW new \in BOOLEAN,
             LoadForUpdate(c, r, k, new)
      PROVE  \E p \in Step : StartsOn(c, p)
  <2> DEFINE p == [Resting EXCEPT !.pc = "save", !.row = r, !.key = k,
                                  !.seen = rows[r].value, !.new = new]
  <2>1. /\ p \in Step /\ p.pc = "save" /\ p.row = r /\ p.seen = rows[r].value /\ p.late = FALSE
    BY <1>t DEF Resting, Step, RowDoc
  <2> HIDE DEF p
  <2>2. StartsOn(c, p)
    BY <1>2, <2>1 DEF StartsOn, Allowed, LoadForUpdate, p
  <2>3. QED BY <2>1, <2>2
<1>3. ASSUME NEW c \in Calls, NEW r \in Rows, LoadForRemoval(c, r)
      PROVE  \E p \in Step : StartsOn(c, p)
  <2> DEFINE p == [Resting EXCEPT !.pc = "remove", !.row = r, !.seen = rows[r].value]
  <2>1. p \in Step /\ p.pc = "remove" /\ p.row = r /\ p.seen = rows[r].value /\ p.late = FALSE
    BY <1>t DEF Resting, Step, RowDoc
  <2> HIDE DEF p
  <2>2. StartsOn(c, p)
    BY <1>3, <2>1 DEF StartsOn, Allowed, LoadForRemoval, p
  <2>3. QED BY <2>1, <2>2
<1>4. ASSUME NEW c \in Calls, Insert(c)
      PROVE  Answered(c) \/ \E r \in Rows, d \in RowDoc : WritesRow(c, r, d)
  <2>1. ASSUME NEW r \in Rows, rows[r].state = "none",
               Write(c, r, [state |-> "live", key |-> call[c].key,
                            value |-> (collection = "staff" \/ call[c].new)])
        PROVE  \E d \in RowDoc : WritesRow(c, r, d)
    <3> DEFINE b == collection = "staff" \/ call[c].new
               d == [state |-> "live", key |-> call[c].key, value |-> b]
    <3>1. b \in BOOLEAN
      BY Zenon
    <3>2. call[c].key \in Keys \cup {Missing}
      BY <1>t DEF Step
    <3> HIDE DEF b
    <3>3. d \in RowDoc /\ d.state = "live"
      BY <3>1, <3>2 DEF RowDoc
    <3>4. Write(c, r, d)
      BY <2>1 DEF b
    <3> HIDE DEF d
    <3>5. QED BY <1>4, <2>1, <3>3, <3>4 DEF WritesRow, Insert
  <2>2. QED BY <1>4, <2>1 DEF Insert
<1>5. ASSUME NEW c \in Calls, Restore(c) PROVE \E r \in Rows, d \in RowDoc : WritesRow(c, r, d)
  <2>1. call[c].row \in Rows /\ collection = "wishlist"
    BY <1>5, <1>t DEF Restore, Allowed
  <2> DEFINE d == [rows[call[c].row] EXCEPT !.state = "live"]
  <2>2. d \in RowDoc /\ d.state = "live" /\ Write(c, call[c].row, d)
    BY <1>5, <1>t, <2>1 DEF Restore, RowDoc
  <2> HIDE DEF d
  <2>3. QED BY <1>5, <2>1, <2>2 DEF WritesRow, Restore
<1>6. ASSUME NEW c \in Calls, Save(c)
      PROVE  Answered(c) \/ \E r \in Rows, d \in RowDoc : WritesRow(c, r, d)
  <2> DEFINE r == call[c].row
             d == [state |-> rows[r].state, key |-> NewKey(c),
                   value |-> IF call[c].new = call[c].seen THEN rows[r].value ELSE call[c].new]
  <2>1. r \in Rows /\ call[c].pc = "save"
    BY <1>6, <1>t DEF Save, Allowed
  <2>2. NewKey(c) \in Keys \cup {Missing}
    BY <1>t, <2>1 DEF NewKey, Step, RowDoc
  <2>3. d \in RowDoc /\ d.state = rows[r].state
    BY <1>t, <2>1, <2>2 DEF Step, RowDoc
  <2>4. Answered(c) \/ Write(c, r, d)
    BY <1>6 DEF Save
  <2> HIDE DEF d
  <2>5. QED BY <2>1, <2>3, <2>4 DEF WritesRow
<1>7. ASSUME NEW c \in Calls, Remove(c) PROVE \E r \in Rows, d \in RowDoc : WritesRow(c, r, d)
  <2> DEFINE r == call[c].row
             b == rows[r].value /\ ~(collection = "staff" /\ call[c].seen)
             d == [state |-> "removed", key |-> rows[r].key, value |-> b]
  <2>1. r \in Rows /\ call[c].pc = "remove"
    BY <1>7, <1>t DEF Remove, Allowed
  <2>2. b \in BOOLEAN
    BY Zenon
  <2>3. b /\ collection = "staff" => call[c].seen # rows[r].value
    BY <1>t, <2>1 DEF RowDoc, Step
  <2>4. Write(c, r, d)
    BY <1>7 DEF Remove
  <2>5. rows[r].key \in Keys \cup {Missing}
    BY <1>t, <2>1 DEF RowDoc
  <2> HIDE DEF b
  <2>6. d \in RowDoc /\ d.state = "removed" /\ d.value = b
    BY <2>2, <2>5 DEF RowDoc
  <2> HIDE DEF d
  <2>7. QED BY <2>1, <2>3, <2>4, <2>6 DEF WritesRow
<1>8. QED
  BY <1>1, <1>2, <1>3, <1>4, <1>5, <1>6, <1>7 DEF RowNext

----------------------------------------------------------------------------
(* Type correctness. *)

LEMMA RowTypeInit == RowInit => RowTypeOK
<1> SUFFICES ASSUME RowInit PROVE RowParts
  BY RowTypeParts
<1>1. Unused \in RowDoc
  BY DEF Unused, RowDoc
<1>2. QED BY <1>1, RestingType DEF RowInit, RowParts, Allowed

LEMMA RowTypeStep == RowTypeOK /\ [RowNext]_rowVars => RowTypeOK'
<1> SUFFICES ASSUME RowParts, [RowNext]_rowVars PROVE RowParts'
  BY RowTypeParts
<1>1. CASE RowNext
  BY <1>1, RowSteps, EnterFacts, AnsweredFacts, WriteFacts DEF StartsOn, WritesRow
<1>2. CASE UNCHANGED rowVars
  BY <1>2 DEF rowVars, RowParts, Allowed
<1>3. QED BY <1>1, <1>2

\* Type correctness of every reachable state; only the wishlist restores rows,
\* only staff and reviews are updated.
THEOREM RowTyping == RowSpec => []RowTypeOK
<1>1. QED BY RowTypeInit, RowTypeStep, PTL DEF RowSpec

----------------------------------------------------------------------------
(* What is removed stays removed. *)

\* No request brings a removed staff member or review back into the queries,
\* whatever it loaded before the removal: their updates write single fields, and
\* an insert meets the unique index.
THEOREM RemovalsStay == RowSpec => RemovedForGood
<1>1. RowTypeOK /\ [RowNext]_rowVars =>
        [\A r \in Rows : collection # "wishlist" /\ rows[r].state = "removed" =>
                           rows'[r].state = "removed"]_rowVars
  <2> SUFFICES ASSUME RowParts, [RowNext]_rowVars, NEW r \in Rows,
                      collection # "wishlist", rows[r].state = "removed"
               PROVE  rows'[r].state = "removed"
    BY RowTypeParts
  <2>1. CASE RowNext
    <3>1. ASSUME NEW c \in Calls, NEW p \in Step, StartsOn(c, p) PROVE rows' = rows
      BY <3>1, EnterFacts DEF StartsOn
    <3>2. ASSUME NEW c \in Calls, Answered(c) PROVE rows' = rows
      BY <3>2, AnsweredFacts
    <3>3. ASSUME NEW c \in Calls, NEW q \in Rows, NEW d \in RowDoc, WritesRow(c, q, d)
          PROVE  rows'[r].state = "removed"
      BY <3>3, WriteFacts DEF WritesRow
    <3>4. QED BY <2>1, <3>1, <3>2, <3>3, RowSteps
  <2>2. CASE UNCHANGED rowVars
    BY <2>2 DEF rowVars
  <2>3. QED BY <2>1, <2>2
<1>2. QED BY <1>1, RowTypeInit, RowTypeStep, PTL DEF RowSpec, RemovedForGood

----------------------------------------------------------------------------
(* What a request that nobody overtook can rely on. *)

AloneInv == LoadedHolds /\ RemovedIsInactive

LEMMA AloneInit == RowInit => AloneInv
<1> SUFFICES ASSUME RowInit PROVE AloneInv
  OBVIOUS
<1>1. \A r \in Rows : rows[r] = Unused
  BY DEF RowInit
<1>2. \A c \in Calls : call[c] = Resting
  BY DEF RowInit
<1>3. RemovedIsInactive
  BY <1>1 DEF RemovedIsInactive, Unused
<1>4. LoadedHolds
  BY <1>2, RestingType DEF LoadedHolds
<1>5. QED BY <1>3, <1>4 DEF AloneInv

\* A request starts, or is answered without a write.
LEMMA AloneQuiet ==
  ASSUME AloneInv, NEW c \in Calls, UNCHANGED <<collection, rows, muddled>>,
         \A x \in Calls : x # c => call'[x] = call[x],
         ~call'[c].late =>
           /\ call'[c].pc \in {"save", "remove"} =>
                rows[call'[c].row].state = "live" /\ call'[c].seen = rows[call'[c].row].value
           /\ call'[c].pc = "insert" =>
                \A r \in Rows : Has(r, call'[c].key, {"live", "removed"}) =>
                  rows[r].state = "removed" /\ collection # "wishlist"
  PROVE  AloneInv'
<1>1. RemovedIsInactive'
  BY DEF AloneInv, RemovedIsInactive
<1>2. ASSUME NEW x \in Calls, ~call'[x].late
      PROVE  /\ call'[x].pc \in {"save", "remove"} =>
                  rows'[call'[x].row].state = "live" /\ call'[x].seen = rows'[call'[x].row].value
             /\ call'[x].pc = "insert" =>
                  \A r \in Rows : Has(r, call[x].key, {"live", "removed"})' =>
                    rows'[r].state = "removed" /\ collection' # "wishlist"
  <2>1. CASE x = c
    BY <1>2, <2>1 DEF Has
  <2>2. CASE x # c
    BY <1>2, <2>2 DEF Has, AloneInv, LoadedHolds
  <2>3. QED BY <2>1, <2>2
<1>3. LoadedHolds'
  BY <1>2 DEF LoadedHolds, Has
<1>4. QED BY <1>1, <1>3 DEF AloneInv

LEMMA AloneWrite ==
  ASSUME RowParts, AloneInv, NEW c \in Calls, NEW r \in Rows, NEW d \in RowDoc, WritesRow(c, r, d)
  PROVE  AloneInv'
<1>f. /\ UNCHANGED collection
      /\ rows'[r] = d /\ \A q \in Rows : q # r => rows'[q] = rows[q]
      /\ call'[c] = Resting
      /\ \A x \in Calls : x # c => call'[x] = Overtaken(x, r, d.key)
      /\ muddled \subseteq muddled'
      /\ call[c].late /\ d.state = "removed" => r \in muddled'
  BY WriteFacts DEF WritesRow
<1>1. ASSUME NEW q \in Rows, collection' = "staff", rows'[q].state = "removed", rows'[q].value
      PROVE  q \in muddled'
  <2>1. CASE q # r
    BY <1>f, <1>1, <2>1 DEF AloneInv, RemovedIsInactive
  <2>2. CASE q = r
    <3>1. d.state = "removed" /\ d.value /\ collection = "staff"
      BY <1>f, <1>1, <2>2
    <3>2. CASE call[c].late
      BY <1>f, <2>2, <3>1, <3>2
    <3>3. CASE ~call[c].late
      <4>1. call[c].pc \in {"save", "remove"} /\ call[c].row = r
        BY <3>1 DEF WritesRow
      <4>2. rows[r].state = "live" /\ call[c].seen = rows[r].value
        BY <3>3, <4>1 DEF AloneInv, LoadedHolds
      <4>3. QED BY <3>1, <3>3, <4>2 DEF WritesRow
    <3>4. QED BY <3>2, <3>3
  <2>3. QED BY <2>1, <2>2
<1>2. ASSUME NEW x \in Calls, ~call'[x].late
      PROVE  /\ call'[x].pc \in {"save", "remove"} =>
                  rows'[call'[x].row].state = "live" /\ call'[x].seen = rows'[call'[x].row].value
             /\ call'[x].pc = "insert" =>
                  \A q \in Rows : Has(q, call[x].key, {"live", "removed"})' =>
                    rows'[q].state = "removed" /\ collection' # "wishlist"
  <2>1. CASE x = c
    BY <1>f, <2>1, RestingType
  <2>2. CASE x # c
    <3>1. /\ call'[x].pc = call[x].pc /\ call'[x].row = call[x].row
          /\ call'[x].key = call[x].key /\ call'[x].seen = call[x].seen
          /\ ~call[x].late /\ ~Touched(call[x], r, d.key)
      BY <1>2, <1>f, <2>2, OvertakenFacts
    <3>2. Allowed(call[x])
      BY DEF RowParts
    <3>3. ASSUME call[x].pc \in {"save", "remove"}
          PROVE  rows'[call'[x].row].state = "live" /\ call'[x].seen = rows'[call'[x].row].value
      <4>1. call[x].row \in Rows /\ call[x].row # r
        BY <3>1, <3>2, <3>3 DEF Touched, Allowed
      <4>2. rows[call[x].row].state = "live" /\ call[x].seen = rows[call[x].row].value
        BY <3>1, <3>3 DEF AloneInv, LoadedHolds
      <4>3. QED BY <1>f, <3>1, <4>1, <4>2
    <3>4. ASSUME call[x].pc = "insert", NEW q \in Rows, Has(q, call[x].key, {"live", "removed"})'
          PROVE  rows'[q].state = "removed" /\ collection' # "wishlist"
      <4>1. call[x].key # d.key
        BY <3>1, <3>4 DEF Touched
      <4>2. q # r
        BY <1>f, <3>1, <3>4, <4>1 DEF Has
      <4>3. Has(q, call[x].key, {"live", "removed"})
        BY <1>f, <3>1, <3>4, <4>2 DEF Has
      <4>4. QED BY <1>f, <3>1, <3>4, <4>2, <4>3 DEF AloneInv, LoadedHolds
    <3>5. QED BY <3>1, <3>3, <3>4
  <2>3. QED BY <2>1, <2>2
<1>3. LoadedHolds'
  BY <1>2 DEF LoadedHolds, Has
<1>4. QED BY <1>1, <1>3 DEF AloneInv, RemovedIsInactive

LEMMA AloneStep == RowTypeOK /\ AloneInv /\ [RowNext]_rowVars => AloneInv'
<1> SUFFICES ASSUME RowParts, AloneInv, [RowNext]_rowVars PROVE AloneInv'
  BY RowTypeParts
<1>1. CASE RowNext
  <2>1. ASSUME NEW c \in Calls, NEW p \in Step, StartsOn(c, p) PROVE AloneInv'
    <3>1. /\ call'[c] = p /\ \A x \in Calls : x # c => call'[x] = call[x]
          /\ UNCHANGED <<collection, rows, muddled>>
      BY <2>1, EnterFacts DEF StartsOn
    <3>2. QED BY <2>1, <3>1, AloneQuiet DEF StartsOn
  <2>2. ASSUME NEW c \in Calls, Answered(c) PROVE AloneInv'
    <3>1. /\ call'[c] = Resting /\ \A x \in Calls : x # c => call'[x] = call[x]
          /\ UNCHANGED <<collection, rows, muddled>>
      BY <2>2, AnsweredFacts
    <3>2. QED BY <3>1, RestingType, AloneQuiet
  <2>3. QED BY <1>1, <2>1, <2>2, RowSteps, AloneWrite
<1>2. CASE UNCHANGED rowVars
  BY <1>2 DEF rowVars, AloneInv, LoadedHolds, RemovedIsInactive, Has
<1>3. QED BY <1>1, <1>2

\* A removed staff member that is active owes it to a removal that another
\* request had overtaken, or to a save that came after the removal.
THEOREM RemovedAreInactive == RowSpec => []RemovedIsInactive
<1>1. AloneInv => RemovedIsInactive
  BY DEF AloneInv
<1>2. QED BY <1>1, RowTypeInit, RowTypeStep, AloneInit, AloneStep, PTL DEF RowSpec

\* A create meets a duplicate-key error for one of two causes: somebody took the
\* key after its check, or a removed review or staff member has it, which the
\* check does not see.
THEOREM IndexErrorsExplained == RowSpec => []IndexErrorExplained
<1>1. AloneInv => IndexErrorExplained
  BY DEF AloneInv, LoadedHolds, IndexErrorExplained, Taken, Has
<1>2. QED BY <1>1, RowTypeInit, RowTypeStep, AloneInit, AloneStep, PTL DEF RowSpec

----------------------------------------------------------------------------
(* Ownership. *)

Row == [owner : Owners \cup {Nothing}, email : Emails \cup {Nothing}]

Job == [pc : {"idle", "byOwner", "byEmail", "commit"},
        owner : Owners \cup {Nothing}, email : Emails \cup {Nothing}]

\* A creation has an owner from its first query to its end.
Owned(p) == p.pc = "idle" <=> p.owner = Nothing

OwnershipParts ==
  /\ link \in [Owners -> Businesses \cup {Nothing}]
  /\ deleted \subseteq Owners
  /\ business \in [Businesses -> Row]
  /\ gone \subseteq Businesses
  /\ creation \in [Creations -> Job]
  /\ \A c \in Creations : Owned(creation[c])
  /\ raced \in BOOLEAN

LEMMA OwnershipTypeParts == (OwnershipTypeOK <=> OwnershipParts) /\ (OwnershipTypeOK' <=> OwnershipParts')
<1>1. OwnershipTypeOK <=> OwnershipParts
  BY DEF OwnershipTypeOK, OwnershipParts, Row, Job, Owned
<1>2. QED BY <1>1, PTL

LEMMA NoCreationType ==
  NoCreation \in Job /\ Owned(NoCreation) /\ NoCreation.owner = Nothing
BY DEF NoCreation, Job, Owned

\* A creation that starts, moves on or ends; the others stay.
LEMMA CreationMove ==
  ASSUME OwnershipParts, NEW c \in Creations, NEW p \in Job, Owned(p),
         creation' = [creation EXCEPT ![c] = p]
  PROVE  /\ creation' \in [Creations -> Job]
         /\ (\A d \in Creations : Owned(creation[d]))'
         /\ creation'[c] = p
         /\ \A d \in Creations : d # c => creation'[d] = creation[d]
<1>1. creation'[c] = p /\ \A d \in Creations : d # c => creation'[d] = creation[d]
  BY DEF OwnershipParts
<1>2. creation' \in [Creations -> Job]
  BY DEF OwnershipParts
<1>3. \A d \in Creations : Owned(creation'[d])
  <2>1. TAKE d \in Creations
  <2>2. CASE d = c
    BY <1>1, <2>2
  <2>3. CASE d # c
    BY <1>1, <2>3 DEF OwnershipParts
  <2>4. QED BY <2>2, <2>3
<1>4. (\A d \in Creations : Owned(creation[d]))'
  BY <1>3 DEF Owned
<1>5. QED BY <1>1, <1>2, <1>4

LEMMA EndMove ==
  ASSUME OwnershipParts, NEW c \in Creations, End(c)
  PROVE  /\ creation' \in [Creations -> Job]
         /\ (\A d \in Creations : Owned(creation[d]))'
         /\ creation'[c].owner = Nothing
         /\ \A d \in Creations : d # c => creation'[d] = creation[d]
BY NoCreationType, CreationMove DEF End

LEMMA ProceedMove ==
  ASSUME OwnershipParts, NEW c \in Creations, NEW pc \in {"byEmail", "commit"},
         creation[c].pc # "idle", Proceed(c, pc)
  PROVE  /\ creation' \in [Creations -> Job]
         /\ (\A d \in Creations : Owned(creation[d]))'
         /\ creation'[c].owner = creation[c].owner
         /\ \A d \in Creations : d # c => creation'[d] = creation[d]
<1>1. /\ [creation[c] EXCEPT !.pc = pc] \in Job
      /\ [creation[c] EXCEPT !.pc = pc].owner = creation[c].owner
      /\ [creation[c] EXCEPT !.pc = pc].pc = pc
  BY DEF OwnershipParts, Job
<1>2. creation[c].owner # Nothing
  BY DEF OwnershipParts, Owned
<1>3. Owned([creation[c] EXCEPT !.pc = pc])
  BY <1>1, <1>2 DEF Owned
<1>4. QED BY <1>1, <1>3, CreationMove DEF Proceed

\* What a creation commits.
LEMMA CommitFacts ==
  ASSUME OwnershipParts, NEW c \in Creations, NEW b \in Businesses, Commit(c, b)
  PROVE  /\ creation[c].owner \in Owners /\ creation[c].email \in Emails \cup {Nothing}
         /\ business' = [business EXCEPT ![b] = [owner |-> creation[c].owner,
                                                 email |-> creation[c].email]]
         /\ link' = [link EXCEPT ![creation[c].owner] =
                       IF creation[c].owner \in deleted THEN Nothing ELSE b]
         /\ business[b] = NoBusiness
         /\ End(c) /\ UNCHANGED <<deleted, gone, raced>>
<1>1. creation[c].pc = "commit"
  BY DEF Commit
<1>2. creation[c].owner # Nothing
  BY <1>1 DEF OwnershipParts, Owned
<1>3. creation[c].owner \in Owners \cup {Nothing} /\ creation[c].email \in Emails \cup {Nothing}
  BY DEF OwnershipParts, Job
<1>4. QED BY <1>2, <1>3 DEF Commit

----------------------------------------------------------------------------
(* Type correctness. *)

LEMMA OwnershipTypeInit == OwnershipInit => OwnershipParts
<1> SUFFICES ASSUME OwnershipInit PROVE OwnershipParts
  OBVIOUS
<1>1. \A c \in Creations : creation[c] = NoCreation
  BY DEF OwnershipInit
<1>2. NoBusiness \in Row
  BY DEF NoBusiness, Row
<1>3. QED BY <1>1, <1>2, NoCreationType DEF OwnershipInit, OwnershipParts

LEMMA OwnershipTypeStep == OwnershipParts /\ [OwnershipNext]_ownershipVars => OwnershipParts'
<1> SUFFICES ASSUME OwnershipParts, [OwnershipNext]_ownershipVars PROVE OwnershipParts'
  OBVIOUS
<1>1. ASSUME NEW c \in Creations, NEW u \in Owners, NEW e \in Emails, LoadOwner(c, u, e)
      PROVE  OwnershipParts'
  <2>1. /\ [pc |-> "byOwner", owner |-> u, email |-> e] \in Job
        /\ Owned([pc |-> "byOwner", owner |-> u, email |-> e])
    BY OwnershipAssumption DEF Job, Owned
  <2>2. creation' \in [Creations -> Job] /\ (\A d \in Creations : Owned(creation[d]))'
    BY <1>1, <2>1, CreationMove DEF LoadOwner
  <2>3. raced' \in BOOLEAN
    BY <1>1, Zenon DEF LoadOwner, OwnershipParts
  <2>4. QED BY <1>1, <2>2, <2>3 DEF LoadOwner, OwnershipParts
<1>2. ASSUME NEW c \in Creations, FindByOwner(c) \/ FindByEmail(c) \/ CommitAborts(c)
      PROVE  OwnershipParts'
  <2>1. End(c) \/ \E pc \in {"byEmail", "commit"} : creation[c].pc # "idle" /\ Proceed(c, pc)
    BY <1>2 DEF FindByOwner, FindByEmail, CommitAborts
  <2>2. creation' \in [Creations -> Job] /\ (\A d \in Creations : Owned(creation[d]))'
    BY <2>1, EndMove, ProceedMove
  <2>3. UNCHANGED <<link, deleted, business, gone, raced>>
    BY <1>2 DEF FindByOwner, FindByEmail, CommitAborts
  <2>4. QED BY <2>2, <2>3 DEF OwnershipParts
<1>3. ASSUME NEW c \in Creations, NEW b \in Businesses, Commit(c, b) PROVE OwnershipParts'
  <2>1. creation' \in [Creations -> Job] /\ (\A d \in Creations : Owned(creation[d]))'
    BY <1>3, CommitFacts, EndMove
  <2>2. [owner |-> creation[c].owner, email |-> creation[c].email] \in Row
    BY <1>3, CommitFacts DEF Row
  <2>3. business' \in [Businesses -> Row] /\ link' \in [Owners -> Businesses \cup {Nothing}]
    BY <1>3, <2>2, CommitFacts DEF OwnershipParts
  <2>4. QED BY <1>3, <2>1, <2>3, CommitFacts DEF OwnershipParts
<1>4. ASSUME NEW b \in Businesses, DeleteBusiness(b) PROVE OwnershipParts'
  BY <1>4 DEF DeleteBusiness, OwnershipParts, Owned
<1>5. ASSUME NEW u \in Owners, DeleteOwner(u) PROVE OwnershipParts'
  BY <1>5 DEF DeleteOwner, OwnershipParts, Owned
<1>6. CASE UNCHANGED ownershipVars
  BY <1>6 DEF ownershipVars, OwnershipParts, Owned
<1>7. QED BY <1>1, <1>2, <1>3, <1>4, <1>5, <1>6 DEF OwnershipNext

\* Type correctness of every reachable state: a creation has an owner as long
\* as it is under way.
THEOREM OwnershipTyping == OwnershipSpec => []OwnershipTypeOK
<1>1. QED BY OwnershipTypeInit, OwnershipTypeStep, OwnershipTypeParts, PTL DEF OwnershipSpec

----------------------------------------------------------------------------
(* Links lead to businesses of their user. *)

LiveInv == LinkIsLive /\ GoneExisted

LEMMA LiveInit == OwnershipInit => LiveInv
BY DEF OwnershipInit, LiveInv, LinkIsLive, GoneExisted

LEMMA LiveStep == OwnershipParts /\ LiveInv /\ [OwnershipNext]_ownershipVars => LiveInv'
<1> SUFFICES ASSUME OwnershipParts, LiveInv, [OwnershipNext]_ownershipVars PROVE LiveInv'
  OBVIOUS
<1>l. \A u \in Owners : link[u] # Nothing =>
        /\ link[u] \in Businesses /\ business[link[u]] # NoBusiness /\ link[u] \notin gone
        /\ business[link[u]].owner = u
  BY DEF LiveInv, LinkIsLive, OwnedBy, Existing
<1>g. (\A u \in Owners : link'[u] # Nothing =>
         /\ link'[u] \in Businesses /\ business'[link'[u]] # NoBusiness /\ link'[u] \notin gone'
         /\ business'[link'[u]].owner = u) => LinkIsLive'
  BY DEF LinkIsLive, OwnedBy, Existing
<1>1. CASE UNCHANGED <<link, business, gone>>
  BY <1>1 DEF LiveInv, LinkIsLive, GoneExisted, OwnedBy, Existing
<1>2. ASSUME NEW c \in Creations, NEW b \in Businesses, Commit(c, b) PROVE LiveInv'
  <2> DEFINE o == creation[c].owner
  <2>1. /\ business'[b] # NoBusiness /\ business'[b].owner = o
        /\ \A x \in Businesses : x # b => business'[x] = business[x]
    BY <1>2, CommitFacts, OwnershipAssumption DEF OwnershipParts, NoBusiness
  <2>2. b \notin gone /\ gone' = gone
    BY <1>2, CommitFacts DEF LiveInv, GoneExisted
  <2>3. GoneExisted'
    BY <2>1, <2>2 DEF LiveInv, GoneExisted, OwnershipParts
  <2>4. /\ o \in Owners /\ link'[o] \in {b, Nothing}
        /\ \A u \in Owners : u # o => link'[u] = link[u]
    BY <1>2, CommitFacts DEF OwnershipParts
  <2>5. ASSUME NEW u \in Owners, link'[u] # Nothing
        PROVE  /\ link'[u] \in Businesses /\ business'[link'[u]] # NoBusiness
               /\ link'[u] \notin gone' /\ business'[link'[u]].owner = u
    <3>1. CASE u = o
      BY <2>1, <2>2, <2>4, <2>5, <3>1
    <3>2. CASE u # o
      <4>1. link'[u] = link[u]
        BY <2>4, <3>2
      <4>2. link[u] # b
        BY <1>2, <1>l, <2>5, <4>1, CommitFacts
      <4>3. QED BY <1>l, <2>1, <2>2, <2>5, <4>1, <4>2
    <3>3. QED BY <3>1, <3>2
  <2>6. QED BY <1>g, <2>3, <2>5 DEF LiveInv
<1>3. ASSUME NEW b \in Businesses, DeleteBusiness(b) PROVE LiveInv'
  <2>1. /\ b \in Existing /\ business' = business /\ gone' = gone \cup {b}
        /\ link' = [link EXCEPT ![business[b].owner] = Nothing]
    BY <1>3 DEF DeleteBusiness
  <2>2. ASSUME NEW u \in Owners, link'[u] # Nothing
        PROVE  link'[u] = link[u] /\ link[u] # b
    <3>1. u # business[b].owner
      BY <2>1, <2>2 DEF OwnershipParts
    <3>2. link'[u] = link[u]
      BY <2>1, <3>1 DEF OwnershipParts
    <3>3. QED BY <1>l, <2>2, <3>1, <3>2
  <2>3. LinkIsLive'
    BY <1>g, <1>l, <2>1, <2>2
  <2>4. GoneExisted'
    BY <2>1 DEF LiveInv, GoneExisted, Existing
  <2>5. QED BY <2>3, <2>4 DEF LiveInv
<1>4. ASSUME NEW v \in Owners, DeleteOwner(v) PROVE LiveInv'
  <2>1. /\ business' = business /\ gone' = gone
        /\ link' = [link EXCEPT ![v] = Nothing]
    BY <1>4 DEF DeleteOwner
  <2>2. \A u \in Owners : link'[u] # Nothing => link'[u] = link[u]
    BY <2>1 DEF OwnershipParts
  <2>3. LinkIsLive'
    BY <1>g, <1>l, <2>1, <2>2
  <2>4. QED BY <2>1, <2>3 DEF LiveInv, GoneExisted
<1>5. QED
  <2>1. ASSUME \/ \E c \in Creations : \/ \E u \in Owners, e \in Emails : LoadOwner(c, u, e)
                                       \/ FindByOwner(c) \/ FindByEmail(c) \/ CommitAborts(c)
               \/ UNCHANGED ownershipVars
        PROVE  UNCHANGED <<link, business, gone>>
    BY <2>1 DEF LoadOwner, FindByOwner, FindByEmail, CommitAborts, ownershipVars
  <2>2. QED BY <1>1, <1>2, <1>3, <1>4, <2>1 DEF OwnershipNext

\* The link of a user never dangles and never leads to somebody else's
\* business, however creations and an admin's deletions interleave: both write
\* business and user in one transaction.
THEOREM LinksAreLive == OwnershipSpec => []LinkIsLive
<1>1. LiveInv => LinkIsLive
  BY DEF LiveInv
<1>2. QED BY <1>1, OwnershipTypeInit, OwnershipTypeStep, LiveInit, LiveStep, PTL DEF OwnershipSpec

----------------------------------------------------------------------------
(* One business for an owner whose creations do not overlap. *)

EachInv == OneBusinessEach /\ CheckHolds

LEMMA EachInit == OwnershipInit => EachInv
<1> SUFFICES ASSUME OwnershipInit PROVE EachInv
  OBVIOUS
<1>1. \A c \in Creations : creation[c].owner = Nothing
  BY NoCreationType DEF OwnershipInit
<1>2. \A u \in Owners : OwnedBy(u) = {}
  BY DEF OwnershipInit, OwnedBy, Existing
<1>3. \A u \in Owners : {link[u]} \ {Nothing} = {}
  BY DEF OwnershipInit
<1>4. QED BY <1>1, <1>2, <1>3 DEF EachInv, OneBusinessEach, CheckHolds

\* The checks hold on if no creation gets an owner and no owner of a creation
\* gets a link.
LEMMA CheckMove ==
  ASSUME CheckHolds, ~raced,
         \A c \in Creations : creation'[c].owner \in {creation[c].owner, Nothing},
         \A c \in Creations : creation'[c].owner # Nothing =>
           link'[creation'[c].owner] \in {link[creation'[c].owner], Nothing}
  PROVE  CheckHolds'
<1>1. /\ \A c, d \in Creations :
           creation[c].owner = creation[d].owner /\ creation[c].owner # Nothing => c = d
      /\ \A c \in Creations : creation[c].owner # Nothing => link[creation[c].owner] = Nothing
  BY DEF CheckHolds
<1>2. \A c \in Creations : creation'[c].owner # Nothing => creation'[c].owner = creation[c].owner
  OBVIOUS
<1>3. ASSUME NEW c \in Creations, NEW d \in Creations,
             creation'[c].owner = creation'[d].owner, creation'[c].owner # Nothing
      PROVE  c = d
  BY <1>1, <1>2, <1>3
<1>4. ASSUME NEW c \in Creations, creation'[c].owner # Nothing
      PROVE  link'[creation'[c].owner] = Nothing
  BY <1>1, <1>2, <1>4
<1>5. QED BY <1>3, <1>4 DEF CheckHolds

LEMMA EachStep ==
  OwnershipParts /\ LiveInv /\ EachInv /\ [OwnershipNext]_ownershipVars => EachInv'
<1> SUFFICES ASSUME OwnershipParts, LiveInv, EachInv, [OwnershipNext]_ownershipVars PROVE EachInv'
  OBVIOUS
<1>s. raced' => EachInv'
  BY DEF EachInv, OneBusinessEach, CheckHolds
<1>m. \A x, u : x \in OwnedBy(u) <=>
        x \in Businesses /\ business[x] # NoBusiness /\ x \notin gone /\ business[x].owner = u
  BY DEF OwnedBy, Existing
<1>e. ~raced => \A u \in Owners \ deleted : \A x : x \in OwnedBy(u) <=> x = link[u] /\ x # Nothing
  BY DEF EachInv, OneBusinessEach
\* OneBusinessEach, element by element.
<1>o. (\A u \in Owners \ deleted' : \A x :
         (x \in Businesses /\ business'[x] # NoBusiness /\ x \notin gone' /\ business'[x].owner = u)
           <=> x = link'[u] /\ x # Nothing) => OneBusinessEach'
  <2>1. SUFFICES ASSUME \A u \in Owners \ deleted' : \A x :
                          (x \in Businesses /\ business'[x] # NoBusiness /\ x \notin gone'
                             /\ business'[x].owner = u) <=> x = link'[u] /\ x # Nothing,
                        NEW u \in Owners \ deleted'
                 PROVE  OwnedBy(u)' = {link'[u]} \ {Nothing}
    BY DEF OneBusinessEach
  <2>2. QED BY <2>1 DEF OwnedBy, Existing
\* Nothing but a creation under way changes.
<1>c. ASSUME UNCHANGED <<link, deleted, business, gone, raced>>,
             \A c \in Creations : creation'[c].owner \in {creation[c].owner, Nothing}
      PROVE  EachInv'
  <2>1. OneBusinessEach'
    BY <1>c DEF EachInv, OneBusinessEach, OwnedBy, Existing
  <2>2. CASE ~raced
    BY <1>c, <2>1, <2>2, CheckMove DEF EachInv
  <2>3. CASE raced
    BY <1>c, <1>s, <2>3
  <2>4. QED BY <2>2, <2>3
<1>1. ASSUME NEW c \in Creations, NEW u \in Owners, NEW e \in Emails, LoadOwner(c, u, e)
      PROVE  EachInv'
  <2>1. UNCHANGED <<link, deleted, business, gone>> /\ link[u] = Nothing
    BY <1>1 DEF LoadOwner
  <2>2. CASE ~raced'
    <3>1. ~raced /\ \A d \in Creations : creation[d].owner # u
      BY <1>1, <2>2, Zenon DEF LoadOwner
    <3>2. /\ [pc |-> "byOwner", owner |-> u, email |-> e] \in Job
          /\ Owned([pc |-> "byOwner", owner |-> u, email |-> e])
      BY OwnershipAssumption DEF Job, Owned
    <3>3. creation'[c].owner = u /\ \A d \in Creations : d # c => creation'[d] = creation[d]
      BY <1>1, <3>2, CreationMove DEF LoadOwner
    <3>4. /\ \A k, d \in Creations :
               creation[k].owner = creation[d].owner /\ creation[k].owner # Nothing => k = d
          /\ \A d \in Creations : creation[d].owner # Nothing => link[creation[d].owner] = Nothing
      BY <3>1 DEF EachInv, CheckHolds
    <3>5. ASSUME NEW k \in Creations, NEW d \in Creations,
                 creation'[k].owner = creation'[d].owner, creation'[k].owner # Nothing
          PROVE  k = d
      BY <3>1, <3>3, <3>4, <3>5
    <3>6. \A d \in Creations : creation'[d].owner # Nothing => link'[creation'[d].owner] = Nothing
      BY <2>1, <3>3, <3>4
    <3>7. OneBusinessEach'
      BY <2>1, <3>1 DEF EachInv, OneBusinessEach, OwnedBy, Existing
    <3>8. QED BY <3>5, <3>6, <3>7 DEF EachInv, CheckHolds
  <2>3. QED BY <1>s, <2>2
<1>2. ASSUME NEW c \in Creations, FindByOwner(c) \/ FindByEmail(c) \/ CommitAborts(c)
      PROVE  EachInv'
  <2>1. End(c) \/ \E pc \in {"byEmail", "commit"} : creation[c].pc # "idle" /\ Proceed(c, pc)
    BY <1>2 DEF FindByOwner, FindByEmail, CommitAborts
  <2>2. \A d \in Creations : creation'[d].owner \in {creation[d].owner, Nothing}
    BY <2>1, EndMove, ProceedMove
  <2>3. UNCHANGED <<link, deleted, business, gone, raced>>
    BY <1>2 DEF FindByOwner, FindByEmail, CommitAborts
  <2>4. QED BY <1>c, <2>2, <2>3
<1>3. ASSUME NEW c \in Creations, NEW b \in Businesses, Commit(c, b) PROVE EachInv'
  <2> DEFINE o == creation[c].owner
  <2>1. /\ o \in Owners /\ o # Nothing /\ b # Nothing
        /\ UNCHANGED <<deleted, gone, raced>> /\ business[b] = NoBusiness
        /\ link'[o] = IF o \in deleted THEN Nothing ELSE b
        /\ \A u \in Owners : u # o => link'[u] = link[u]
    BY <1>3, CommitFacts, OwnershipAssumption DEF OwnershipParts
  <2>2. /\ business'[b] # NoBusiness /\ business'[b].owner = o
        /\ \A x \in Businesses : x # b => business'[x] = business[x]
    BY <1>3, CommitFacts, OwnershipAssumption DEF OwnershipParts, NoBusiness
  <2>3. b \notin gone
    BY <2>1 DEF LiveInv, GoneExisted
  <2>4. CASE ~raced'
    <3>1. ~raced
      BY <2>1, <2>4
    <3>2. link[o] = Nothing /\ \A d \in Creations : d # c => creation[d].owner # o
      BY <2>1, <3>1 DEF EachInv, CheckHolds
    <3>3. creation'[c].owner = Nothing /\ \A d \in Creations : d # c => creation'[d] = creation[d]
      BY <1>3, CommitFacts, EndMove
    <3>4. CheckHolds'
      <4>1. \A d \in Creations : creation'[d].owner \in {creation[d].owner, Nothing}
        BY <3>3
      <4>2. \A d \in Creations : creation'[d].owner # Nothing =>
              creation'[d].owner # o /\ creation'[d].owner \in Owners
        BY <3>2, <3>3 DEF OwnershipParts, Job
      <4>3. \A d \in Creations : creation'[d].owner # Nothing =>
              link'[creation'[d].owner] \in {link[creation'[d].owner], Nothing}
        BY <2>1, <4>2
      <4>4. QED BY <3>1, <4>1, <4>3, CheckMove DEF EachInv
    <3>5. ASSUME NEW u \in Owners \ deleted', NEW x
          PROVE  (x \in Businesses /\ business'[x] # NoBusiness /\ x \notin gone'
                    /\ business'[x].owner = u) <=> x = link'[u] /\ x # Nothing
      <4>1. CASE u = o
        <5>1. \A y : ~(y \in Businesses /\ business[y] # NoBusiness /\ y \notin gone
                         /\ business[y].owner = u)
          BY <1>e, <1>m, <2>1, <3>1, <3>2, <4>1
        <5>2. link'[u] = b
          BY <2>1, <4>1
        <5>3. QED BY <2>1, <2>2, <2>3, <4>1, <5>1, <5>2
      <4>2. CASE u # o
        <5>1. x \in Businesses /\ business[x] # NoBusiness /\ x \notin gone /\ business[x].owner = u
                <=> x = link[u] /\ x # Nothing
          BY <1>e, <1>m, <2>1, <3>1
        <5>2. link'[u] = link[u]
          BY <2>1, <4>2
        <5>3. CASE x = b
          <6>1. link[u] # b
            BY <2>1, <5>1, <5>3
          <6>2. QED BY <2>2, <4>2, <5>2, <5>3, <6>1
        <5>4. CASE x # b
          BY <2>1, <2>2, <5>1, <5>2, <5>4
        <5>5. QED BY <5>3, <5>4
      <4>3. QED BY <4>1, <4>2
    <3>6. QED BY <1>o, <3>4, <3>5 DEF EachInv
  <2>5. QED BY <1>s, <2>4
<1>4. ASSUME NEW b \in Businesses, DeleteBusiness(b) PROVE EachInv'
  <2>1. /\ b \in Existing /\ UNCHANGED <<deleted, business, creation, raced>>
        /\ gone' = gone \cup {b} /\ link' = [link EXCEPT ![business[b].owner] = Nothing]
    BY <1>4 DEF DeleteBusiness
  <2>2. CASE ~raced
    <3>1. \A u \in Owners : link'[u] = IF u = business[b].owner THEN Nothing ELSE link[u]
      BY <2>1 DEF OwnershipParts
    <3>2. CheckHolds'
      <4>1. \A c \in Creations : creation[c].owner \in Owners \cup {Nothing}
        BY DEF OwnershipParts, Job
      <4>2. QED BY <2>1, <2>2, <3>1, <4>1, CheckMove DEF EachInv
    <3>3. ASSUME NEW u \in Owners \ deleted', NEW x
          PROVE  (x \in Businesses /\ business'[x] # NoBusiness /\ x \notin gone'
                    /\ business'[x].owner = u) <=> x = link'[u] /\ x # Nothing
      <4>1. \A y : y \in Businesses /\ business[y] # NoBusiness /\ y \notin gone /\ business[y].owner = u
                     <=> y = link[u] /\ y # Nothing
        BY <1>e, <1>m, <2>1, <2>2
      <4>2. business[b] # NoBusiness /\ b \notin gone
        BY <2>1 DEF Existing
      <4>3. CASE u = business[b].owner
        <5>1. link[u] = b
          BY <4>1, <4>2, <4>3
        <5>2. QED BY <2>1, <3>1, <4>1, <4>3, <5>1
      <4>4. CASE u # business[b].owner
        <5>1. link[u] # b \/ b = Nothing
          BY <4>1, <4>4
        <5>2. QED BY <2>1, <3>1, <4>1, <4>4, <5>1
      <4>5. QED BY <4>3, <4>4
    <3>4. QED BY <1>o, <3>2, <3>3 DEF EachInv
  <2>3. QED BY <1>s, <2>1, <2>2
<1>5. ASSUME NEW v \in Owners, DeleteOwner(v) PROVE EachInv'
  <2>1. /\ UNCHANGED <<business, gone, creation, raced>> /\ deleted' = deleted \cup {v}
        /\ link' = [link EXCEPT ![v] = Nothing]
    BY <1>5 DEF DeleteOwner
  <2>2. CASE ~raced
    <3>1. \A u \in Owners : link'[u] = IF u = v THEN Nothing ELSE link[u]
      BY <2>1 DEF OwnershipParts
    <3>2. CheckHolds'
      <4>1. \A c \in Creations : creation[c].owner \in Owners \cup {Nothing}
        BY DEF OwnershipParts, Job
      <4>2. QED BY <2>1, <2>2, <3>1, <4>1, CheckMove DEF EachInv
    <3>3. ASSUME NEW u \in Owners \ deleted', NEW x
          PROVE  (x \in Businesses /\ business'[x] # NoBusiness /\ x \notin gone'
                    /\ business'[x].owner = u) <=> x = link'[u] /\ x # Nothing
      BY <1>e, <1>m, <2>1, <2>2, <3>1
    <3>4. QED BY <1>o, <3>2, <3>3 DEF EachInv
  <2>3. QED BY <1>s, <2>1, <2>2
<1>6. CASE UNCHANGED ownershipVars
  BY <1>6 DEF ownershipVars, EachInv, OneBusinessEach, CheckHolds, OwnedBy, Existing
<1>7. QED BY <1>1, <1>2, <1>3, <1>4, <1>5, <1>6 DEF OwnershipNext

\* An owner whose creations do not overlap never has two businesses, nor one
\* the user document does not lead to: the queries before the transaction see
\* to it, as no index does.
THEOREM OneBusinessForEach == OwnershipSpec => []OneBusinessEach
<1>1. EachInv => OneBusinessEach
  BY DEF EachInv
<1>2. QED
  BY <1>1, OwnershipTypeInit, OwnershipTypeStep, LiveInit, LiveStep, EachInit, EachStep, PTL
  DEF OwnershipSpec

----------------------------------------------------------------------------
(* Accounts. *)

VisitorSteps ==
  {"idle", "find", "commit", "welcome", "del", "exchange", "provider", "email", "create", "customer"}

Visit == [pc : VisitorSteps, state : States \cup {NoState}]

\* A callback has its state until it exchanged the code.
Carries(p) == p.state # NoState <=> p.pc \in {"del", "exchange"}

AccountParts ==
  /\ user \in Providers \cup {"nobody"}
  /\ issued \in [States -> {"fresh", "stored", "dropped"}]
  /\ visitor \in [Visitors -> Visit]
  /\ \A v \in Visitors : Carries(visitor[v])
  /\ redeemed \in [States -> 0..2]
  /\ doubled \subseteq States
  /\ crossed \subseteq Visitors

LEMMA AccountTypeParts ==
  (AccountsTypeOK <=> AccountParts) /\ (AccountsTypeOK' <=> AccountParts')
BY DEF AccountsTypeOK, AccountParts, Visit, VisitorSteps, Carries

\* A visitor gets p instead.
LEMMA VisitMove ==
  ASSUME AccountParts, NEW v \in Visitors, NEW p \in Visit, Carries(p),
         visitor' = [visitor EXCEPT ![v] = p]
  PROVE  /\ visitor' \in [Visitors -> Visit]
         /\ \A w \in Visitors : Carries(visitor[w])'
         /\ visitor'[v] = p
         /\ \A w \in Visitors : w # v => visitor'[w] = visitor[w]
<1>1. /\ visitor' \in [Visitors -> Visit]
      /\ visitor'[v] = p
      /\ \A w \in Visitors : w # v => visitor'[w] = visitor[w]
  BY DEF AccountParts
<1>2. ASSUME NEW w \in Visitors PROVE Carries(visitor[w])'
  <2>1. CASE w = v
    BY <1>1, <2>1 DEF Carries
  <2>2. CASE w # v
    BY <1>1, <2>2 DEF Carries, AccountParts
  <2>3. QED BY <2>1, <2>2
<1>3. QED BY <1>1, <1>2

\* One that ends, or goes on without a state.
LEMMA PlainMove ==
  ASSUME AccountParts, NEW v \in Visitors,
         Leave(v) \/ \E pc \in VisitorSteps \ {"del", "exchange"} : Continue(v, pc)
  PROVE  /\ visitor' \in [Visitors -> Visit]
         /\ \A w \in Visitors : Carries(visitor[w])'
         /\ visitor'[v].state = NoState
         /\ \A w \in Visitors : w # v => visitor'[w] = visitor[w]
<1>1. PICK p \in Visit : /\ Carries(p) /\ p.state = NoState
                         /\ visitor' = [visitor EXCEPT ![v] = p]
  <2>1. CASE Leave(v)
    BY <2>1 DEF Leave, Away, Visit, VisitorSteps, Carries
  <2>2. CASE \E pc \in VisitorSteps \ {"del", "exchange"} : Continue(v, pc)
    <3>1. PICK pc \in VisitorSteps \ {"del", "exchange"} : Continue(v, pc)
      BY <2>2
    <3>2. /\ [pc |-> pc, state |-> NoState] \in Visit
          /\ Carries([pc |-> pc, state |-> NoState])
      BY DEF Visit, Carries
    <3>3. QED BY <3>1, <3>2 DEF Continue
  <2>3. QED BY <2>1, <2>2
<1>2. QED BY <1>1, VisitMove

LEMMA AccountTypeInit == AccountsInit => AccountParts
<1> SUFFICES ASSUME AccountsInit PROVE AccountParts
  OBVIOUS
<1>1. Away \in Visit /\ Carries(Away)
  BY DEF Away, Visit, VisitorSteps, Carries
<1>2. visitor \in [Visitors -> Visit] /\ \A v \in Visitors : Carries(visitor[v])
  BY <1>1 DEF AccountsInit
<1>3. QED BY <1>2 DEF AccountsInit, AccountParts

\* What a step of a visitor that goes on or ends leaves to show.
LEMMA PlainStep ==
  ASSUME AccountParts, NEW v \in Visitors,
         Leave(v) \/ \E pc \in VisitorSteps \ {"del", "exchange"} : Continue(v, pc),
         UNCHANGED <<issued, redeemed, doubled>>, user' \in Providers \cup {"nobody"},
         crossed' \subseteq Visitors
  PROVE  AccountParts'
BY PlainMove DEF AccountParts

LEMMA StartCallbackMove ==
  ASSUME AccountParts, NEW v \in Visitors, NEW s \in States, StartCallback(v, s)
  PROVE  /\ visitor' \in [Visitors -> Visit]
         /\ \A w \in Visitors : Carries(visitor[w])'
         /\ visitor'[v] = [pc |-> "del", state |-> s]
         /\ \A w \in Visitors : w # v => visitor'[w] = visitor[w]
<1>1. [pc |-> "del", state |-> s] \in Visit /\ Carries([pc |-> "del", state |-> s])
  BY AccountsAssumption DEF Visit, VisitorSteps, Carries
<1>2. QED BY <1>1, VisitMove DEF StartCallback

LEMMA DeleteStateMove ==
  ASSUME AccountParts, NEW v \in Visitors, DeleteState(v)
  PROVE  /\ visitor' \in [Visitors -> Visit]
         /\ \A w \in Visitors : Carries(visitor[w])'
         /\ visitor[v].state \in States
         /\ visitor'[v] = [pc |-> "exchange", state |-> visitor[v].state]
         /\ \A w \in Visitors : w # v => visitor'[w] = visitor[w]
<1>1. visitor[v] \in Visit /\ Carries(visitor[v]) /\ visitor[v].pc = "del"
  BY DEF AccountParts, DeleteState
<1>2. visitor[v].state \in States
  BY <1>1 DEF Visit, Carries
<1>3. [pc |-> "exchange", state |-> visitor[v].state] \in Visit
  BY <1>2 DEF Visit, VisitorSteps
<1>4. Carries([pc |-> "exchange", state |-> visitor[v].state])
  BY <1>2, AccountsAssumption DEF Carries
<1>5. visitor' = [visitor EXCEPT ![v] = [pc |-> "exchange", state |-> visitor[v].state]]
  <2>1. [visitor[v] EXCEPT !.pc = "exchange"] = [pc |-> "exchange", state |-> visitor[v].state]
    BY <1>1 DEF Visit
  <2>2. visitor' = [visitor EXCEPT ![v] = [visitor[v] EXCEPT !.pc = "exchange"]]
    BY DEF DeleteState
  <2>3. QED BY <2>1, <2>2
<1>6. QED BY <1>2, <1>3, <1>4, <1>5, VisitMove

LEMMA AccountTypeStep == AccountParts /\ [AccountsNext]_accountVars => AccountParts'
<1> SUFFICES ASSUME AccountParts, [AccountsNext]_accountVars PROVE AccountParts'
  OBVIOUS
<1>s. {"find", "commit", "welcome", "provider", "email", "create", "customer"} \subseteq VisitorSteps \ {"del", "exchange"}
  BY DEF VisitorSteps
<1>u. /\ user \in Providers \cup {"nobody"} /\ crossed \subseteq Visitors
      /\ "local" \in Providers /\ "unset" \in Providers
  BY DEF AccountParts, Providers
<1>1. ASSUME NEW v \in Visitors, StartRegister(v) PROVE AccountParts'
  BY <1>1, <1>s, <1>u, PlainStep DEF StartRegister
<1>2. ASSUME NEW v \in Visitors, FindByAddress(v) PROVE AccountParts'
  BY <1>2, <1>s, <1>u, PlainStep DEF FindByAddress, Decide
<1>3. ASSUME NEW v \in Visitors, RegisterCommits(v) PROVE AccountParts'
  BY <1>3, <1>s, <1>u, PlainStep DEF RegisterCommits, Decided
<1>4. ASSUME NEW v \in Visitors, RegisterAborts(v) PROVE AccountParts'
  BY <1>4, <1>u, PlainStep DEF RegisterAborts, Decided
<1>16. ASSUME NEW v \in Visitors, FindCustomer(v) PROVE AccountParts'
  BY <1>16, <1>s, <1>u, PlainStep DEF FindCustomer, Decide
<1>17. ASSUME NEW v \in Visitors, CreateCustomer(v) PROVE AccountParts'
  BY <1>17, <1>u, PlainStep DEF CreateCustomer, Decided
<1>5. ASSUME NEW v \in Visitors, Welcome(v) PROVE AccountParts'
  BY <1>5, <1>u, PlainStep DEF Welcome
<1>6. ASSUME NEW v \in Visitors, NEW s \in States, StartCallback(v, s) PROVE AccountParts'
  <2>1. doubled' \subseteq States
    BY <1>6 DEF StartCallback, AccountParts
  <2>2. QED BY <1>6, <2>1, StartCallbackMove DEF StartCallback, AccountParts
<1>7. ASSUME NEW v \in Visitors, DeleteState(v) PROVE AccountParts'
  <2>1. issued' \in [States -> {"fresh", "stored", "dropped"}] /\ doubled' \subseteq States
    BY <1>7, DeleteStateMove DEF DeleteState, AccountParts
  <2>2. QED BY <1>7, <2>1, DeleteStateMove DEF DeleteState, AccountParts
<1>8. ASSUME NEW v \in Visitors, Exchange(v) PROVE AccountParts'
  <2>1. redeemed' \in [States -> 0..2]
    <3>1. \A n \in 0..2 : (IF n = 2 THEN 2 ELSE n + 1) \in 0..2
      OBVIOUS
    <3>2. redeemed \in [States -> 0..2]
      BY DEF AccountParts
    <3>3. redeemed' = [redeemed EXCEPT ![visitor[v].state] =
                         IF redeemed[visitor[v].state] = 2 THEN 2 ELSE redeemed[visitor[v].state] + 1]
      BY <1>8 DEF Exchange
    <3>4. QED BY <3>1, <3>2, <3>3
  <2>2. Leave(v) \/ \E pc \in VisitorSteps \ {"del", "exchange"} : Continue(v, pc)
    BY <1>8, <1>s DEF Exchange
  <2>3. QED BY <1>8, <2>1, <2>2, PlainMove DEF Exchange, AccountParts
<1>9. ASSUME NEW v \in Visitors, FindByProvider(v) PROVE AccountParts'
  BY <1>9, <1>s, <1>u, PlainStep DEF FindByProvider
<1>10. ASSUME NEW v \in Visitors, FindSameAddress(v) PROVE AccountParts'
  BY <1>10, <1>s, <1>u, PlainStep DEF FindSameAddress
<1>11. ASSUME NEW v \in Visitors, CreateFromGoogle(v) PROVE AccountParts'
  BY <1>11, <1>u, PlainStep DEF CreateFromGoogle
<1>12. ASSUME NEW s \in States, Authorize(s) \/ StateExpires(s) PROVE AccountParts'
  BY <1>12 DEF Authorize, StateExpires, AccountParts, Carries
<1>13. CASE DeleteUser
  BY <1>13 DEF DeleteUser, AccountParts, Carries
<1>14. CASE UNCHANGED accountVars
  BY <1>14 DEF accountVars, AccountParts, Carries
<1>15. QED
  BY <1>1, <1>2, <1>3, <1>4, <1>5, <1>6, <1>7, <1>8, <1>9, <1>10, <1>11, <1>12, <1>13, <1>14,
     <1>16, <1>17
  DEF AccountsNext

\* Type correctness of every reachable state of registrations and callbacks: a
\* callback holds a state exactly until it exchanged its code.
THEOREM AccountTyping == AccountsSpec => []AccountsTypeOK
<1>1. AccountsSpec => []AccountParts
  BY AccountTypeInit, AccountTypeStep, PTL DEF AccountsSpec
<1>2. QED BY <1>1, AccountTypeParts, PTL

----------------------------------------------------------------------------
(* Who meets the index on the e-mail. *)

\* Nobody starts to insert or is taken off the crossed.
LEMMA UncrossedQuiet ==
  ASSUME AccountParts, Uncrossed, crossed' = crossed, user' = user \/ user' = "nobody",
         \A w \in Visitors : visitor'[w].pc \in Inserting => visitor'[w] = visitor[w]
  PROVE  Uncrossed'
BY DEF Uncrossed, NoUser

\* A visitor found nobody and is about to insert.
LEMMA UncrossedDecide ==
  ASSUME AccountParts, Uncrossed, NEW v \in Visitors, NEW pc \in Inserting, Decide(v, pc),
         NoUser, user' = user
  PROVE  Uncrossed'
<1> DEFINE others == {w \in Visitors \ {v} : visitor[w].pc \in Inserting}
<1>1. /\ visitor'[v].pc = pc /\ \A w \in Visitors : w # v => visitor'[w] = visitor[w]
      /\ crossed' = IF others = {} THEN crossed ELSE crossed \cup others \cup {v}
  BY DEF Decide, Continue, AccountParts
<1>2. NoUser'
  BY DEF NoUser
<1>3. ASSUME NEW w \in Visitors, visitor'[w].pc \in Inserting, w \notin crossed',
             NEW x \in Visitors, visitor'[x].pc \in Inserting
      PROVE  x = w
  <2>1. CASE others = {}
    BY <1>1, <1>3, <2>1
  <2>2. CASE others # {}
    BY <1>1, <1>3, <2>2
  <2>3. QED BY <2>1, <2>2
<1>4. QED BY <1>2, <1>3 DEF Uncrossed

\* The insert of a visitor is over.
LEMMA UncrossedDecided ==
  ASSUME AccountParts, Uncrossed, NEW v \in Visitors, visitor[v].pc \in Inserting, Decided(v),
         visitor'[v].pc \notin Inserting,
         \A w \in Visitors : w # v => visitor'[w] = visitor[w]
  PROVE  Uncrossed'
<1>1. ASSUME NEW w \in Visitors, visitor'[w].pc \in Inserting, w \notin crossed' PROVE FALSE
  <2>1. w # v /\ visitor[w].pc \in Inserting /\ w \notin crossed
    BY <1>1 DEF Decided
  <2>2. QED BY <2>1 DEF Uncrossed
<1>2. QED BY <1>1 DEF Uncrossed

LEMMA UncrossedStep == AccountParts /\ Uncrossed /\ [AccountsNext]_accountVars => Uncrossed'
<1> SUFFICES ASSUME AccountParts, Uncrossed, [AccountsNext]_accountVars PROVE Uncrossed'
  OBVIOUS
<1>s. /\ {"find", "welcome", "provider", "email", "create"} \subseteq VisitorSteps \ {"del", "exchange"}
      /\ "commit" \in Inserting /\ "customer" \in Inserting
      /\ Inserting \cap {"idle", "find", "welcome", "provider", "email", "create", "del", "exchange"} = {}
      /\ visitor \in [Visitors -> Visit]
  BY DEF VisitorSteps, Inserting, AccountParts
<1>1. ASSUME NEW v \in Visitors,
             \/ StartRegister(v) \/ Welcome(v) \/ Exchange(v) \/ FindByProvider(v)
             \/ FindSameAddress(v) \/ CreateFromGoogle(v)
      PROVE  Uncrossed'
  <2>1. /\ user' = user /\ crossed' = crossed
        /\ Leave(v) \/ \E pc \in {"find", "provider", "email", "create"} : Continue(v, pc)
    BY <1>1
    DEF StartRegister, Welcome, Exchange, FindByProvider, FindSameAddress, CreateFromGoogle
  <2>2. visitor'[v].pc \notin Inserting /\ \A w \in Visitors : w # v => visitor'[w] = visitor[w]
    BY <1>s, <2>1 DEF Leave, Away, Continue
  <2>3. QED BY <2>1, <2>2, UncrossedQuiet
<1>2. ASSUME NEW v \in Visitors, FindByAddress(v) PROVE Uncrossed'
  <2>1. CASE Decide(v, "commit")
    BY <1>2, <1>s, <2>1, UncrossedDecide DEF FindByAddress, Leave, Away, Decide, Continue
  <2>2. CASE Leave(v) /\ UNCHANGED crossed
    <3>1. visitor'[v].pc \notin Inserting /\ \A w \in Visitors : w # v => visitor'[w] = visitor[w]
      BY <1>s, <2>2 DEF Leave, Away
    <3>2. QED BY <1>2, <2>2, <3>1, UncrossedQuiet DEF FindByAddress
  <2>3. QED BY <1>2, <2>1, <2>2 DEF FindByAddress
<1>3. ASSUME NEW v \in Visitors, FindCustomer(v) PROVE Uncrossed'
  BY <1>3, <1>s, UncrossedDecide DEF FindCustomer
<1>4. ASSUME NEW v \in Visitors, RegisterCommits(v) \/ RegisterAborts(v) \/ CreateCustomer(v)
      PROVE  Uncrossed'
  <2>1. /\ visitor[v].pc \in Inserting /\ Decided(v)
        /\ Leave(v) \/ Continue(v, "welcome")
    BY <1>4, <1>s DEF RegisterCommits, RegisterAborts, CreateCustomer
  <2>2. visitor'[v].pc \notin Inserting /\ \A w \in Visitors : w # v => visitor'[w] = visitor[w]
    BY <1>s, <2>1 DEF Leave, Away, Continue
  <2>3. QED BY <2>1, <2>2, UncrossedDecided
<1>5. ASSUME NEW v \in Visitors, NEW s \in States, StartCallback(v, s) PROVE Uncrossed'
  <2>1. visitor'[v].pc \notin Inserting /\ \A w \in Visitors : w # v => visitor'[w] = visitor[w]
    BY <1>5, <1>s DEF StartCallback
  <2>2. QED BY <1>5, <2>1, UncrossedQuiet DEF StartCallback
<1>6. ASSUME NEW v \in Visitors, DeleteState(v) PROVE Uncrossed'
  <2>m. AccountParts /\ DeleteState(v)
    BY <1>6
  <2>0. /\ visitor'[v] = [pc |-> "exchange", state |-> visitor[v].state]
        /\ \A w \in Visitors : w # v => visitor'[w] = visitor[w]
    BY <2>m, DeleteStateMove
  <2>1. visitor'[v].pc \notin Inserting /\ \A w \in Visitors : w # v => visitor'[w] = visitor[w]
    BY <1>s, <2>0
  <2>2. QED BY <1>6, <2>1, UncrossedQuiet DEF DeleteState
<1>7. ASSUME NEW s \in States, Authorize(s) \/ StateExpires(s) PROVE Uncrossed'
  BY <1>7, UncrossedQuiet DEF Authorize, StateExpires
<1>8. CASE DeleteUser
  BY <1>8, UncrossedQuiet DEF DeleteUser
<1>9. CASE UNCHANGED accountVars
  BY <1>9, UncrossedQuiet DEF accountVars
<1>10. QED
  BY <1>1, <1>2, <1>3, <1>4, <1>5, <1>6, <1>7, <1>8, <1>9 DEF AccountsNext

\* However many registrations, sign-ins and manual bookings overlap: the insert
\* of a user that meets the index overlapped another insert, each after a look-up
\* that found nobody.
THEOREM DuplicatesExplained == AccountsSpec => []DuplicateExplained
<1>1. AccountsInit => Uncrossed
  BY DEF AccountsInit, Uncrossed, Away, Inserting
<1>2. Uncrossed => DuplicateExplained
  BY DEF Uncrossed, DuplicateExplained
<1>3. QED
  BY <1>1, <1>2, AccountTypeInit, AccountTypeStep, UncrossedStep, PTL DEF AccountsSpec

----------------------------------------------------------------------------
(* An OAuth state serves one exchange. *)

LEMMA SpentInit == AccountsInit => StateSpent
BY AccountsAssumption DEF AccountsInit, StateSpent, Away

\* Nothing is issued again, and no visitor gets a state.
LEMMA SpentQuiet ==
  ASSUME AccountParts, StateSpent, redeemed' = redeemed, doubled' = doubled,
         \A s \in States : issued[s] = "dropped" => issued'[s] = "dropped",
         \A v \in Visitors : visitor'[v] = visitor[v] \/ visitor'[v].state = NoState
  PROVE  StateSpent'
BY AccountsAssumption DEF StateSpent

LEMMA SpentStep == AccountParts /\ StateSpent /\ [AccountsNext]_accountVars => StateSpent'
<1> SUFFICES ASSUME AccountParts, StateSpent, [AccountsNext]_accountVars PROVE StateSpent'
  OBVIOUS
<1>s. {"find", "commit", "welcome", "provider", "email", "create", "customer"} \subseteq VisitorSteps \ {"del", "exchange"}
  BY DEF VisitorSteps
<1>t. /\ issued \in [States -> {"fresh", "stored", "dropped"}] /\ redeemed \in [States -> 0..2]
      /\ NoState \notin States
  BY AccountsAssumption DEF AccountParts
<1>1. ASSUME NEW v \in Visitors,
             \/ StartRegister(v) \/ FindByAddress(v) \/ RegisterCommits(v) \/ RegisterAborts(v)
             \/ Welcome(v) \/ FindCustomer(v) \/ CreateCustomer(v)
             \/ FindByProvider(v) \/ FindSameAddress(v) \/ CreateFromGoogle(v)
      PROVE  StateSpent'
  <2>1. /\ Leave(v) \/ \E pc \in VisitorSteps \ {"del", "exchange"} : Continue(v, pc)
        /\ UNCHANGED <<issued, redeemed, doubled>>
    BY <1>1, <1>s
    DEF StartRegister, FindByAddress, RegisterCommits, RegisterAborts, Welcome,
        FindCustomer, CreateCustomer, Decide, FindByProvider, FindSameAddress, CreateFromGoogle
  <2>2. \A w \in Visitors : visitor'[w] = visitor[w] \/ visitor'[w].state = NoState
    BY <2>1, PlainMove
  <2>3. QED BY <2>1, <2>2, SpentQuiet
<1>2. ASSUME NEW v \in Visitors, NEW s \in States, StartCallback(v, s) PROVE StateSpent'
  <2>1. /\ issued[s] = "stored" /\ UNCHANGED <<issued, redeemed>>
        /\ doubled' = doubled \cup {t \in {s} : \E w \in Visitors : visitor[w].state = s}
    BY <1>2 DEF StartCallback
  <2>2. /\ visitor'[v] = [pc |-> "del", state |-> s]
        /\ \A w \in Visitors : w # v => visitor'[w] = visitor[w]
    BY <1>2, StartCallbackMove
  <2>3. SUFFICES ASSUME NEW t \in States, t \notin doubled'
                 PROVE  /\ redeemed[t] > 0 => redeemed[t] = 1 /\ issued[t] = "dropped"
                        /\ \A w \in Visitors : visitor'[w].state = t =>
                             /\ redeemed[t] = 0
                             /\ visitor'[w].pc = "exchange" => issued[t] = "dropped"
                             /\ \A x \in Visitors : visitor'[x].state = t => x = w
    BY <2>1 DEF StateSpent
  <2>4. /\ redeemed[t] > 0 => redeemed[t] = 1 /\ issued[t] = "dropped"
        /\ \A w \in Visitors : visitor[w].state = t =>
             /\ redeemed[t] = 0
             /\ visitor[w].pc = "exchange" => issued[t] = "dropped"
             /\ \A x \in Visitors : visitor[x].state = t => x = w
    BY <2>1, <2>3 DEF StateSpent
  <2>5. CASE t = s
    <3>1. \A w \in Visitors : visitor[w].state # s
      BY <2>1, <2>3, <2>5
    <3>2. redeemed[s] = 0
      BY <1>t, <2>1, <2>4, <2>5
    <3>3. \A w \in Visitors : visitor'[w].state = s => w = v
      BY <2>2, <3>1
    <3>4. QED BY <2>2, <2>5, <3>2, <3>3
  <2>6. CASE t # s
    BY <2>2, <2>4, <2>6
  <2>7. QED BY <2>5, <2>6
<1>3. ASSUME NEW v \in Visitors, DeleteState(v) PROVE StateSpent'
  <2> DEFINE s == visitor[v].state
  <2>1. /\ s \in States /\ redeemed' = redeemed
        /\ \/ issued' = [issued EXCEPT ![s] = "dropped"] /\ doubled' = doubled
           \/ doubled' = doubled \cup {s} /\ issued' = issued
    BY <1>3, DeleteStateMove DEF DeleteState
  <2>2. /\ visitor'[v] = [pc |-> "exchange", state |-> s]
        /\ \A w \in Visitors : w # v => visitor'[w] = visitor[w]
    BY <1>3, DeleteStateMove
  <2>3. SUFFICES ASSUME NEW t \in States, t \notin doubled'
                 PROVE  /\ redeemed[t] > 0 => redeemed[t] = 1 /\ issued'[t] = "dropped"
                        /\ \A w \in Visitors : visitor'[w].state = t =>
                             /\ redeemed[t] = 0
                             /\ visitor'[w].pc = "exchange" => issued'[t] = "dropped"
                             /\ \A x \in Visitors : visitor'[x].state = t => x = w
    BY <2>1 DEF StateSpent
  <2>4. /\ redeemed[t] > 0 => redeemed[t] = 1 /\ issued[t] = "dropped"
        /\ \A w \in Visitors : visitor[w].state = t =>
             /\ redeemed[t] = 0
             /\ visitor[w].pc = "exchange" => issued[t] = "dropped"
             /\ \A x \in Visitors : visitor[x].state = t => x = w
    BY <2>1, <2>3 DEF StateSpent
  <2>5. \A w \in Visitors : visitor'[w].state = visitor[w].state
    BY <2>2
  <2>6. CASE t = s
    <3>1. issued'[t] = "dropped"
      BY <1>t, <2>1, <2>3, <2>6
    <3>2. QED BY <2>4, <2>5, <3>1
  <2>7. CASE t # s
    <3>1. issued'[t] = issued[t]
      BY <1>t, <2>1, <2>7
    <3>2. QED BY <2>2, <2>4, <2>5, <2>7, <3>1
  <2>8. QED BY <2>6, <2>7
<1>4. ASSUME NEW v \in Visitors, Exchange(v) PROVE StateSpent'
  <2> DEFINE s == visitor[v].state
  <2>1. /\ visitor[v].pc = "exchange" /\ UNCHANGED <<issued, doubled>>
        /\ redeemed' = [redeemed EXCEPT ![s] = IF @ = 2 THEN 2 ELSE @ + 1]
        /\ Leave(v) \/ \E pc \in VisitorSteps \ {"del", "exchange"} : Continue(v, pc)
    BY <1>4, <1>s DEF Exchange
  <2>2. visitor'[v].state = NoState /\ \A w \in Visitors : w # v => visitor'[w] = visitor[w]
    BY <2>1, PlainMove
  <2>3. SUFFICES ASSUME NEW t \in States, t \notin doubled
                 PROVE  /\ redeemed'[t] > 0 => redeemed'[t] = 1 /\ issued[t] = "dropped"
                        /\ \A w \in Visitors : visitor'[w].state = t =>
                             /\ redeemed'[t] = 0
                             /\ visitor'[w].pc = "exchange" => issued[t] = "dropped"
                             /\ \A x \in Visitors : visitor'[x].state = t => x = w
    BY <2>1 DEF StateSpent
  <2>4. /\ redeemed[t] > 0 => redeemed[t] = 1 /\ issued[t] = "dropped"
        /\ \A w \in Visitors : visitor[w].state = t =>
             /\ redeemed[t] = 0
             /\ visitor[w].pc = "exchange" => issued[t] = "dropped"
             /\ \A x \in Visitors : visitor[x].state = t => x = w
    BY <2>3 DEF StateSpent
  <2>5. CASE t = s
    <3>1. redeemed[t] = 0 /\ issued[t] = "dropped" /\ \A x \in Visitors : visitor[x].state = t => x = v
      BY <2>1, <2>4, <2>5
    <3>2. redeemed'[t] = 1
      BY <1>t, <2>1, <2>5, <3>1
    <3>3. \A w \in Visitors : visitor'[w].state # t
      BY <1>t, <2>2, <3>1
    <3>4. QED BY <3>1, <3>2, <3>3
  <2>6. CASE t # s
    <3>1. redeemed'[t] = redeemed[t]
      BY <1>t, <2>1, <2>6
    <3>2. QED BY <1>t, <2>2, <2>4, <3>1
  <2>7. QED BY <2>5, <2>6
<1>5. ASSUME NEW s \in States, Authorize(s) \/ StateExpires(s) PROVE StateSpent'
  <2>1. /\ \A t \in States : issued[t] = "dropped" => issued'[t] = "dropped"
        /\ UNCHANGED <<visitor, redeemed, doubled>>
    BY <1>5, <1>t DEF Authorize, StateExpires
  <2>2. QED BY <2>1, SpentQuiet
<1>6. CASE DeleteUser
  BY <1>6, SpentQuiet DEF DeleteUser
<1>7. CASE UNCHANGED accountVars
  BY <1>7, SpentQuiet DEF accountVars
<1>8. QED BY <1>1, <1>2, <1>3, <1>4, <1>5, <1>6, <1>7 DEF AccountsNext

\* A verifier is sent to Google once for each state, unless two callbacks
\* presented it before either deleted it, or Redis lost the deletion: however
\* callbacks and expiries interleave.
THEOREM StatesServeOnce == AccountsSpec => []StateOnce
<1>1. AccountParts /\ StateSpent => StateOnce
  BY DEF AccountParts, StateSpent, StateOnce
<1>2. QED
  BY <1>1, AccountTypeInit, AccountTypeStep, SpentInit, SpentStep, PTL DEF AccountsSpec

----------------------------------------------------------------------------
(* The records together. *)

\* Rows, owners, pictures and accounts, each with what its typing needs.
RecordsFit == RowTypeOK /\ OwnershipParts /\ PicturesTypeOK /\ ShapedAll /\ AccountParts

LEMMA RecordsInit == Init => RecordsFit
BY RowTypeInit, OwnershipTypeInit, PictureTypeInit, PictureShapeInit, AccountTypeInit
   DEF Init, RecordsFit

LEMMA RecordsStep == RecordsFit /\ [Next]_allVars => RecordsFit'
<1> SUFFICES ASSUME RecordsFit, [Next]_allVars PROVE RecordsFit'
  OBVIOUS
<1>1. [RowNext]_rowVars /\ [OwnershipNext]_ownershipVars
  BY DEF Next, allVars
<1>2. [PicturesNext]_pictureVars /\ [AccountsNext]_accountVars
  BY DEF Next, allVars
<1>3. RowTypeOK' /\ OwnershipParts'
  BY <1>1, RowTypeStep, OwnershipTypeStep DEF RecordsFit
<1>4. PicturesTypeOK' /\ ShapedAll' /\ AccountParts'
  BY <1>2, PictureTypeStep, AccountTypeStep DEF RecordsFit
<1>5. QED BY <1>3, <1>4 DEF RecordsFit

\* Every state of the rows, owners, pictures and accounts is well-formed.
THEOREM CatalogueTyping == CatalogueSpec => []CatalogueTypeOK
<1>1. RecordsFit => CatalogueTypeOK
  BY OwnershipTypeParts, AccountTypeParts DEF RecordsFit, CatalogueTypeOK
<1>2. QED BY <1>1, RecordsInit, RecordsStep, PTL DEF CatalogueSpec
=============================================================================
