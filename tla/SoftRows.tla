------------------------------ MODULE SoftRows ------------------------------
(***************************************************************************)
(* The collections whose rows are removed by a flag: staff members, with   *)
(* one row for an e-mail and a business, reviews, one for a user and a     *)
(* service, and wishlists, one for a user and a business.  Their unique    *)
(* indexes see removed rows, too, while most queries do not.  Here one     *)
(* business (or one user) has a few rows with different keys.              *)
(*                                                                         *)
(* Mongoose saves the fields that were changed since the load, whatever    *)
(* became of the row.  The checks on other collections that come before    *)
(* (business, owner, service) read and do not write.                       *)
(***************************************************************************)
EXTENDS FiniteSets

CONSTANTS
  Calls,   \* requests that can be in flight at the same time
  Rows,    \* documents (bounds how many are ever created)
  Keys,    \* e-mails of staff, services of reviews, businesses of wishlists
  Missing  \* neither a row nor a key

ASSUME RowsAssumption == Missing \notin Rows /\ Missing \notin Keys

Collections == {"staff", "reviews", "wishlist"}

VARIABLES
  collection,  \* the collection the rows are in
  rows,        \* rows[r]: a document, its unique key and what updates change
  call,        \* call[c]: a request in flight and what it loaded
  muddled      \* rows that a late request removed or wrote after that (a history)

rowVars == <<collection, rows, call, muddled>>

\* value is isActive of staff, a good or a bad rating of a review.
Unused == [state |-> "none", key |-> Missing, value |-> FALSE]

\* seen is the value it loaded, new the one it writes; late if another request
\* has meanwhile written its row or taken its key.
Resting ==
  [pc |-> "idle", row |-> Missing, key |-> Missing, seen |-> FALSE, new |-> FALSE,
   late |-> FALSE]

RowTypeOK ==
  /\ collection \in Collections
  /\ rows \in [Rows -> [state : {"none", "live", "removed"}, key : Keys \cup {Missing},
                        value : BOOLEAN]]
  /\ call \in [Calls -> [pc : {"idle", "insert", "restore", "save", "remove"},
                         row : Rows \cup {Missing}, key : Keys \cup {Missing},
                         seen : BOOLEAN, new : BOOLEAN, late : BOOLEAN]]
  /\ \A c \in Calls :
       /\ call[c].pc \in {"restore", "save", "remove"} => call[c].row \in Rows
       /\ call[c].pc = "insert" => call[c].key \in Keys
       /\ call[c].pc = "restore" => collection = "wishlist"
       /\ call[c].pc = "save" => collection # "wishlist"
  /\ muddled \subseteq Rows

Has(r, k, states) == rows[r].state \in states /\ rows[r].key = k

\* What the unique index sees.
Taken(k) == \E r \in Rows : Has(r, k, {"live", "removed"})

----------------------------------------------------------------------------
RowInit ==
  /\ collection \in Collections
  /\ rows = [r \in Rows |-> Unused]
  /\ call = [c \in Calls |-> Resting]
  /\ muddled = {}

\* A request goes on after its query.
Enter(c, p) ==
  /\ call[c].pc = "idle"
  /\ call' = [call EXCEPT ![c] = p]
  /\ UNCHANGED <<collection, rows, muddled>>

\* A request answers without a write.
Answered(c) ==
  /\ call' = [call EXCEPT ![c] = Resting]
  /\ UNCHANGED <<collection, rows, muddled>>

Touched(p, r, k) == p.pc # "idle" /\ (p.row = r \/ p.key = k)

\* The row r becomes d, and whoever had loaded it, or looked for its key, is late.
Write(c, r, d) ==
  /\ rows' = [rows EXCEPT ![r] = d]
  /\ call' = [x \in Calls |->
                IF x = c THEN Resting
                ELSE [call[x] EXCEPT !.late = @ \/ Touched(call[x], r, d.key)]]
  /\ muddled' = IF call[c].late /\ d.state = "removed" THEN muddled \cup {r} ELSE muddled
  /\ UNCHANGED collection

\* A wishlist that looks for saved entries only.
FindsLive(c, k, new) ==
  /\ \A r \in Rows : ~Has(r, k, {"live"})
  /\ Enter(c, [Resting EXCEPT !.pc = "insert", !.key = k, !.new = new])

\* The duplicate check of a create; the wishlist's sees removed rows.
FindDuplicate(c, k, new) ==
  /\ \A r \in Rows : ~Has(r, k, {"live"})
  /\ \/ /\ collection = "wishlist" => ~Taken(k)
        /\ Enter(c, [Resting EXCEPT !.pc = "insert", !.key = k, !.new = new])
     \/ /\ collection = "wishlist"
        /\ \E r \in Rows :
             Has(r, k, {"removed"}) /\ Enter(c, [Resting EXCEPT !.pc = "restore", !.row = r])

\* The insert, or a duplicate-key error (E11000) nobody expects.  A new staff
\* member is active.
Insert(c) ==
  LET k == call[c].key IN
  /\ call[c].pc = "insert"
  /\ \/ Taken(k) /\ Answered(c)
     \/ /\ ~Taken(k)
        /\ \E r \in Rows :
             /\ rows[r].state = "none"
             /\ Write(c, r, [state |-> "live", key |-> k,
                             value |-> (collection = "staff" \/ call[c].new)])

\* A removed wishlist entry is saved again.
Restore(c) ==
  LET r == call[c].row IN
  /\ call[c].pc = "restore"
  /\ Write(c, r, [rows[r] EXCEPT !.state = "live"])

\* update and toggleActiveStatus of staff, update of a review; the e-mail of
\* staff can be changed, and nobody looks whether it is taken.
LoadForUpdate(c, r, k, new) ==
  /\ rows[r].state = "live"
  /\ collection # "wishlist"
  /\ k # Missing => collection = "staff" /\ k # rows[r].key
  /\ Enter(c, [Resting EXCEPT !.pc = "save", !.row = r, !.key = k,
                              !.seen = rows[r].value, !.new = new])

LoadForRemoval(c, r) ==
  /\ rows[r].state = "live"
  /\ Enter(c, [Resting EXCEPT !.pc = "remove", !.row = r, !.seen = rows[r].value])

\* The key a save writes: the loaded one is not written.
NewKey(c) == IF call[c].key = Missing THEN rows[call[c].row].key ELSE call[c].key

\* The index refuses it (E11000).
Refused(c) == \E r \in Rows \ {call[c].row} : Has(r, NewKey(c), {"live", "removed"})

\* A save of the whole document.
SaveWhole(c) ==
  /\ call[c].pc = "save"
  /\ ~Refused(c)
  /\ Write(c, call[c].row, [state |-> "live", key |-> NewKey(c), value |-> call[c].new])

\* A field that has its loaded value is not written.
Save(c) ==
  LET p == call[c]
      r == p.row
  IN
  /\ p.pc = "save"
  /\ \/ Refused(c) /\ Answered(c)
     \/ /\ ~Refused(c)
        /\ Write(c, r, [state |-> rows[r].state, key |-> NewKey(c),
                        value |-> IF p.new = p.seen THEN rows[r].value ELSE p.new])

\* A removal that leaves isActive to others.
RemoveOnly(c) ==
  /\ call[c].pc = "remove"
  /\ Write(c, call[c].row, [rows[call[c].row] EXCEPT !.state = "removed"])

\* The flag is set; a staff member that was loaded active is deactivated.
Remove(c) ==
  LET r == call[c].row IN
  /\ call[c].pc = "remove"
  /\ Write(c, r, [state |-> "removed", key |-> rows[r].key,
                  value |-> rows[r].value /\ ~(collection = "staff" /\ call[c].seen)])

RowNext ==
  \E c \in Calls :
    \/ \E k \in Keys, new \in BOOLEAN : FindDuplicate(c, k, new)
    \/ \E r \in Rows, k \in Keys \cup {Missing}, new \in BOOLEAN : LoadForUpdate(c, r, k, new)
    \/ \E r \in Rows : LoadForRemoval(c, r)
    \/ Insert(c) \/ Restore(c) \/ Save(c) \/ Remove(c)

RowSpec == RowInit /\ [][RowNext]_rowVars

----------------------------------------------------------------------------
\* Properties.

\* A removed staff member or review never comes back into the queries, which
\* look for isDeleted: false, not even when a request saves what it loaded
\* before the removal.  Its other fields can still change: what reads isActive
\* alone (createManualBooking does) is the matter of RemovedIsInactive.
RemovedForGood ==
  [][ \A r \in Rows :
        collection # "wishlist" /\ rows[r].state = "removed" => rows'[r].state = "removed" ]_rowVars

\* A removed staff member that is active, and can be booked manually, was
\* removed by a request that another had overtaken, or written after its removal
\* by one that had loaded it before.
RemovedIsInactive ==
  \A r \in Rows :
    collection = "staff" /\ rows[r].state = "removed" /\ rows[r].value => r \in muddled

\* A create runs into the index instead of the duplicate check only if another
\* request took the key after the check, with one exception: the key of a
\* removed review or staff member, which the check does not see and the index
\* does, can never be used for a new one.  A wishlist entry's can.
IndexErrorExplained ==
  \A c \in Calls : call[c].pc = "insert" /\ Taken(call[c].key) =>
    \/ call[c].late
    \/ collection # "wishlist" /\ \E r \in Rows : Has(r, call[c].key, {"removed"})

----------------------------------------------------------------------------
\* The inductive invariant behind them.

\* A request that nobody overtook finds what it loaded.
LoadedHolds ==
  \A c \in Calls : ~call[c].late =>
    /\ call[c].pc \in {"save", "remove"} =>
         rows[call[c].row].state = "live" /\ call[c].seen = rows[call[c].row].value
    /\ call[c].pc = "insert" =>
         \A r \in Rows : Has(r, call[c].key, {"live", "removed"}) =>
           rows[r].state = "removed" /\ collection # "wishlist"
=============================================================================
