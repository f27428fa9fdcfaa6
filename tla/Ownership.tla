------------------------------ MODULE Ownership ------------------------------
(***************************************************************************)
(* Who owns which business: BusinessService.createBusiness, which links    *)
(* the new business and its owner in a transaction,                        *)
(* AdminService.deleteBusinessByAdmin, which deletes and unlinks in one,   *)
(* and deleteUserByAdmin.  The checks of a creation are queries outside    *)
(* its transaction.                                                        *)
(*                                                                         *)
(* MongoDB runs transactions one after the other or aborts one of them.    *)
(* The role, which goes with the link, is left out.                        *)
(***************************************************************************)
EXTENDS FiniteSets

CONSTANTS
  Creations,   \* creations that can be in flight at the same time
  Owners,
  Businesses,  \* documents (bounds how many are ever created)
  Emails,
  Nothing      \* neither a business, nor an owner, nor an e-mail

ASSUME OwnershipAssumption == Nothing \notin Businesses \cup Owners \cup Emails

VARIABLES
  link,      \* link[u]: businessId of the user, Nothing without one
  deleted,   \* the users an admin deleted
  business,  \* business[b]: its ownerId and businessEmail, Nothing before
  gone,      \* the businesses an admin deleted
  creation,  \* creation[c]: a creation in flight
  raced      \* creations of one owner overlapped (a history)

ownershipVars == <<link, deleted, business, gone, creation, raced>>

NoBusiness == [owner |-> Nothing, email |-> Nothing]

NoCreation == [pc |-> "idle", owner |-> Nothing, email |-> Nothing]

OwnershipTypeOK ==
  /\ link \in [Owners -> Businesses \cup {Nothing}]
  /\ deleted \subseteq Owners
  /\ business \in [Businesses -> [owner : Owners \cup {Nothing}, email : Emails \cup {Nothing}]]
  /\ gone \subseteq Businesses
  /\ creation \in [Creations -> [pc : {"idle", "byOwner", "byEmail", "commit"},
                                 owner : Owners \cup {Nothing},
                                 email : Emails \cup {Nothing}]]
  /\ \A c \in Creations : creation[c].pc = "idle" <=> creation[c].owner = Nothing
  /\ raced \in BOOLEAN

\* The documents in the collection.
Existing == {b \in Businesses : business[b] # NoBusiness /\ b \notin gone}

OwnedBy(u) == {b \in Existing : business[b].owner = u}

----------------------------------------------------------------------------
OwnershipInit ==
  /\ link = [u \in Owners |-> Nothing]
  /\ deleted = {}
  /\ business = [b \in Businesses |-> NoBusiness]
  /\ gone = {}
  /\ creation = [c \in Creations |-> NoCreation]
  /\ raced = FALSE

End(c) == creation' = [creation EXCEPT ![c] = NoCreation]

Proceed(c, pc) == creation' = [creation EXCEPT ![c] = [@ EXCEPT !.pc = pc]]

\* The user is loaded; one that has a business is refused.
LoadOwner(c, u, e) ==
  /\ creation[c].pc = "idle"
  /\ u \notin deleted
  /\ link[u] = Nothing
  /\ creation' = [creation EXCEPT ![c] = [pc |-> "byOwner", owner |-> u, email |-> e]]
  /\ raced' = (raced \/ \E d \in Creations : creation[d].owner = u)
  /\ UNCHANGED <<link, deleted, business, gone>>

\* The business collection is asked, too.
FindByOwner(c) ==
  /\ creation[c].pc = "byOwner"
  /\ IF OwnedBy(creation[c].owner) # {} THEN End(c) ELSE Proceed(c, "byEmail")
  /\ UNCHANGED <<link, deleted, business, gone, raced>>

\* Then logo and gallery are uploaded, or the request fails.
FindByEmail(c) ==
  /\ creation[c].pc = "byEmail"
  /\ \/ End(c)
     \/ /\ \A b \in Existing : business[b].email # creation[c].email
        /\ Proceed(c, "commit")
  /\ UNCHANGED <<link, deleted, business, gone, raced>>

\* A creation that is not a transaction.
CommitUnlinked(c, b) ==
  LET u == creation[c].owner  e == creation[c].email IN
  /\ creation[c].pc = "commit"
  /\ business[b] = NoBusiness
  /\ \A x \in Existing : business[x].email # e
  /\ business' = [business EXCEPT ![b] = [owner |-> u, email |-> e]]
  /\ link' = [link EXCEPT ![u] = IF u \in deleted THEN Nothing ELSE b] \/ UNCHANGED link
  /\ End(c)
  /\ UNCHANGED <<deleted, gone, raced>>

\* The business is inserted, if the e-mail is still free (a unique index), and
\* the owner linked to it, whatever the owner's link is by now; an owner that
\* was deleted meanwhile is not missed.
Commit(c, b) ==
  LET u == creation[c].owner  e == creation[c].email IN
  /\ creation[c].pc = "commit"
  /\ business[b] = NoBusiness
  /\ \A x \in Existing : business[x].email # e
  /\ business' = [business EXCEPT ![b] = [owner |-> u, email |-> e]]
  /\ link' = [link EXCEPT ![u] = IF u \in deleted THEN Nothing ELSE b]
  /\ End(c)
  /\ UNCHANGED <<deleted, gone, raced>>

\* A duplicate e-mail, a conflict with another transaction, a lost connection.
CommitAborts(c) ==
  /\ creation[c].pc = "commit"
  /\ End(c)
  /\ UNCHANGED <<link, deleted, business, gone, raced>>

\* A deletion that leaves the owner as it is.
DeleteOnly(b) ==
  /\ b \in Existing
  /\ gone' = gone \cup {b}
  /\ UNCHANGED <<link, deleted, business, creation, raced>>

\* The admin's transaction: the owner is unlinked, whichever business the
\* owner is linked to.
DeleteBusiness(b) ==
  LET u == business[b].owner IN
  /\ b \in Existing
  /\ gone' = gone \cup {b}
  /\ link' = [link EXCEPT ![u] = Nothing]
  /\ UNCHANGED <<deleted, business, creation, raced>>

\* The user goes, the user's business stays.
DeleteOwner(u) ==
  /\ u \notin deleted
  /\ deleted' = deleted \cup {u}
  /\ link' = [link EXCEPT ![u] = Nothing]
  /\ UNCHANGED <<business, gone, creation, raced>>

OwnershipNext ==
  \/ \E c \in Creations :
       \/ \E u \in Owners, e \in Emails : LoadOwner(c, u, e)
       \/ FindByOwner(c) \/ FindByEmail(c)
       \/ \E b \in Businesses : Commit(c, b)
       \/ CommitAborts(c)
  \/ \E b \in Businesses : DeleteBusiness(b)
  \/ \E u \in Owners : DeleteOwner(u)

OwnershipSpec == OwnershipInit /\ [][OwnershipNext]_ownershipVars

----------------------------------------------------------------------------
\* Properties.

\* A user's link never dangles: it leads to an existing business of that very
\* user, whatever creations and deletions overlap.
LinkIsLive == \A u \in Owners : link[u] # Nothing => link[u] \in OwnedBy(u)

\* A user whose creations never overlapped owns at most one business, the one
\* the user is linked to: nothing but the checks keeps it so.
OneBusinessEach ==
  ~raced => \A u \in Owners \ deleted : OwnedBy(u) = {link[u]} \ {Nothing}

----------------------------------------------------------------------------
\* The inductive invariant behind them.

\* Only what was created was deleted.
GoneExisted == \A b \in gone : business[b] # NoBusiness

\* Without overlap nobody else creates for the owner of a creation in flight,
\* so that what its first query found still holds.
CheckHolds ==
  ~raced =>
    /\ \A c, d \in Creations :
         creation[c].owner = creation[d].owner /\ creation[c].owner # Nothing => c = d
    /\ \A c \in Creations : creation[c].owner # Nothing => link[creation[c].owner] = Nothing
=============================================================================
