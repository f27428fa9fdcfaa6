---------------------------- MODULE MCCatalogue ----------------------------
(***************************************************************************)
(* An instance of the records the services keep: rows removed by a flag,   *)
(* who owns which business, pictures, accounts.  The four share no         *)
(* variable, so a behaviour of one says nothing about the others: each     *)
(* behaviour here exercises one of them, which one is chosen at the start. *)
(***************************************************************************)
EXTENDS SoftRows, Ownership, Pictures, Accounts

CONSTANTS c1, c2, d1, d2, k1, k2, n1, n2, u1, u2, b1, b2, b3, e1, e2, r1, r2, v1, v2, v3, s1, s2

VARIABLE record

allVars == <<record, rowVars, ownershipVars, pictureVars, accountVars>>

Init ==
  /\ record \in {"row", "owner", "picture", "account"}
  /\ RowInit /\ OwnershipInit /\ PicturesInit /\ AccountsInit
  /\ record # "row" => collection = "staff"
  /\ record # "picture" => kind = "staff"

Next ==
  /\ UNCHANGED record
  /\ \/ record = "row" /\ RowNext /\ UNCHANGED <<ownershipVars, pictureVars, accountVars>>
     \/ record = "owner" /\ OwnershipNext /\ UNCHANGED <<rowVars, pictureVars, accountVars>>
     \/ record = "picture" /\ PicturesNext /\ UNCHANGED <<rowVars, ownershipVars, accountVars>>
     \/ record = "account" /\ AccountsNext /\ UNCHANGED <<rowVars, ownershipVars, pictureVars>>

\* Every state of the rows, owners, pictures and accounts is well-formed.
CatalogueTypeOK == RowTypeOK /\ OwnershipTypeOK /\ PicturesTypeOK /\ AccountsTypeOK

CatalogueSpec == Init /\ [][Next]_allVars
=============================================================================
