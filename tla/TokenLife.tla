----------------------------- MODULE TokenLife -----------------------------
(***************************************************************************)
(* What a client may rely on about refresh tokens, without saying how they *)
(* are kept: a token works from the moment it is handed out until it ends, *)
(* by whatever way tokens end, and never works again.  Tokens are handed   *)
(* out one at a time and may end together.  Sessions.tla is the program;   *)
(* it implements this life whatever overlaps, fails or stops.              *)
(***************************************************************************)
CONSTANT Jtis       \* token identifiers

VARIABLE life       \* life[j]: "unissued", "usable" or "over"

Init == life = [j \in Jtis |-> "unissued"]

HandOut(j) ==
  /\ life[j] = "unissued"
  /\ life' = [life EXCEPT ![j] = "usable"]

\* The tokens D end, handed out or not.
End(D) ==
  /\ \A j \in D : life[j] # "over"
  /\ life' = [j \in Jtis |-> IF j \in D THEN "over" ELSE life[j]]

Next ==
  \/ \E j \in Jtis : HandOut(j)
  \/ \E D \in SUBSET Jtis : End(D)

Spec == Init /\ [][Next]_life
=============================================================================
