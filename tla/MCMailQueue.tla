----------------------------- MODULE MCMailQueue -----------------------------
(* Instances of MailQueue for TLC. *)
EXTENDS MailQueue

CONSTANTS m1, m2, m3, m4, w1
=============================================================================
