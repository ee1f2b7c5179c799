---------------------------- MODULE MCAttachment ----------------------------
(* Attachment with two interfaces. *)
EXTENDS Attachment, TLC

CONSTANTS eth, wifi

TwoIfaces == {eth, wifi}
Names == Permutations(TwoIfaces)
=============================================================================
