---------------------------- MODULE MCRateLimit ----------------------------
(* RateLimit with two CPUs and one or two sources. *)
EXTENDS RateLimit, TLC

CONSTANTS k1, k2, c1, c2, s1

TwoKeys == {k1, k2}
TwoCPUs == {c1, c2}
OneSlot == {s1}
OneOrTwo == {[max |-> 1, window |-> 1], [max |-> 2, window |-> 1]}
=============================================================================
