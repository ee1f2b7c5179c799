----------------------------- MODULE MCDetector -----------------------------
(* Detector on small instances: limits of two or three, windows of two ticks. *)
EXTENDS Detector, TLC

CONSTANTS a, b, p, q

OneSource == {a}
TwoSources == {a, b}
TwoPorts == {p, q}

Probe == [kind |-> "syn", port |-> p, dropped |-> TRUE]
Stealth == [kind |-> "odd", port |-> q, dropped |-> TRUE]
Stray == [kind |-> "other", port |-> q, dropped |-> FALSE]

FewEvents == {Probe, Stray}
OneEvent == {Stealth}

Tight == [window_secs |-> 2, syn_limit |-> 3, port_limit |-> 2, udp_limit |-> 3, drop_limit |-> 3]
Touchy == [window_secs |-> 2, syn_limit |-> 1, port_limit |-> 1, udp_limit |-> 1, drop_limit |-> 1]

JustTouchy == {Touchy}
TightOrTouchy == {Tight, Touchy}

Short == [base_secs |-> 1, max_secs |-> 2, forgive_secs |-> 3]
Doubling == [base_secs |-> 1, max_secs |-> 4, forgive_secs |-> 1]
JustShort == {Short}
JustDoubling == {Doubling}

Nobody == {{}}
NobodyOrA == {{}, {a}}
=============================================================================
