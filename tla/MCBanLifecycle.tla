--------------------------- MODULE MCBanLifecycle ---------------------------
(* BanLifecycle on small instances: one or two addresses, up to four config files. *)
EXTENDS BanLifecycle, TLC

CONSTANTS a, b

TwoSources == {a, b}
OneSource == {a}
MayBeProtected == {{}, {a}}

PlainConfig == [blocked |-> {}, trusted |-> {}, enforce |-> TRUE]
BlocksA == [PlainConfig EXCEPT !.blocked = {a}]
MonitorOnly == [PlainConfig EXCEPT !.enforce = FALSE]
TrustsA == [PlainConfig EXCEPT !.trusted = {a}]

EveryEdit == {PlainConfig, BlocksA, MonitorOnly, TrustsA}

OneSec == {1}
TwoSecs == {2}
HandSecs == {0, 1}
=============================================================================
