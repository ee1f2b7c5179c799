---------------------------- MODULE MCDashboard ----------------------------
(* The dashboard with two changes and one test to propose, lists of up to two *)
(* bans.                                                                      *)
EXTENDS Dashboard

CONSTANTS fix, unban, health, junk, s1, s2

Ban(ip, source) == [ip |-> ip, source |-> source]
MCLines == {fix, unban, health, junk}
MCReplies == {<<>>, <<junk, fix, fix>>, <<unban, fix>>, <<health>>}
MCAdvice == {<<fix>>}
MCStatusFiles == {<<>>, <<Ban(s1, "config")>>, <<Ban(s2, "auto"), Ban(s1, "config")>>}
=============================================================================
