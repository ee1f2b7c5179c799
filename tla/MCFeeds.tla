------------------------------ MODULE MCFeeds ------------------------------
(* Feeds with one built-in list, two urls that take each other's place, and *)
(* a trie that two lists overflow.                                          *)
EXTENDS Feeds, TLC

CONSTANTS a, b, lan, u1, u2

MCNets == {a, b, lan}
MCReserved == {lan}
MCUrls == {u1, u2}
MCKnown == <<u1>>
MCLists == {{a, lan}, {b}}
MCConfigs == {[lists |-> <<>>, urls |-> <<u1>>], [lists |-> <<>>, urls |-> <<u2>>],
              [lists |-> <<1>>, urls |-> <<u2>>]}
=============================================================================
