------------------------------- MODULE MCStore -------------------------------
(***************************************************************************)
(* Store with tables of one name in two families, a chain in one of them   *)
(* and a set in the other, and netfilter at the start empty, with one of   *)
(* the tables, or filled, then with a table of another name, too, which is *)
(* not the program's.                                                      *)
(***************************************************************************)
EXTENDS Store, TLC

Ip == <<"ip", "t">>
Ip6 == <<"ip6", "t">>
MCTables == {Ip, Ip6}
MCChains == {<<"ip", "t", "c">>}
MCSets == {<<"ip6", "t", "s">>}
OwnFamily == [s \in MCSets |-> s[1]]

Empty == [tables |-> {}, chains |-> <<>>, sets |-> <<>>]
OneTable == [tables |-> {Ip}, chains |-> <<>>, sets |-> <<>>]
Filled ==
    [tables |-> MCTables \cup {<<"ip", "u">>},
     chains |-> <<"ip", "t", "c">> :> [base |-> TRUE, policy |-> "accept", rules |-> <<1, 2>>],
     sets |-> <<"ip6", "t", "s">> :> {1}]
MCStarts == {Empty, OneTable, Filled}
=============================================================================
