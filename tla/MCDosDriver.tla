---------------------------- MODULE MCDosDriver ----------------------------
(* DosDriver with three image slots, and lines of CONFIG.SYS of a name and *)
(* up to two pieces out of which good and bad options are made.            *)
EXTENDS DosDriver

Pieces == {<<>>, <<" ">>, <<"/", "D">>, <<"/", "K">>, <<" ", "/", "P", "=", "2">>,
           <<"/", "P", "=", "6", "0", "0", "0", "0">>, <<"/", "B", "=", "1">>, <<"/", "P">>,
           <<"=">>, <<"6">>, <<"x">>}
Lines == { <<"x", " ">> \o p \o q : p \in Pieces, q \in Pieces } \cup { <<"x">> \o p : p \in Pieces }

NoneOrOne == {0, 1}
=============================================================================
