----------------------------- MODULE MCBrowser -----------------------------
(***************************************************************************)
(* Instances of Browser for TLC: two sites, links to a page of the same    *)
(* host and to another host, and a user who types lines of one word, empty *)
(* lines and a line of two words.                                          *)
(***************************************************************************)
EXTENDS Browser

MCWords == {"a", "b/p", "quit", "0", "1", "-1"}
MCHosts == {"a", "b", "quit", "0", "1", "-1"}
MCSegments == {"p"}
MCPaths == {<< >>, <<"p">>}

MCUrlOf == [w \in MCWords |-> IF w = "b/p" THEN [host |-> "b", path |-> <<"p">>]
                                           ELSE [host |-> w, path |-> << >>]]
MCNumberOf == [w \in MCWords |-> CASE w = "0" -> 0 [] w = "1" -> 1
                                   [] w = "-1" -> SizeMax
                                   [] OTHER -> NotANumber]
MCQuitWords == {"quit"}
MCLines == {<<NewLine>>, <<"0", "b/p", NewLine>>} \cup {<<w, NewLine>> : w \in MCWords}
MCLinkLists == {<< >>, <<[host |-> Relative, path |-> <<"p">>]>>,
                <<[host |-> "b", path |-> << >>], [host |-> Relative, path |-> <<"p">>]>>}
=============================================================================
