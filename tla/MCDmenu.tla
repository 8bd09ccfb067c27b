------------------------------ MODULE MCDmenu ------------------------------
(* Six short items, some of them to a page, and none. "B" is "b" to -i.      *)
EXTENDS Dmenu

Letters == {"a", "b", "B", " "}
IgnoreCase == [c \in Letters |-> IF c = "B" THEN "b" ELSE c]
Several == <<<<"a">>, <<"b", "a">>, <<"B">>, <<"a", " ", "b">>, <<"b", " ", "a">>,
             <<"a", "b">> >>
Inputs == {Several, <<>>}
KeyTexts == {<<"a">>, <<"b">>, <<" ">>}
Selections == {<<>>, <<"b", "a">>, <<"a", "b", "a", "b">>}
=============================================================================
