------------------------------ MODULE MCStTerm ------------------------------
(* Behaviours of st's terminal for TLC.                                     *)
EXTENDS StTerm, TLC

\* Two rows of two columns on which "ab" goes on in "b".
Grid == [cols |-> 2, rows |-> 2, text |-> <<"a", "b", "b">>, chars |-> {"c", "w"},
         counts |-> {1}, snaps |-> {0, 1}, sizes |-> {}]

\* One column of which a row has left the screen.
Column == [cols |-> 1, rows |-> 2, text |-> <<"a", "\n", "b", "\n", "c">>, chars |-> {"d"},
           counts |-> {1, 2}, snaps |-> {0}, sizes |-> {<<1, 2>>, <<1, 1>>, <<2, 1>>, <<2, 3>>}]

\* "ab" goes on in "c", and there is a row below.
Three == [Grid EXCEPT !.rows = 3, !.text = <<"a", "b", "c", "\n", "e", "f">>]

\* Two sizes for a selection to be on.
Sized == [Grid EXCEPT !.sizes = {<<2, 1>>, <<1, 2>>, <<2, 2>>}]

\* One column, on which a word goes on from the history to the screen.
Word == [Column EXCEPT !.text = <<"a", "b", "c">>, !.snaps = {0, 1}]

Session(s, g, n) == s @@ [groups |-> g, ops |-> n]

Window == {"scroll", "keyboard", "resize"}

Screen ==
  { Session(Grid, SequenceGroups \ (Window \cup {"select"}), 4),
    Session(Grid, {"select", "print", "newline", "index", "lines", "region", "draw"}, 4),
    Session(Grid, {"select", "print", "erase", "chars", "modes", "alternate", "reset"}, 4),
    Session(Grid, {"print", "index", "region", "cursor", "alternate", "erase"}, 5),
    Session(Grid, {"index", "region", "select"}, 5),
    Session(Three, {"select", "region", "lines", "index"}, 3),
    Session(Grid, {"select", "alternate", "lines"}, 4),
    Session(Sized, {"select", "resize", "motion"}, 3) }

Past ==
  { Session(Column, {"print", "newline", "index", "lines", "region", "scroll", "keyboard"}, 5),
    Session(Column, {"print", "newline", "scroll", "resize", "alternate", "motion"}, 4),
    Session(Column, {"print", "newline", "index", "region", "scroll", "select"}, 5),
    Session(Word, {"newline", "scroll", "select"}, 4) }

ScreenAndPast == Screen \cup Past
=============================================================================
