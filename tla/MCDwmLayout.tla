---------------------------- MODULE MCDwmLayout ----------------------------
(* A small monitor for TLC: a plain window, one with size increments, one on *)
(* a scratchpad and a dialog.                                                *)
EXTENDS DwmLayout

CONSTANTS w1, w2, w3, w4, w5

Position == <<0, 0>>
Size == <<160, 48>>
SmallGaps == [oh |-> 2, ov |-> 5, ih |-> 4, iv |-> 3]

Plain == [min |-> <<0, 0>>, max |-> <<0, 0>>, inc |-> <<0, 0>>, base |-> <<0, 0>>,
          dialog |-> FALSE, scratch |-> FALSE]
Kinds == [i \in Window |->
            CASE i = w2 -> [Plain EXCEPT !.inc = <<7, 5>>, !.base = <<3, 2>>]
              [] i = w3 -> [Plain EXCEPT !.scratch = TRUE]
              [] i = w4 -> [Plain EXCEPT !.dialog = TRUE, !.min = <<20, 10>>, !.max = <<60, 0>>,
                                !.inc = <<7, 0>>]
              [] OTHER -> Plain]

Lists == {<<w1>>, <<w4, w1>>, <<w1, w2, w3>>, <<w1, w2, w4, w3>>, <<w5, w1, w2, w3>>}
Beginnings ==
  [lt : Layouts, nmaster : 0..3, size : {<<30, 20>>}, windows : Lists, left : {2}]
  \cup [lt : {"tile", "floating"}, nmaster : {1}, size : {<<30, 20>>},
        windows : {<<w1, w2, w4>>}, left : {3}]
Asked == {<<30, 20>>, <<200, 5>>}
Points == {<<-30, 40>>, <<100, 60>>}
=============================================================================
