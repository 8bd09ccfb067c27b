----------------------------- MODULE MCDwmClients -----------------------------
(* Windows for TLC: a plain one, one a rule puts on a scratchpad, a dialog  *)
(* that is transient for the plain one.                                     *)
EXTENDS DwmClients
CONSTANTS w1, w2, w3

Plain == [tags |-> {}, float |-> FALSE, dialog |-> FALSE, fixed |-> FALSE,
          transient |-> NoClient]
Scratch == [Plain EXCEPT !.tags = {SPTAG(0)}, !.float = TRUE]
DialogOf(c) == [Plain EXCEPT !.dialog = TRUE, !.transient = c]

PlainHints == [c \in Client |-> Plain]
ScratchHints == [c \in Client |-> IF c = w2 THEN Scratch ELSE Plain]
DialogHints == [c \in Client |-> IF c = w2 THEN DialogOf(w1) ELSE Plain]
==============================================================================
