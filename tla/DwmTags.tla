------------------------------- MODULE DwmTags -------------------------------
(***************************************************************************)
(* Tag masks of dwm (dwm.c, shiftview.c).  A mask is the set of its bit    *)
(* positions: bits 0..NTags-1 are the tags shown in the bar (config.h:     *)
(* tags[]), the next NScratch bits belong to the scratchpads               *)
(* (config.h: scratchpads[]).                                              *)
(*                                                                         *)
(* The two shift keys compute with whole machine words, so the shifts are  *)
(* those of 32-bit integers on x86: bits that leave the word are lost, and *)
(* the instruction takes the shift count modulo 32.                        *)
(***************************************************************************)
EXTENDS Integers, FiniteSets

CONSTANTS NTags, NScratch

ASSUME TagCounts ==
  /\ NTags \in 1..30
  /\ NScratch \in 0..30
  /\ NTags + NScratch <= 31

WordBits == 32

SPTAG(i) == NTags + i
SPTAGMASK == { SPTAG(i) : i \in 0..(NScratch - 1) }
TAGMASK == 0..(NTags + NScratch - 1)
OrdinaryTags == 0..(NTags - 1)

ShiftLeft(S, k)  == { b + (k % WordBits) : b \in S } \cap 0..(WordBits - 1)
ShiftRight(S, k) == { b - (k % WordBits) : b \in { x \in S : x >= k % WordBits } }

\* The first of the numbers 1..n that is in K, where there is one.
FirstOf(K, n) == CHOOSE k \in 1..n : k \in K /\ \A j \in 1..(k - 1) : j \notin K

(***************************************************************************)
(* The circular shift both keys write: to the left for i > 0, to the right *)
(* for i < 0.                                                              *)
(***************************************************************************)
Circular(S, i) ==
  IF i > 0
  THEN ShiftLeft(S, i) \cup ShiftRight(S, NTags - i)
  ELSE ShiftRight(S, -i) \cup ShiftLeft(S, NTags + i)

(***************************************************************************)
(* shiftview: shift the view one step at a time, dropping the scratchpad   *)
(* bits each time, until it shows a tag of "occupied" (or at once, when    *)
(* nothing is occupied).  The ordinary bits come round after NTags steps,  *)
(* so a loop that has not stopped by then never stops.                     *)
(***************************************************************************)
ShiftSteps(view, i) ==
  LET step[k \in 0..NTags] == IF k = 0 THEN view \ SPTAGMASK
                                       ELSE Circular(step[k - 1], i) \ SPTAGMASK
  IN  step

ShiftStops(view, occupied, i) ==
  { k \in 1..NTags : occupied = {} \/ ShiftSteps(view, i)[k] \cap occupied # {} }

ShiftViewHangs(view, occupied, i) == ShiftStops(view, occupied, i) = {}

ShiftedView(view, occupied, i) ==
  ShiftSteps(view, i)[FirstOf(ShiftStops(view, occupied, i), NTags)]

(***************************************************************************)
(* shifttag: try the view shifted by i, 2i, 3i, ... until some window is   *)
(* there.  The code gives up after the tenth try, with nine tags: one try  *)
(* more than there are tags.  The result is the mask handed to tag(), or   *)
(* none at all ({}), which tag() ignores.                                  *)
(***************************************************************************)
ShiftTries == NTags + 1

ShiftTagStops(view, occupied, i) ==
  { k \in 1..ShiftTries : Circular(view, k * i) \cap occupied # {} }

ShiftedTag(view, occupied, i) ==
  IF ShiftTagStops(view, occupied, i) = {}
  THEN {}
  ELSE Circular(view, FirstOf(ShiftTagStops(view, occupied, i), ShiftTries) * i)
         \cap TAGMASK
==============================================================================
