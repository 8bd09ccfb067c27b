---------------------------- MODULE MCDwmblocks ----------------------------
(* Small instances of Dwmblocks for TLC.                                   *)
EXTENDS Dwmblocks, TLC

\* Two signalled blocks, the second also periodic: the drain serves one slot
\* while the other's signal arrives, and ticks interleave with both.
MCSignal == <<1, 2>>
MCInterval == <<0, 1>>

\* One block that only its signal refreshes, beside a periodic one: the loop
\* counter is never -1, so no tick refreshes the first by accident.
MCLiveSignal == <<1, 0>>
MCLiveInterval == <<0, 2>>

\* The text of a block is compared, never computed with.
ValueSymmetry == Permutations(Values)
=============================================================================
