-------------------------- MODULE DwmblocksTiming --------------------------
(***************************************************************************)
(* The interval arithmetic of dwmblocks: the sleep interval computed from  *)
(* the blocks' own intervals, and which blocks a tick of the loop counter  *)
(* runs.  The counter is an unsigned int of statusloop that getcmds takes  *)
(* as an int, so both views of the word matter.                            *)
(***************************************************************************)
EXTENDS Integers

CONSTANTS
  NBlocks,        \* LENGTH(blocks)
  BlockInterval,  \* seconds between two runs of a block, 0 for none
  WordSize        \* number of values of an unsigned int (2^32 in the build)

Blocks == 1 .. NBlocks

ASSUME TimingAssumption ==
  /\ NBlocks \in Nat \ {0}
  /\ BlockInterval \in [Blocks -> Nat]
  /\ WordSize \in Nat \ {0, 1}

-----------------------------------------------------------------------------
\* gcd(a, b): Euclid's loop; a is returned untouched when b starts at or below 0.
Gcd[p \in Int \X Int] == IF p[2] > 0 THEN Gcd[<<p[2], p[1] % p[2]>>] ELSE p[1]

\* An unsigned word read as an int, the parameter type of getcmds and gcd.
AsInt(word) == IF 2 * word < WordSize THEN word ELSE word - WordSize

\* The value of `interval` after the loop over blocks 1..n.  It starts as -1.
IntervalUpTo[n \in 0 .. NBlocks] ==
  IF n = 0 THEN WordSize - 1
  ELSE IF BlockInterval[n] = 0 THEN IntervalUpTo[n - 1]
  ELSE Gcd[<<BlockInterval[n], AsInt(IntervalUpTo[n - 1])>>]

\* Seconds slept between two ticks.
Interval == IntervalUpTo[NBlocks]

\* Mutant: the counter does not wrap.
AfterTickUnbounded(word) == word + Interval

\* i += interval
AfterTick(word) == (word + Interval) % WordSize

\* getcmds(time) runs block b.  time is an int and interval an unsigned int, so
\* the remainder is that of the word itself.
Due(b, word) ==
  \/ BlockInterval[b] # 0 /\ word % BlockInterval[b] = 0
  \/ AsInt(word) = -1
=============================================================================
