-------------------------- MODULE DwmblocksProofs --------------------------
(***************************************************************************)
(* Proofs about Dwmblocks: its type invariant, that no flagged slot is     *)
(* forgotten, that no announced change is lost and that the loop sleeps    *)
(* only on a screen it has written, and that it implements StatusBoard,    *)
(* for any number of blocks, signals, slots and queued instances.          *)
(***************************************************************************)
EXTENDS Dwmblocks, Induction

\* The loop indices stay in range where the code uses them as indices, and
\* getcmds(-1) starts at the first block.
ControlOK ==
  /\ pc \in {"read", "store"} => blk <= NBlocks
  /\ pc = "clearslot" => scan < MaxSlots
  /\ pc \in {"cmds", "read", "store"} /\ task = "sig" => scan < MaxSlots
  /\ pc = "setup" => task = "all" /\ blk = 1

\* A line read before its block changed again has a signal behind it, if it was
\* read whole.
StaleLineIsPosted ==
  pc = "store" /\ BlockSignal[blk] \in Signals /\ buf # announced[blk] =>
    queued[BlockSignal[blk]] > 0 \/ slot[BlockSignal[blk]] \/ blk \in torn

\* The inductive invariants.
TypeInv == TypeOK /\ ControlOK
UpdateInv == StaleLineIsPosted /\ NoLostUpdate

\* Where the screen is the text of the blocks, or still blank: from one write to
\* the next pass over blocks.  The first pass, getcmds(-1), runs on a blank screen.
WrittenInv ==
  /\ \/ pc \in {"loop", "sleep", "drain", "clearany"}
     \/ pc \in {"scan", "clearslot"} /\ ~updated
     => screen = bar \/ screen = Blank
  /\ pc = "setup" \/ (pc \in {"cmds", "read", "store"} /\ task = "all") => screen = Blank

-----------------------------------------------------------------------------
(* The arithmetic of the interval.                                          *)

Pairs == Int \X Int

\* What Euclid's loop does with a pair of numbers: one round.
Round(p) == <<p[2], p[1] % p[2]>>

\* f is a function that does what gcd does.
IsGcd(f) == f = [p \in Int \X Int |-> IF p[2] > 0 THEN f[<<p[2], p[1] % p[2]>>] ELSE p[1]]

\* A remainder is a number below the divisor.
LEMMA RoundShrinks ==
  ASSUME NEW p \in Pairs, p[2] > 0
  PROVE  /\ Round(p) \in Pairs
         /\ Round(p)[1] = p[2]
         /\ 0 <= Round(p)[2] /\ Round(p)[2] <= p[2] - 1
<1>1. p[1] \in Int /\ p[2] \in Int
  BY DEF Pairs
<1>2. p[1] % p[2] \in Int /\ 0 <= p[1] % p[2] /\ p[1] % p[2] <= p[2] - 1
  BY <1>1
<1> QED BY <1>1, <1>2 DEF Pairs, Round

\* Euclid's loop with at most n rounds.
LEMMA GcdRounds ==
  \E G \in [Nat -> [Pairs -> Int]] :
    /\ \A p \in Pairs : G[0][p] = p[1]
    /\ \A n \in Nat, p \in Pairs :
         G[n + 1][p] = IF p[2] > 0 THEN G[n][Round(p)] ELSE p[1]
<1> DEFINE V == [Pairs -> Int]
           base == [p \in Pairs |-> p[1]]
           longer(g) == [p \in Pairs |-> IF p[2] > 0 THEN g[Round(p)] ELSE p[1]]
           step == [q \in V \X Nat |-> longer(q[1])]
<1>1. \A p \in Pairs : p[1] \in Int /\ p[2] \in Int
  BY DEF Pairs
<1>2. base \in V
  BY <1>1
<1>3. ASSUME NEW g \in V
      PROVE  longer(g) \in V
  <2>1. ASSUME NEW p \in Pairs
        PROVE  (IF p[2] > 0 THEN g[Round(p)] ELSE p[1]) \in Int
    BY <1>1, RoundShrinks
  <2> QED BY <2>1
<1>4. step \in [V \X Nat -> V]
  <2> HIDE DEF longer, V
  <2> QED BY <1>3
<1>5. \A g \in V, n \in Nat : step[<<g, n>>] = longer(g)
  <2> HIDE DEF longer, V
  <2> QED OBVIOUS
<1>6. PICK G \in [Nat -> V] :
        G[0] = base /\ \A n \in Nat : G[n + 1] = step[<<G[n], n + 1>>]
  <2> HIDE DEF base, step, V
  <2>1. IsStep(step, V)
    BY <1>4 DEF IsStep
  <2> QED BY <1>2, <2>1, NatRecursion
<1>7. \A n \in Nat : G[n + 1] = longer(G[n])
  <2> HIDE DEF step, longer, V
  <2>1. \A n \in Nat : G[n] \in V /\ n + 1 \in Nat
    BY <1>6
  <2> QED BY <1>5, <1>6, <2>1
<1>8. \A p \in Pairs : G[0][p] = p[1]
  BY <1>6
<1>9. \A n \in Nat, p \in Pairs :
         G[n + 1][p] = IF p[2] > 0 THEN G[n][Round(p)] ELSE p[1]
  BY <1>7
<1> QED BY <1>6, <1>8, <1>9

LEMMA GcdExists == \E f \in [Pairs -> Int] : IsGcd(f)
<1>1. PICK G \in [Nat -> [Pairs -> Int]] :
        /\ \A p \in Pairs : G[0][p] = p[1]
        /\ \A n \in Nat, p \in Pairs :
             G[n + 1][p] = IF p[2] > 0 THEN G[n][Round(p)] ELSE p[1]
  BY GcdRounds
<1>2. \A p \in Pairs : p[1] \in Int /\ p[2] \in Int
  BY DEF Pairs
\* As many rounds are enough as the second number is large.
<1> DEFINE S == {n \in Nat : \A p \in Pairs : p[2] <= n => G[n + 1][p] = G[n][p]}
<1>3. 0 \in S
  BY <1>1, <1>2
<1>4. ASSUME NEW n \in Nat, n \in S
      PROVE  n + 1 \in S
  <2>1. ASSUME NEW p \in Pairs, p[2] <= n + 1
        PROVE  G[(n + 1) + 1][p] = G[n + 1][p]
    <3>1. CASE ~(p[2] > 0)
      <4>1. n + 1 \in Nat
        OBVIOUS
      <4>2. G[n + 1][p] = p[1] /\ G[(n + 1) + 1][p] = p[1]
        BY <1>1, <3>1, <4>1
      <4> QED BY <4>2
    <3>2. CASE p[2] > 0
      <4>1. Round(p) \in Pairs /\ Round(p)[2] <= n
        BY <1>2, <2>1, <3>2, RoundShrinks
      <4>2. G[n + 1][Round(p)] = G[n][Round(p)]
        BY <1>4, <4>1
      <4>3. G[n + 1][p] = G[n][Round(p)] /\ G[(n + 1) + 1][p] = G[n + 1][Round(p)]
        BY <1>1, <3>2
      <4> QED BY <4>2, <4>3
    <3> QED BY <3>1, <3>2
  <2> QED BY <2>1
<1>5. Nat \subseteq S
  <2> HIDE DEF S
  <2> QED BY <1>3, <1>4, NatInductionOnSets
<1> DEFINE rounds(p) == IF p[2] > 0 THEN p[2] ELSE 0
           T == {k \in Nat : \A p \in Pairs : G[rounds(p) + k][p] = G[rounds(p)][p]}
<1>6. \A p \in Pairs : rounds(p) \in Nat /\ p[2] <= rounds(p)
  BY <1>2
<1>7. Nat \subseteq T
  <2>1. 0 \in T
    <3> HIDE DEF rounds
    <3> QED BY <1>6
  <2>2. ASSUME NEW k \in Nat, k \in T
        PROVE  k + 1 \in T
    <3>1. ASSUME NEW p \in Pairs
          PROVE  G[rounds(p) + (k + 1)][p] = G[rounds(p)][p]
      <4>1. rounds(p) + k \in Nat /\ p[2] <= rounds(p) + k
            /\ rounds(p) + (k + 1) = (rounds(p) + k) + 1
        BY <1>2, <1>6
      <4> HIDE DEF rounds
      <4>2. G[(rounds(p) + k) + 1][p] = G[rounds(p) + k][p]
        BY <1>5, <4>1
      <4> QED BY <2>2, <4>1, <4>2
    <3> QED BY <3>1
  <2> HIDE DEF T
  <2> QED BY <2>1, <2>2, NatInductionOnSets
<1> DEFINE f == [p \in Pairs |-> G[rounds(p)][p]]
<1>8. ASSUME NEW p \in Pairs
      PROVE  f[p] = IF p[2] > 0 THEN f[Round(p)] ELSE p[1]
  <2>1. CASE p[2] > 0
    <3> DEFINE q == Round(p)
               n == p[2] - 1
    <3>1. q \in Pairs /\ q[2] \in Int /\ 0 <= q[2] /\ q[2] <= n /\ rounds(q) = q[2]
      BY <1>2, <2>1, RoundShrinks
    <3>2. n \in Nat /\ rounds(p) = n + 1 /\ n - q[2] \in Nat /\ q[2] + (n - q[2]) = n
      BY <1>2, <2>1, <3>1
    <3>3. f[p] = G[n + 1][p] /\ f[q] = G[q[2]][q]
      <4> HIDE DEF q, n, rounds
      <4> QED BY <3>1, <3>2
    <3>4. G[n + 1][p] = G[n][q]
      BY <1>1, <2>1, <3>2
    <3>5. G[n][q] = G[q[2]][q]
      <4> HIDE DEF q, n, rounds
      <4>1. G[rounds(q) + (n - q[2])][q] = G[rounds(q)][q]
        BY <1>7, <3>1, <3>2
      <4> QED BY <3>1, <3>2, <4>1
    <3> HIDE DEF f, n
    <3> QED BY <2>1, <3>3, <3>4, <3>5
  <2>2. CASE ~(p[2] > 0)
    BY <1>1, <2>2
  <2> QED BY <2>1, <2>2
<1>9. f \in [Pairs -> Int]
  <2> HIDE DEF rounds
  <2> QED BY <1>6
<1>10. IsGcd(f)
  <2>1. f = [p \in Pairs |-> f[p]]
    OBVIOUS
  <2> HIDE DEF f
  <2> QED BY <1>8, <2>1 DEF IsGcd, Pairs, Round
<1> QED BY <1>9, <1>10

LEMMA GcdIs == IsGcd(Gcd)
<1>1. \E f : IsGcd(f)
  BY GcdExists
<1> QED BY <1>1 DEF Gcd, IsGcd

LEMMA GcdTyped ==
  ASSUME NEW a \in Nat \ {0}, NEW b \in Int
  PROVE  Gcd[<<a, b>>] \in Nat \ {0}
<1> DEFINE S == {n \in Nat :
                  \A p \in Pairs : p[1] \in Nat \ {0} /\ p[2] <= n => Gcd[p] \in Nat \ {0}}
<1>1. \A p \in Pairs : Gcd[p] = IF p[2] > 0 THEN Gcd[Round(p)] ELSE p[1]
  <2>1. Gcd = [p \in Int \X Int |-> IF p[2] > 0 THEN Gcd[<<p[2], p[1] % p[2]>>] ELSE p[1]]
    BY GcdIs DEF IsGcd
  <2> QED BY <2>1 DEF Pairs, Round
<1>2. 0 \in S
  BY <1>1 DEF Pairs
<1>3. ASSUME NEW n \in Nat, n \in S
      PROVE  n + 1 \in S
  <2>1. ASSUME NEW p \in Pairs, p[1] \in Nat \ {0}, p[2] <= n + 1
        PROVE  Gcd[p] \in Nat \ {0}
    <3>1. CASE p[2] > 0
      <4>1. /\ Round(p) \in Pairs /\ Round(p)[1] \in Nat \ {0} /\ Round(p)[2] \in Int
            /\ Round(p)[2] <= n
        BY <2>1, <3>1, RoundShrinks DEF Pairs
      <4>2. Gcd[Round(p)] \in Nat \ {0}
        BY <1>3, <4>1
      <4> QED BY <1>1, <3>1, <4>2
    <3>2. CASE ~(p[2] > 0)
      BY <1>1, <2>1, <3>2
    <3> QED BY <3>1, <3>2
  <2> QED BY <2>1
<1>4. Nat \subseteq S
  <2> HIDE DEF S
  <2> QED BY <1>2, <1>3, NatInductionOnSets
<1>5. CASE b > 0
  BY <1>4, <1>5 DEF Pairs
<1>6. CASE ~(b > 0)
  BY <1>1, <1>6 DEF Pairs
<1> QED BY <1>5, <1>6

\* The interval after block n, from what it was before it.
IntervalWith(old, n) ==
  IF BlockInterval[n] = 0 THEN old ELSE Gcd[<<BlockInterval[n], AsInt(old)>>]

LEMMA IntervalExists ==
  \E f \in [0 .. NBlocks -> Nat] :
    f = [n \in 0 .. NBlocks |-> IF n = 0 THEN WordSize - 1 ELSE IntervalWith(f[n - 1], n)]
<1> DEFINE step == [q \in Nat \X Nat |->
                      IF q[2] \in Blocks THEN IntervalWith(q[1], q[2]) ELSE q[1]]
           base == WordSize - 1
           V == Nat
<1>1. ASSUME NEW old \in Nat, NEW n \in Blocks
      PROVE  IntervalWith(old, n) \in Nat
  <2>1. BlockInterval[n] \in Nat /\ AsInt(old) \in Int
    BY TimingAssumption DEF AsInt
  <2> QED BY <2>1, GcdTyped DEF IntervalWith
<1>2. IsStep(step, Nat)
  BY <1>1 DEF IsStep
<1>3. WordSize - 1 \in Nat
  BY TimingAssumption
<1>4. PICK g \in [Nat -> Nat] :
        g[0] = WordSize - 1 /\ \A n \in Nat : g[n + 1] = step[<<g[n], n + 1>>]
  <2>1. \E g \in [Nat -> V] :
          g[0] = base /\ \A n \in Nat : g[n + 1] = step[<<g[n], n + 1>>]
    <3>1. base \in V /\ IsStep(step, V)
      BY <1>2, <1>3
    <3> HIDE DEF step, base, V
    <3> QED BY <3>1, NatRecursion
  <2> QED BY <2>1
<1> DEFINE f == [n \in 0 .. NBlocks |-> g[n]]
<1>5. f \in [0 .. NBlocks -> Nat]
  BY TimingAssumption
<1>6. ASSUME NEW n \in 0 .. NBlocks
      PROVE  f[n] = IF n = 0 THEN WordSize - 1 ELSE IntervalWith(f[n - 1], n)
  <2>1. CASE n = 0
    BY <1>4, <2>1
  <2>2. CASE n # 0
    <3>1. n \in Blocks /\ n \in Nat /\ n - 1 \in 0 .. NBlocks /\ n - 1 \in Nat /\ (n - 1) + 1 = n
      BY <2>2, TimingAssumption DEF Blocks
    <3>2. g[n] = step[<<g[n - 1], n>>]
      <4> HIDE DEF step
      <4> QED BY <1>4, <3>1
    <3>3. g[n - 1] \in Nat
      BY <1>4, <3>1
    <3>4. step[<<g[n - 1], n>>] = IntervalWith(g[n - 1], n)
      BY <3>1, <3>3
    <3> QED BY <2>2, <3>1, <3>2, <3>4
  <2> QED BY <2>1, <2>2
<1>7. f = [n \in 0 .. NBlocks |-> f[n]]
  OBVIOUS
<1> HIDE DEF f
<1> QED BY <1>5, <1>6, <1>7

(***************************************************************************)
(* Whatever the blocks' intervals, none included, Euclid's loop over them  *)
(* ends, and the loop sleeps at least a second between two ticks.          *)
(***************************************************************************)
THEOREM IntervalTyped == Interval \in Nat \ {0}
<1> DEFINE Is(f) ==
      f = [n \in 0 .. NBlocks |->
             IF n = 0 THEN WordSize - 1
             ELSE IF BlockInterval[n] = 0 THEN f[n - 1]
             ELSE Gcd[<<BlockInterval[n], AsInt(f[n - 1])>>]]
<1>1. PICK f \in [0 .. NBlocks -> Nat] : Is(f)
  BY IntervalExists DEF IntervalWith
<1>2. Is(IntervalUpTo)
  BY <1>1 DEF IntervalUpTo
<1> DEFINE S == {n \in Nat : n <= NBlocks => IntervalUpTo[n] \in Nat \ {0}}
<1>3. NBlocks \in Nat
  BY TimingAssumption
<1>4. 0 \in S
  <2>1. 0 \in 0 .. NBlocks /\ WordSize - 1 \in Nat \ {0}
    BY <1>3, TimingAssumption
  <2>2. IntervalUpTo[0] = WordSize - 1
    BY <1>2, <2>1
  <2> QED BY <2>1, <2>2
<1>5. ASSUME NEW n \in Nat, n \in S
      PROVE  n + 1 \in S
  <2>1. SUFFICES ASSUME n + 1 <= NBlocks
                 PROVE  IntervalUpTo[n + 1] \in Nat \ {0}
    OBVIOUS
  <2>2. /\ n + 1 \in 0 .. NBlocks /\ n + 1 # 0 /\ (n + 1) - 1 = n /\ n + 1 \in Blocks
        /\ IntervalUpTo[n] \in Nat \ {0}
    BY <1>3, <1>5, <2>1 DEF Blocks
  <2>3. IntervalUpTo[n + 1] = IntervalWith(IntervalUpTo[n], n + 1)
    BY <1>2, <2>2 DEF IntervalWith
  <2>4. BlockInterval[n + 1] \in Nat /\ AsInt(IntervalUpTo[n]) \in Int
    BY <2>2, TimingAssumption DEF AsInt
  <2> QED BY <2>3, <2>2, <2>4, GcdTyped DEF IntervalWith
<1>6. Nat \subseteq S
  <2> HIDE DEF S
  <2> QED BY <1>4, <1>5, NatInductionOnSets
<1> QED BY <1>3, <1>6 DEF Interval

-----------------------------------------------------------------------------
\* Every RT signal of a block has a slot of its own.
LEMMA SignalsHaveSlots ==
  /\ Signals \subseteq 0 .. MaxSlots - 1
  /\ \A b \in Blocks : BlockSignal[b] \in 0 .. MaxSlots - 1
BY DwmblocksAssumption DEF Signals, Blocks

\* Euclid's result and the wrap of the counter stay in the word.
LEMMA AfterTickInWord ==
  ASSUME NEW word \in 0 .. WordSize - 1
  PROVE  AfterTick(word) \in 0 .. WordSize - 1
BY TimingAssumption, IntervalTyped DEF AfterTick

\* Every step keeps the types and the indices in range.  Under each action,
\* the variables it computes, then the rest.
LEMMA TypeStep == TypeInv /\ [Next]_vars => TypeInv'
<1> SUFFICES ASSUME TypeInv, [Next]_vars
             PROVE  TypeInv'
  OBVIOUS
<1> USE DEF TypeInv, At, env, flags, pass, drain, clock, reading, texts
<1>1. ASSUME NEW b \in Blocks, NEW v \in Values, Announce(b, v)
      PROVE  TypeInv'
  <2>1. announced' \in [Blocks -> Values]
    BY <1>1 DEF Announce, TypeOK, ControlOK, Blocks
  <2>2. queued' \in [Signals -> 0 .. MaxQueued]
    BY <1>1, DwmblocksAssumption DEF Announce, TypeOK, ControlOK, Blocks
  <2>3. TypeOK'
    BY <1>1, <2>1, <2>2 DEF Announce, TypeOK, Points
  <2>4. ControlOK'
    BY <1>1 DEF Announce, ControlOK, TypeOK
  <2> QED BY <2>3, <2>4
<1>2. ASSUME NEW s \in ClickSignals, Click(s)
      PROVE  TypeInv'
  <2>1. click' \in ClickSignals \cup {NoClick}
    BY <1>2 DEF Click, TypeOK, ControlOK, Blocks
  <2>2. TypeOK'
    BY <1>2, <2>1 DEF Click, TypeOK, Points
  <2>3. ControlOK'
    BY <1>2 DEF Click, ControlOK, TypeOK
  <2> QED BY <2>2, <2>3
<1>3. ASSUME NEW b \in Blocks, NEW v \in Values, ClickCommandSucceeds(b, v)
      PROVE  TypeInv'
  <2>1. announced' \in [Blocks -> Values]
    BY <1>3 DEF ClickCommandSucceeds, TypeOK, ControlOK, Blocks
  <2>2. queued' \in [Signals -> 0 .. MaxQueued]
    BY <1>3, DwmblocksAssumption DEF ClickCommandSucceeds, TypeOK, ControlOK, Blocks
  <2>3. children' \in [Blocks -> 0 .. MaxChildren]
    <3>1. children' = [children EXCEPT ![b] = @ - 1] /\ children[b] > 0
      BY <1>3 DEF ClickCommandSucceeds
    <3>2. children \in [Blocks -> 0 .. MaxChildren] /\ MaxChildren \in Nat
      BY DwmblocksAssumption DEF TypeOK
    <3> QED BY <3>1, <3>2
  <2>4. TypeOK'
    BY <1>3, <2>1, <2>2, <2>3 DEF ClickCommandSucceeds, TypeOK, Points
  <2>5. ControlOK'
    BY <1>3 DEF ClickCommandSucceeds, ControlOK, TypeOK
  <2> QED BY <2>4, <2>5
<1>4. ASSUME NEW b \in Blocks, ClickCommandFails(b)
      PROVE  TypeInv'
  <2>1. children' \in [Blocks -> 0 .. MaxChildren]
    BY <1>4, DwmblocksAssumption DEF ClickCommandFails, TypeOK, ControlOK, Blocks
  <2>2. TypeOK'
    BY <1>4, <2>1 DEF ClickCommandFails, TypeOK, Points
  <2>3. ControlOK'
    BY <1>4 DEF ClickCommandFails, ControlOK, TypeOK
  <2> QED BY <2>2, <2>3
<1>5. ASSUME NEW s \in Signals, SigHandler(s)
      PROVE  TypeInv'
  <2>1. queued' \in [Signals -> 0 .. MaxQueued]
    BY <1>5, DwmblocksAssumption DEF SigHandler, TypeOK, ControlOK, Blocks
  <2>2. slot' \in [0 .. MaxSlots - 1 -> BOOLEAN]
    BY <1>5, SignalsHaveSlots DEF SigHandler, TypeOK, ControlOK, Blocks
  <2>3. eintr' \in BOOLEAN
    BY <1>5 DEF SigHandler, TypeOK, ControlOK, Blocks
  <2>4. TypeOK'
    BY <1>5, <2>1, <2>2, <2>3 DEF SigHandler, TypeOK, Points
  <2>5. ControlOK'
    BY <1>5 DEF SigHandler, ControlOK, TypeOK
  <2> QED BY <2>4, <2>5
<1>6. ASSUME NEW s \in Signals, IgnoreSignal(s)
      PROVE  TypeInv'
  <2>1. queued' \in [Signals -> 0 .. MaxQueued]
    BY <1>6, DwmblocksAssumption DEF IgnoreSignal, TypeOK, ControlOK, Blocks
  <2>2. TypeOK'
    BY <1>6, <2>1 DEF IgnoreSignal, TypeOK, Points
  <2>3. ControlOK'
    BY <1>6 DEF IgnoreSignal, ControlOK, TypeOK
  <2> QED BY <2>2, <2>3
<1>7. ASSUME NEW b \in Blocks, ButtonHandler(b)
      PROVE  TypeInv'
  <2>1. children' \in [Blocks -> 0 .. MaxChildren]
    BY <1>7, DwmblocksAssumption DEF ButtonHandler, TypeOK, ControlOK, Blocks
  <2>2. eintr' \in BOOLEAN
    BY <1>7 DEF ButtonHandler, TypeOK, ControlOK, Blocks
  <2>3. TypeOK'
    BY <1>7, <2>1, <2>2 DEF ButtonHandler, TypeOK, Points
  <2>4. ControlOK'
    BY <1>7 DEF ButtonHandler, ControlOK, TypeOK
  <2> QED BY <2>3, <2>4
<1>8. CASE ButtonTooEarly
  <2>1. TypeOK'
    BY <1>8 DEF ButtonTooEarly, TypeOK, Points
  <2>2. ControlOK'
    BY <1>8 DEF ButtonTooEarly, ControlOK, TypeOK
  <2> QED BY <2>1, <2>2
<1>9. CASE TermHandler
  <2>1. TypeOK'
    BY <1>9 DEF TermHandler, TypeOK, Points
  <2>2. ControlOK'
    BY <1>9 DEF TermHandler, ControlOK, TypeOK
  <2> QED BY <2>1, <2>2
<1>10. CASE SecondPasses
  <2>1. rest' \in 0 .. Interval
    BY <1>10, IntervalTyped DEF SecondPasses, TypeOK, ControlOK, Blocks
  <2>2. TypeOK'
    BY <1>10, <2>1 DEF SecondPasses, TypeOK, Points
  <2>3. ControlOK'
    BY <1>10 DEF SecondPasses, ControlOK, TypeOK
  <2> QED BY <2>2, <2>3
<1>11. CASE SetupSignals
  <2>1. TypeOK'
    BY <1>11 DEF SetupSignals, TypeOK, Points
  <2>2. ControlOK'
    BY <1>11 DEF SetupSignals, ControlOK, TypeOK
  <2> QED BY <2>1, <2>2
<1>12. CASE Sleep
  <2>1. TypeOK'
    BY <1>12 DEF Sleep, TypeOK, Points
  <2>2. ControlOK'
    BY <1>12 DEF Sleep, ControlOK, TypeOK
  <2> QED BY <2>1, <2>2
<1>13. CASE SleepInterrupted
  <2>1. TypeOK'
    BY <1>13 DEF SleepInterrupted, TypeOK, Points
  <2>2. ControlOK'
    BY <1>13 DEF SleepInterrupted, ControlOK, TypeOK
  <2> QED BY <2>1, <2>2
<1>14. CASE SleepEnds
  <2>1. TypeOK'
    BY <1>14 DEF SleepEnds, TypeOK, Points
  <2>2. ControlOK'
    BY <1>14 DEF SleepEnds, ControlOK, TypeOK
  <2> QED BY <2>1, <2>2
<1>15. CASE FinishTick
  <2>1. rest' \in 0 .. Interval
    BY <1>15, IntervalTyped DEF FinishTick, TypeOK, ControlOK, Blocks
  <2>2. time' \in 0 .. WordSize - 1
    BY <1>15, AfterTickInWord DEF FinishTick, TypeOK, ControlOK, Blocks
  <2>3. TypeOK'
    BY <1>15, <2>1, <2>2 DEF FinishTick, TypeOK, Points
  <2>4. ControlOK'
    BY <1>15 DEF FinishTick, ControlOK, TypeOK
  <2> QED BY <2>3, <2>4
<1>16. CASE NothingPending
  <2>1. scan' \in 0 .. MaxSlots
    BY <1>16, DwmblocksAssumption DEF NothingPending, ReturnFromDrain, TypeOK, ControlOK, Blocks
  <2>2. TypeOK'
    BY <1>16, <2>1 DEF NothingPending, ReturnFromDrain, TypeOK, Points
  <2>3. ControlOK'
    BY <1>16 DEF NothingPending, ReturnFromDrain, ControlOK, TypeOK
  <2> QED BY <2>2, <2>3
<1>17. CASE SomethingPending
  <2>1. TypeOK'
    BY <1>17 DEF SomethingPending, TypeOK, Points
  <2>2. ControlOK'
    BY <1>17 DEF SomethingPending, ControlOK, TypeOK
  <2> QED BY <2>1, <2>2
<1>18. CASE ClearAny
  <2>1. scan' \in 0 .. MaxSlots
    BY <1>18, DwmblocksAssumption DEF ClearAny, TypeOK, ControlOK, Blocks
  <2>2. TypeOK'
    BY <1>18, <2>1 DEF ClearAny, TypeOK, Points
  <2>3. ControlOK'
    BY <1>18 DEF ClearAny, ControlOK, TypeOK
  <2> QED BY <2>2, <2>3
<1>19. CASE SkipSlot
  <2>1. scan' \in 0 .. MaxSlots
    BY <1>19, DwmblocksAssumption DEF SkipSlot, TypeOK, ControlOK, Blocks
  <2>2. TypeOK'
    BY <1>19, <2>1 DEF SkipSlot, TypeOK, Points
  <2>3. ControlOK'
    BY <1>19 DEF SkipSlot, ControlOK, TypeOK
  <2> QED BY <2>2, <2>3
<1>20. CASE FoundSlot
  <2>1. TypeOK'
    BY <1>20 DEF FoundSlot, TypeOK, Points
  <2>2. ControlOK'
    BY <1>20 DEF FoundSlot, ControlOK, TypeOK
  <2> QED BY <2>1, <2>2
<1>21. CASE ClearSlot
  <2>1. slot' \in [0 .. MaxSlots - 1 -> BOOLEAN]
    BY <1>21, DwmblocksAssumption DEF ClearSlot, TypeOK, ControlOK, Blocks
  <2>2. blk' \in 1 .. NBlocks + 1
    BY <1>21, TimingAssumption DEF ClearSlot, TypeOK, ControlOK, Blocks
  <2>3. TypeOK'
    BY <1>21, <2>1, <2>2 DEF ClearSlot, TypeOK, Points
  <2>4. ControlOK'
    BY <1>21 DEF ClearSlot, ControlOK, TypeOK
  <2> QED BY <2>3, <2>4
<1>22. CASE EndScan
  <2>1. scan' \in 0 .. MaxSlots
    BY <1>22, DwmblocksAssumption DEF EndScan, ReturnFromDrain, TypeOK, ControlOK, Blocks
  <2>2. task' \in {"all", "tick", "sig"}
    BY <1>22 DEF EndScan, ReturnFromDrain, TypeOK, ControlOK, Blocks
  <2>3. TypeOK'
    BY <1>22, <2>1, <2>2 DEF EndScan, ReturnFromDrain, TypeOK, Points
  <2>4. ControlOK'
    BY <1>22 DEF EndScan, ReturnFromDrain, ControlOK, TypeOK
  <2> QED BY <2>3, <2>4
<1>23. CASE Publish
  <2>1. scan' \in 0 .. MaxSlots
    BY <1>23, DwmblocksAssumption DEF Publish, ReturnFromDrain, TypeOK, ControlOK, Blocks
  <2>2. TypeOK'
    BY <1>23, <2>1 DEF Publish, ReturnFromDrain, TypeOK, Points
  <2>3. ControlOK'
    BY <1>23 DEF Publish, ReturnFromDrain, ControlOK, TypeOK
  <2> QED BY <2>2, <2>3
<1>24. CASE SkipBlock
  <2>1. blk' \in 1 .. NBlocks + 1
    BY <1>24, TimingAssumption DEF SkipBlock, TypeOK, ControlOK, Blocks
  <2>2. TypeOK'
    BY <1>24, <2>1 DEF SkipBlock, TypeOK, Points
  <2>3. ControlOK'
    BY <1>24 DEF SkipBlock, ControlOK, TypeOK
  <2> QED BY <2>2, <2>3
<1>25. CASE Popen
  <2>1. TypeOK'
    BY <1>25 DEF Popen, TypeOK, Points
  <2>2. ControlOK'
    BY <1>25 DEF Popen, ControlOK, TypeOK
  <2> QED BY <2>1, <2>2
<1>26. CASE PopenFails
  <2>1. blk' \in 1 .. NBlocks + 1
    BY <1>26, TimingAssumption DEF PopenFails, TypeOK, ControlOK, Blocks
  <2>2. failed' \subseteq Blocks
    BY <1>26, TimingAssumption DEF PopenFails, TypeOK, ControlOK, Blocks
  <2>3. TypeOK'
    BY <1>26, <2>1, <2>2 DEF PopenFails, TypeOK, Points
  <2>4. ControlOK'
    BY <1>26 DEF PopenFails, ControlOK, TypeOK
  <2> QED BY <2>3, <2>4
<1>27. CASE ReadLine \/ ReadRest
  <2>1. buf' \in Texts
    BY <1>27 DEF ReadLine, ReadRest, TypeOK, ControlOK, Blocks, Texts
  <2>2. torn' \subseteq Blocks
    <3>1. blk \in Blocks /\ torn \subseteq Blocks
      BY <1>27, TimingAssumption DEF ReadLine, ReadRest, TypeOK, ControlOK, Blocks
    <3>2. torn' = torn \ {blk} \/ torn' = torn \cup {blk}
      BY <1>27 DEF ReadLine, ReadRest
    <3> QED BY <3>1, <3>2
  <2>3. TypeOK'
    BY <1>27, <2>1, <2>2 DEF ReadLine, ReadRest, TypeOK, Points
  <2>4. ControlOK'
    BY <1>27 DEF ReadLine, ReadRest, ControlOK, TypeOK
  <2> QED BY <2>3, <2>4
<1>28. CASE ReadAgain
  <2>1. TypeOK'
    BY <1>28 DEF ReadAgain, TypeOK, Points
  <2>2. ControlOK'
    BY <1>28 DEF ReadAgain, ControlOK, TypeOK
  <2> QED BY <2>1, <2>2
<1>29. CASE Store
  <2>1. bar' \in [Blocks -> Texts]
    BY <1>29 DEF Store, TypeOK, ControlOK, Blocks
  <2>2. blk' \in 1 .. NBlocks + 1
    BY <1>29, TimingAssumption DEF Store, TypeOK, ControlOK, Blocks
  <2>3. failed' \subseteq Blocks
    BY <1>29 DEF Store, TypeOK, ControlOK, Blocks
  <2>4. TypeOK'
    BY <1>29, <2>1, <2>2, <2>3, DwmblocksAssumption DEF Store, TypeOK, Points, Texts
  <2>5. ControlOK'
    BY <1>29 DEF Store, ControlOK, TypeOK
  <2> QED BY <2>4, <2>5
<1>30. CASE EndAll
  <2>1. blk' \in 1 .. NBlocks + 1
    BY <1>30, TimingAssumption DEF EndAll, EndOfPass, TypeOK, ControlOK, Blocks
  <2>2. TypeOK'
    BY <1>30, <2>1 DEF EndAll, EndOfPass, TypeOK, Points
  <2>3. ControlOK'
    BY <1>30 DEF EndAll, EndOfPass, ControlOK, TypeOK
  <2> QED BY <2>2, <2>3
<1>31. CASE EndTick
  <2>1. blk' \in 1 .. NBlocks + 1
    BY <1>31, TimingAssumption DEF EndTick, EndOfPass, TypeOK, ControlOK, Blocks
  <2>2. TypeOK'
    BY <1>31, <2>1 DEF EndTick, EndOfPass, TypeOK, Points
  <2>3. ControlOK'
    BY <1>31 DEF EndTick, EndOfPass, ControlOK, TypeOK
  <2> QED BY <2>2, <2>3
<1>32. CASE EndSignal
  <2>1. blk' \in 1 .. NBlocks + 1
    BY <1>32, TimingAssumption DEF EndSignal, EndOfPass, TypeOK, ControlOK, Blocks
  <2>2. scan' \in 0 .. MaxSlots
    BY <1>32, DwmblocksAssumption DEF EndSignal, EndOfPass, TypeOK, ControlOK, Blocks
  <2>3. TypeOK'
    BY <1>32, <2>1, <2>2 DEF EndSignal, EndOfPass, TypeOK, Points
  <2>4. ControlOK'
    BY <1>32 DEF EndSignal, EndOfPass, ControlOK, TypeOK
  <2> QED BY <2>3, <2>4
<1>33. CASE UNCHANGED vars
  BY <1>33 DEF vars, TypeOK, ControlOK
<1> QED
  BY <1>1, <1>2, <1>3, <1>4, <1>5, <1>6, <1>7, <1>8, <1>9, <1>10,
     <1>11, <1>12, <1>13, <1>14, <1>15, <1>16, <1>17, <1>18, <1>19, <1>20,
     <1>21, <1>22, <1>23, <1>24, <1>25, <1>26, <1>27, <1>28, <1>29, <1>30,
     <1>31, <1>32, <1>33
     DEF Next, Thread, Loop, Drain, RunBlocks, Environment, Handlers, Exited

LEMMA TypeInit == Init => TypeInv
<1> SUFFICES ASSUME Init PROVE TypeInv
  OBVIOUS
<1>1. /\ 0 \in 0 .. MaxQueued
      /\ 0 \in 0 .. MaxChildren
      /\ 0 \in 0 .. MaxSlots
      /\ Interval \in 0 .. Interval
      /\ 0 \in 0 .. WordSize - 1
      /\ 1 \in 1 .. NBlocks + 1
  BY TimingAssumption, DwmblocksAssumption, IntervalTyped
<1>2. TypeOK
  BY <1>1, DwmblocksAssumption DEF Init, Blank, TypeOK, Points, Texts
<1>3. ControlOK
  BY DEF Init, ControlOK
<1> QED BY <1>2, <1>3 DEF TypeInv

\* The types are invariant for every choice of blocks, signals and bounds.
THEOREM TypeCorrect == Spec => []TypeOK
<1>1. TypeInv => TypeOK
  BY DEF TypeInv
<1> QED BY <1>1, TypeInit, TypeStep, PTL DEF Spec

THEOREM TypeInvariant == Spec => []TypeInv
BY TypeInit, TypeStep, PTL DEF Spec

-----------------------------------------------------------------------------
\* No flagged slot is forgotten: handlers raise slot and summary together, the
\* drain lowers the summary only where it is about to scan from slot 0, and
\* the scan passes a slot only when it has found it down or lowered it.
LEMMA FlaggedStep == TypeInv /\ FlaggedIsFound /\ [Next]_vars => FlaggedIsFound'
<1> SUFFICES ASSUME TypeInv, FlaggedIsFound, [Next]_vars,
                    NEW s \in 0 .. MaxSlots - 1, slot'[s]
             PROVE  \/ any'
                    \/ pc' \in {"scan", "clearslot"} /\ scan' <= s
                    \/ pc' \in {"cmds", "read", "store"} /\ task' = "sig" /\ scan' < s
  BY DEF FlaggedIsFound
<1> USE DEF At, env, flags, pass, drain, clock, reading, texts
<1>1. ASSUME NEW r \in Signals, SigHandler(r)
      PROVE  any'
  BY <1>1 DEF SigHandler
<1>2. CASE ClearAny
  BY <1>2 DEF ClearAny
<1>3. CASE SkipSlot
  BY <1>3 DEF SkipSlot, SlotFlagged, FlaggedIsFound, TypeInv, TypeOK
<1>4. CASE FoundSlot
  BY <1>4 DEF FoundSlot, FlaggedIsFound
<1>5. CASE ClearSlot
  BY <1>5 DEF ClearSlot, FlaggedIsFound, TypeInv, TypeOK, ControlOK
<1>6. CASE EndSignal
  BY <1>6 DEF EndSignal, EndOfPass, FlaggedIsFound, TypeInv, TypeOK
<1>7. CASE EndScan
  BY <1>7 DEF EndScan, ReturnFromDrain, FlaggedIsFound, TypeInv, TypeOK
<1>8. CASE NothingPending \/ SomethingPending \/ Publish
  BY <1>8 DEF NothingPending, SomethingPending, Publish, ReturnFromDrain, FlaggedIsFound
<1>9. CASE Loop
  BY <1>9 DEF Loop, SetupSignals, Sleep, SleepInterrupted, SleepEnds, FinishTick,
              FlaggedIsFound, TypeInv, ControlOK
<1>10. CASE SkipBlock \/ Popen \/ PopenFails \/ ReadLine \/ ReadAgain \/ ReadRest \/ Store
  <2>1. /\ pc \in {"cmds", "read", "store"} /\ pc' \in {"cmds", "read", "store"}
        /\ UNCHANGED <<slot, any, scan, task>>
    BY <1>10 DEF SkipBlock, Popen, PopenFails, ReadLine, ReadAgain, ReadRest, Store
  <2> QED BY <2>1 DEF FlaggedIsFound
<1>11. CASE EndAll \/ EndTick
  BY <1>11 DEF EndAll, EndTick, EndOfPass, FlaggedIsFound
<1>12. CASE Environment
  BY <1>12 DEF Environment, Announce, Click, ClickCommandSucceeds,
               ClickCommandFails, FlaggedIsFound
<1>13. ASSUME NEW r \in Signals, IgnoreSignal(r)
       PROVE  UNCHANGED <<slot, any, pc, scan, task>>
  BY <1>13 DEF IgnoreSignal
<1>14. ASSUME NEW b \in Blocks, ButtonHandler(b)
       PROVE  UNCHANGED <<slot, any, pc, scan, task>>
  BY <1>14 DEF ButtonHandler
<1>15. CASE ButtonTooEarly \/ TermHandler \/ SecondPasses \/ UNCHANGED vars
  BY <1>15 DEF ButtonTooEarly, TermHandler, SecondPasses, vars, FlaggedIsFound
<1>16. CASE UNCHANGED <<slot, any, pc, scan, task>>
  BY <1>16 DEF FlaggedIsFound
<1> QED
  BY <1>1, <1>2, <1>3, <1>4, <1>5, <1>6, <1>7, <1>8, <1>9, <1>10, <1>11,
     <1>12, <1>13, <1>14, <1>15, <1>16
     DEF Next, Thread, Drain, RunBlocks, Handlers, Exited

\* Every flagged slot is one the drain still finds (sighandler, drainsignals).
THEOREM FlagsNotForgotten == Spec => []FlaggedIsFound
<1>1. Init => FlaggedIsFound
  BY DEF Init, FlaggedIsFound
<1> QED BY <1>1, FlaggedStep, TypeInvariant, PTL DEF Spec

-----------------------------------------------------------------------------
\* No announced change is lost.  StaleLineIsPosted is what NoLostUpdate lacks
\* to be inductive: a block may change away from the line read and back, and
\* then nothing in NoLostUpdate says that its signal is still on the way.
LEMMA UpdateStep == TypeInv /\ UpdateInv /\ [Next]_vars => UpdateInv'
<1> SUFFICES ASSUME TypeInv, UpdateInv, [Next]_vars
             PROVE  UpdateInv'
  OBVIOUS
<1> USE DEF UpdateInv, NoLostUpdate, StaleLineIsPosted, WillRead, Wanted, At, env, flags,
            pass, drain, clock, reading, texts
<1>1. ASSUME NEW b \in Blocks, NEW v \in Values, Announce(b, v)
      PROVE  UpdateInv'
  BY <1>1 DEF Announce, TypeInv, TypeOK
<1>2. ASSUME NEW b \in Blocks, NEW v \in Values, ClickCommandSucceeds(b, v)
      PROVE  UpdateInv'
  <2>1. CASE BlockSignal[b] \in Signals
    <3>1. /\ announced' = [announced EXCEPT ![b] = v]
          /\ queued' = [queued EXCEPT ![BlockSignal[b]] = @ + 1]
          /\ UNCHANGED <<slot, pc, task, blk, buf, bar, failed, torn, scan, time>>
      BY <1>2, <2>1 DEF ClickCommandSucceeds
    <3> QED BY <2>1, <3>1 DEF TypeInv, TypeOK
  <2>2. CASE BlockSignal[b] \notin Signals
    BY <1>2, <2>2 DEF ClickCommandSucceeds
  <2> QED BY <2>1, <2>2
<1>3. ASSUME NEW s \in Signals, SigHandler(s)
      PROVE  UpdateInv'
  <2>1. \A r \in Signals : queued[r] > 0 \/ slot[r] => queued'[r] > 0 \/ slot'[r]
    <3>1. /\ slot' = [slot EXCEPT ![s] = TRUE]
          /\ queued' = [queued EXCEPT ![s] = @ - 1]
      BY <1>3 DEF SigHandler
    <3> QED BY <3>1, SignalsHaveSlots DEF TypeInv, TypeOK
  <2>2. UNCHANGED <<announced, pc, task, blk, buf, bar, failed, torn, scan, time>>
    BY <1>3 DEF SigHandler
  <2> QED BY <2>1, <2>2
<1>4. ASSUME NEW s \in Signals, IgnoreSignal(s)
      PROVE  UpdateInv'
  BY <1>4 DEF IgnoreSignal
<1>5. CASE ClearSlot
  BY <1>5 DEF ClearSlot, TypeInv, TypeOK, Blocks
<1>6. CASE ReadLine
  BY <1>6 DEF ReadLine, TypeInv, TypeOK, Blocks
<1>19. CASE ReadRest
  <2>1. /\ pc = "read" /\ pc' = "store" /\ torn' = torn \cup {blk}
        /\ UNCHANGED <<announced, queued, slot, task, blk, bar, failed, scan, time>>
    BY <1>19 DEF ReadRest
  <2> QED BY <2>1 DEF TypeInv, TypeOK, Blocks
<1>7. CASE Store
  BY <1>7 DEF Store, TypeInv, TypeOK, Blocks, ControlOK
<1>8. CASE PopenFails
  BY <1>8 DEF PopenFails, TypeInv, TypeOK, Blocks
<1>9. CASE SkipBlock
  BY <1>9 DEF SkipBlock, TypeInv, TypeOK, Blocks
<1>10. CASE SetupSignals
  BY <1>10 DEF SetupSignals, TypeInv, ControlOK, Blocks
<1>11. CASE EndAll \/ EndTick \/ EndSignal
  <2>1. /\ pc = "cmds" /\ blk > NBlocks
        /\ pc' \in {"loop", "tick", "scan"}
        /\ UNCHANGED <<announced, queued, slot, bar, failed, torn>>
    BY <1>11 DEF EndAll, EndTick, EndSignal, EndOfPass
  <2>2. \A b \in Blocks : ~WillRead(b)
    BY <2>1, TimingAssumption DEF TypeInv, TypeOK, Blocks
  <2> QED BY <2>1, <2>2
<1>12. CASE NothingPending \/ Publish \/ EndScan
  BY <1>12 DEF NothingPending, Publish, EndScan, ReturnFromDrain
<1>13. CASE SomethingPending \/ ClearAny \/ SkipSlot \/ FoundSlot
  BY <1>13 DEF SomethingPending, ClearAny, SkipSlot, FoundSlot
<1>14. CASE Sleep \/ SleepInterrupted \/ SleepEnds \/ FinishTick
  BY <1>14 DEF Sleep, SleepInterrupted, SleepEnds, FinishTick
<1>15. CASE Popen \/ ReadAgain
  BY <1>15 DEF Popen, ReadAgain
<1>16. ASSUME NEW b \in Blocks, ButtonHandler(b) \/ ClickCommandFails(b)
       PROVE  UpdateInv'
  BY <1>16 DEF ButtonHandler, ClickCommandFails
<1>17. ASSUME NEW s \in ClickSignals, Click(s)
       PROVE  UpdateInv'
  BY <1>17 DEF Click
<1>18. CASE ButtonTooEarly \/ TermHandler \/ SecondPasses \/ UNCHANGED vars
  BY <1>18 DEF ButtonTooEarly, TermHandler, SecondPasses, vars
<1> QED
  BY <1>1, <1>2, <1>3, <1>4, <1>5, <1>6, <1>7, <1>8, <1>9, <1>10, <1>11,
     <1>12, <1>13, <1>14, <1>15, <1>16, <1>17, <1>18, <1>19
     DEF Next, Thread, Loop, Drain, RunBlocks, Environment, Handlers, Exited

\* A change that was signalled reaches the bar or has a signal, a flag or a read to
\* come (sighandler, getcmd).
THEOREM UpdatesNotLost == Spec => []NoLostUpdate
<1>1. Init => UpdateInv
  BY DEF Init, UpdateInv, NoLostUpdate, StaleLineIsPosted, WillRead
<1>2. UpdateInv => NoLostUpdate
  BY DEF UpdateInv
<1> QED BY <1>1, <1>2, UpdateStep, TypeInvariant, PTL DEF Spec

-----------------------------------------------------------------------------
\* The loop sleeps on a written screen: bar and screen differ only from a pass
\* over blocks to the write after it, and the drain remembers in "updated" that
\* it owes one.
LEMMA WrittenStep == TypeInv /\ WrittenInv /\ [Next]_vars => WrittenInv'
<1> SUFFICES ASSUME TypeInv, WrittenInv, [Next]_vars
             PROVE  WrittenInv'
  OBVIOUS
<1> USE DEF WrittenInv, At, env, flags, pass, drain, clock, reading, texts, Blank
<1>1. CASE SetupSignals
  BY <1>1 DEF SetupSignals, TypeInv, ControlOK
<1>2. CASE Sleep \/ SleepInterrupted \/ SleepEnds \/ FinishTick
  BY <1>2 DEF Sleep, SleepInterrupted, SleepEnds, FinishTick
<1>3. CASE NothingPending \/ Publish \/ EndScan
  BY <1>3 DEF NothingPending, Publish, EndScan, ReturnFromDrain
<1>4. CASE SomethingPending \/ ClearAny \/ SkipSlot \/ FoundSlot \/ ClearSlot
  BY <1>4 DEF SomethingPending, ClearAny, SkipSlot, FoundSlot, ClearSlot
<1>5. CASE SkipBlock \/ Popen \/ PopenFails \/ ReadLine \/ ReadAgain \/ ReadRest \/ Store
  BY <1>5 DEF SkipBlock, Popen, PopenFails, ReadLine, ReadAgain, ReadRest, Store
<1>6. CASE EndAll \/ EndTick \/ EndSignal
  BY <1>6 DEF EndAll, EndTick, EndSignal, EndOfPass
<1>7. ASSUME \/ Environment \/ Handlers \/ SecondPasses \/ UNCHANGED vars
      PROVE  UNCHANGED <<pc, task, updated, bar, screen>>
  BY <1>7 DEF Environment, Announce, Click, ClickCommandSucceeds, ClickCommandFails,
              Handlers, SigHandler, IgnoreSignal, ButtonHandler, ButtonTooEarly,
              TermHandler, SecondPasses, vars
<1>8. CASE UNCHANGED <<pc, task, updated, bar, screen>>
  BY <1>8
<1> QED
  BY <1>1, <1>2, <1>3, <1>4, <1>5, <1>6, <1>7, <1>8
     DEF Next, Thread, Loop, Drain, RunBlocks, Exited

\* While statusloop sleeps, what is on screen is the blocks' text, or nothing yet
\* (writestatus, drainsignals).
THEOREM SleepsOnWrittenScreen == Spec => []SleepsPublished
<1>1. Init => WrittenInv
  BY DEF Init, WrittenInv
<1>2. WrittenInv => SleepsPublished
  BY DEF WrittenInv, SleepsPublished
<1> QED BY <1>1, <1>2, WrittenStep, TypeInvariant, PTL DEF Spec

-----------------------------------------------------------------------------
(* Dwmblocks implements StatusBoard: every step of the loop, of a handler or of  *)
(* a notifier is a step of the board or changes none of what the board speaks of. *)

\* Between two passes the index is back at the first block; a block that is being
\* read is one the pass wants; a slot is flagged for a signal only, and still is
\* when the drain has just found it.
PassInv ==
  /\ pc \notin {"cmds", "read", "store"} => blk = 1
  /\ pc = "read" => Wanted(blk)
  /\ \A s \in 0 .. MaxSlots - 1 : slot[s] => s \in Signals
  /\ pc = "clearslot" => slot[scan]

BoardInv == TypeInv /\ PassInv

-----------------------------------------------------------------------------
\* Every step keeps PassInv.
LEMMA PassStep == BoardInv /\ [Next]_vars => PassInv'
<1> SUFFICES ASSUME TypeInv, PassInv, [Next]_vars
             PROVE  PassInv'
  BY DEF BoardInv
<1> USE DEF PassInv, Wanted, At, env, flags, pass, drain, clock, reading, texts
<1>1. CASE SetupSignals \/ Sleep \/ SleepInterrupted \/ SleepEnds \/ FinishTick
  BY <1>1 DEF SetupSignals, Sleep, SleepInterrupted, SleepEnds, FinishTick
<1>2. CASE NothingPending \/ SomethingPending \/ ClearAny \/ SkipSlot \/ EndScan \/ Publish
  BY <1>2 DEF NothingPending, SomethingPending, ClearAny, SkipSlot, EndScan, Publish,
              ReturnFromDrain
<1>3. CASE FoundSlot
  BY <1>3 DEF FoundSlot, SlotFlagged
<1>4. CASE ClearSlot
  BY <1>4 DEF ClearSlot, TypeInv, TypeOK
<1>5. CASE SkipBlock \/ Popen \/ PopenFails \/ ReadLine \/ ReadAgain \/ ReadRest \/ Store
  BY <1>5 DEF SkipBlock, Popen, PopenFails, ReadLine, ReadAgain, ReadRest, Store
<1>6. CASE EndAll \/ EndTick \/ EndSignal
  BY <1>6 DEF EndAll, EndTick, EndSignal, EndOfPass
<1>7. ASSUME NEW s \in Signals, SigHandler(s)
      PROVE  PassInv'
  <2>1. slot' = [slot EXCEPT ![s] = TRUE] /\ UNCHANGED <<pc, blk, task, scan, time>>
    BY <1>7 DEF SigHandler
  <2> QED BY <2>1, SignalsHaveSlots DEF TypeInv, TypeOK, ControlOK
<1>8. ASSUME \/ Environment \/ SecondPasses \/ UNCHANGED vars
             \/ \E s \in Signals : IgnoreSignal(s)
             \/ \E b \in Blocks : ButtonHandler(b)
             \/ ButtonTooEarly \/ TermHandler
      PROVE  UNCHANGED <<pc, blk, task, scan, time, slot>>
  BY <1>8 DEF Environment, Announce, Click, ClickCommandSucceeds, ClickCommandFails,
              IgnoreSignal, ButtonHandler, ButtonTooEarly, TermHandler, SecondPasses, vars
<1>9. CASE UNCHANGED <<pc, blk, task, scan, time, slot>>
  BY <1>9
<1> QED
  BY <1>1, <1>2, <1>3, <1>4, <1>5, <1>6, <1>7, <1>8, <1>9
     DEF Next, Thread, Loop, Drain, RunBlocks, Handlers, Exited

\* PassInv holds in every reachable state.
LEMMA BoardInvariant == Spec => []BoardInv
<1>1. Init => PassInv
  BY DwmblocksAssumption DEF Init, PassInv
<1> QED BY <1>1, PassStep, TypeInvariant, PTL DEF Spec, BoardInv

-----------------------------------------------------------------------------
\* A tick makes due what its clock says: periodic blocks, or all.
LEMMA ClockIsBoards ==
  ASSUME NEW word
  PROVE  Board!ClockMakesDue({b \in Blocks : Due(b, word)})
BY DEF Board!ClockMakesDue, Due

\* What the board speaks of.
BoardState == <<announced, Posted, BlocksDue, TextRead, screen>>

\* The return of the drain is a tick of the board, or nothing.
LEMMA ReturnMakesDue ==
  ASSUME BoardInv, ReturnFromDrain, pc \notin {"setup", "cmds", "read", "store"}
  PROVE  /\ BlocksDue = {} /\ BlocksDue' \subseteq Blocks
         /\ Board!ClockMakesDue(BlocksDue')
         /\ TextRead = bar /\ TextRead' = bar
<1>1. BlocksDue = {} /\ TextRead = bar
  BY DEF BlocksDue, TextRead
<1>2. UNCHANGED <<blk, bar, time>> /\ blk = 1
  BY DEF ReturnFromDrain, BoardInv, PassInv, reading, texts
<1>3. CASE pc' = "loop"
  BY <1>1, <1>2, <1>3 DEF BlocksDue, TextRead, Board!ClockMakesDue
<1>4. CASE pc' = "cmds" /\ task' = "tick"
  <2>1. BlocksDue' = {b \in Blocks : Due(b, time)}
    BY <1>2, <1>4 DEF BlocksDue, Wanted, Blocks
  <2> QED BY <1>1, <1>2, <1>4, <2>1, ClockIsBoards DEF TextRead
<1> QED BY <1>3, <1>4 DEF ReturnFromDrain

\* A change that is announced is posted.
LEMMA AnnouncedIsPosted ==
  ASSUME BoardInv, NEW b \in Blocks, NEW v \in Values, BlockSignal[b] \in Signals,
         announced' = [announced EXCEPT ![b] = v],
         queued' = [queued EXCEPT ![BlockSignal[b]] = @ + 1],
         UNCHANGED <<slot, pc, task, blk, buf, bar, scan, time, screen>>
  PROVE  Board!Post(b, v)
<1>1. Posted' = Posted \cup {BlockSignal[b]}
  BY DEF Posted, BoardInv, TypeInv, TypeOK
<1>2. UNCHANGED <<BlocksDue, TextRead, screen>>
  BY DEF BlocksDue, TextRead, Wanted
<1> QED BY <1>1, <1>2 DEF Board!Post

\* Each step of the thread in getcmds and getcmd.
LEMMA RunBlocksIsBoards ==
  ASSUME BoardInv, RunBlocks
  PROVE  [Board!BoardNext]_BoardState
<1> USE DEF BoardInv, TypeInv, TypeOK, ControlOK, PassInv, At, env, flags, pass, drain, clock, reading, texts
<1>1. CASE SkipBlock
  <2>1. BlocksDue' = BlocksDue
    BY <1>1 DEF SkipBlock, BlocksDue, Wanted, Blocks
  <2>2. UNCHANGED <<announced, Posted, TextRead, screen>>
    BY <1>1 DEF SkipBlock, Posted, TextRead
  <2> QED BY <2>1, <2>2 DEF BoardState
<1>2. CASE Popen \/ ReadAgain
  <2>1. BlocksDue' = BlocksDue
    <3>1. UNCHANGED <<task, scan, time, blk>>
      BY <1>2 DEF Popen, ReadAgain
    <3>2. (pc = "cmds" \/ pc = "read") /\ pc' = "read"
      BY <1>2 DEF Popen, ReadAgain
    <3> QED BY ONLY <3>1, <3>2 DEF BlocksDue, Wanted
  <2>2. UNCHANGED <<announced, Posted, TextRead, screen>>
    BY <1>2 DEF Popen, ReadAgain, Posted, TextRead
  <2> QED BY <2>1, <2>2 DEF BoardState
<1>3. CASE PopenFails
  <2>1. blk \in BlocksDue /\ BlocksDue' = BlocksDue \ {blk}
    BY <1>3 DEF PopenFails, BlocksDue, Wanted, Blocks
  <2>2. UNCHANGED <<announced, Posted, TextRead, screen>>
    BY <1>3 DEF PopenFails, Posted, TextRead
  <2>3. Board!ReadFails(blk) /\ blk \in Blocks
    BY <2>1, <2>2, <1>3 DEF Board!ReadFails, PopenFails, Blocks
  <2> QED BY <2>3 DEF Board!BoardNext
<1>4. CASE ReadLine
  <2>1. blk \in BlocksDue /\ BlocksDue' = BlocksDue \ {blk}
    BY <1>4 DEF ReadLine, BlocksDue, Wanted, Blocks
  <2>2. TextRead' = [TextRead EXCEPT ![blk] = announced[blk]]
    BY <1>4 DEF ReadLine, TextRead
  <2>3. UNCHANGED <<announced, Posted, screen>>
    BY <1>4 DEF ReadLine, Posted
  <2>4. Board!Read(blk) /\ blk \in Blocks
    BY <2>1, <2>2, <2>3, <1>4 DEF Board!Read, ReadLine, Blocks
  <2> QED BY <2>4 DEF Board!BoardNext
<1>5. CASE ReadRest
  <2>1. blk \in BlocksDue /\ BlocksDue' = BlocksDue \ {blk}
    BY <1>5 DEF ReadRest, BlocksDue, Wanted, Blocks
  <2>2. buf' \in Scraps /\ TextRead' = [TextRead EXCEPT ![blk] = buf']
    BY <1>5 DEF ReadRest, TextRead
  <2>3. UNCHANGED <<announced, Posted, screen>>
    BY <1>5 DEF ReadRest, Posted
  <2>4. Board!ReadTorn(blk, buf') /\ blk \in Blocks
    BY <2>1, <2>2, <2>3, <1>5 DEF Board!ReadTorn, ReadRest, Blocks
  <2> QED BY <2>2, <2>4 DEF Board!BoardNext
<1>6. CASE Store
  <2>1. BlocksDue' = BlocksDue
    BY <1>6 DEF Store, BlocksDue, Wanted, Blocks
  <2>2. UNCHANGED <<announced, Posted, TextRead, screen>>
    BY <1>6 DEF Store, Posted, TextRead
  <2> QED BY <2>1, <2>2 DEF BoardState
<1>7. CASE EndAll \/ EndTick \/ EndSignal
  <2>1. BlocksDue = {} /\ BlocksDue' = {}
    BY <1>7, TimingAssumption DEF EndAll, EndTick, EndSignal, EndOfPass, BlocksDue, Blocks
  <2>2. UNCHANGED <<announced, Posted, TextRead, screen>>
    BY <1>7 DEF EndAll, EndTick, EndSignal, EndOfPass, Posted, TextRead
  <2> QED BY <2>1, <2>2 DEF BoardState
<1> QED BY <1>1, <1>2, <1>3, <1>4, <1>5, <1>6, <1>7 DEF RunBlocks

\* Each step of the drain: a slot found is served, the return is a tick.
LEMMA DrainIsBoards ==
  ASSUME BoardInv, Drain
  PROVE  [Board!BoardNext]_BoardState
<1> USE DEF BoardInv, TypeInv, TypeOK, ControlOK, PassInv, At, env, flags, pass, drain, clock, reading, texts
<1>1. CASE SomethingPending \/ ClearAny \/ SkipSlot \/ FoundSlot
  <2>1. UNCHANGED <<announced, Posted, BlocksDue, TextRead, screen>>
    BY <1>1 DEF SomethingPending, ClearAny, SkipSlot, FoundSlot, Posted, BlocksDue, TextRead
  <2> QED BY <2>1 DEF BoardState
<1>2. CASE ClearSlot
  <2>1. scan \in Posted /\ scan \in Signals
    <3>1. pc = "clearslot" /\ slot[scan]
      BY <1>2 DEF ClearSlot
    <3>2. scan \in 0 .. MaxSlots - 1
      BY <3>1, DwmblocksAssumption
    <3>3. scan \in Signals
      BY <3>1, <3>2
    <3> QED BY <3>1, <3>3, Zenon DEF Posted
  <2>2. Posted' \in {Posted, Posted \ {scan}}
    <3>1. CASE queued[scan] > 0
      BY <1>2, <3>1, <2>1, SignalsHaveSlots DEF ClearSlot, Posted
    <3>2. CASE ~(queued[scan] > 0)
      BY <1>2, <3>2, <2>1, SignalsHaveSlots DEF ClearSlot, Posted
    <3> QED BY <3>1, <3>2
  <2>3. BlocksDue = {} /\ BlocksDue' = {b \in Blocks : BlockSignal[b] = scan}
    BY <1>2 DEF ClearSlot, BlocksDue, Wanted, Blocks
  <2>4. UNCHANGED <<announced, TextRead, screen>>
    BY <1>2 DEF ClearSlot, TextRead
  <2>5. Board!Serve(scan)
    BY <2>1, <2>2, <2>3, <2>4 DEF Board!Serve
  <2> QED BY <2>1, <2>5 DEF Board!BoardNext
<1>3. CASE NothingPending \/ (EndScan /\ ~updated)
  <2>1. /\ ReturnFromDrain /\ pc \notin {"setup", "cmds", "read", "store"}
        /\ UNCHANGED <<announced, Posted, screen>>
    BY <1>3 DEF NothingPending, EndScan, Posted
  <2>2. Board!Tick
    BY <2>1, ReturnMakesDue DEF Board!Tick
  <2> QED BY <2>2 DEF Board!BoardNext
<1>4. CASE EndScan /\ updated
  <2>1. UNCHANGED <<announced, Posted, BlocksDue, TextRead, screen>>
    BY <1>4 DEF EndScan, Posted, BlocksDue, TextRead
  <2> QED BY <2>1 DEF BoardState
<1>5. CASE Publish
  <2>1. /\ ReturnFromDrain /\ pc \notin {"setup", "cmds", "read", "store"}
        /\ screen' = bar /\ UNCHANGED <<announced, Posted>>
    BY <1>5 DEF Publish, Posted
  <2>2. Board!Write
    BY <2>1, ReturnMakesDue DEF Board!Write
  <2> QED BY <2>2 DEF Board!BoardNext
<1> QED BY <1>1, <1>2, <1>3, <1>4, <1>5 DEF Drain

\* Each step of the loop: the end of a tick writes.
LEMMA LoopIsBoards ==
  ASSUME BoardInv, Loop
  PROVE  [Board!BoardNext]_BoardState
<1> USE DEF At, env, flags, pass, drain, clock, reading, texts
<1>1. CASE SetupSignals \/ Sleep \/ SleepInterrupted \/ SleepEnds
  <2>1. UNCHANGED <<announced, Posted, BlocksDue, TextRead, screen>>
    BY <1>1 DEF SetupSignals, Sleep, SleepInterrupted, SleepEnds, Posted, BlocksDue,
                TextRead, Wanted
  <2> QED BY <2>1 DEF BoardState
<1>2. CASE FinishTick
  <2>1. BlocksDue = {} /\ BlocksDue' = {} /\ TextRead = bar /\ TextRead' = bar
    BY <1>2 DEF FinishTick, BlocksDue, TextRead
  <2>2. screen' = bar /\ UNCHANGED <<announced, Posted>>
    BY <1>2 DEF FinishTick, Posted
  <2>3. Board!Write
    BY <2>1, <2>2 DEF Board!Write, Board!ClockMakesDue
  <2> QED BY <2>3 DEF Board!BoardNext
<1> QED BY <1>1, <1>2 DEF Loop

\* Each step of a notifier or of a click command: a change with a signal is posted.
LEMMA EnvironmentIsBoards ==
  ASSUME BoardInv, Environment
  PROVE  [Board!BoardNext]_BoardState
<1> USE DEF env, flags, pass, drain, clock, reading, texts
<1>1. ASSUME NEW b \in Blocks, NEW v \in Values, Announce(b, v)
      PROVE  Board!Post(b, v)
  BY <1>1, AnnouncedIsPosted DEF Announce
<1>2. ASSUME NEW b \in Blocks, NEW v \in Values, ClickCommandSucceeds(b, v),
             BlockSignal[b] \in Signals
      PROVE  Board!Post(b, v)
  BY <1>2, AnnouncedIsPosted DEF ClickCommandSucceeds
<1>3. ASSUME NEW b \in Blocks, NEW v \in Values, ClickCommandSucceeds(b, v),
             BlockSignal[b] \notin Signals
      PROVE  UNCHANGED BoardState
  BY <1>3 DEF ClickCommandSucceeds, BoardState, Posted, BlocksDue, TextRead, Wanted
<1>4. ASSUME NEW b \in Blocks, ClickCommandFails(b)
      PROVE  UNCHANGED BoardState
  BY <1>4 DEF ClickCommandFails, BoardState, Posted, BlocksDue, TextRead, Wanted
<1>5. ASSUME NEW s \in ClickSignals, Click(s)
      PROVE  UNCHANGED BoardState
  BY <1>5 DEF Click, BoardState, Posted, BlocksDue, TextRead, Wanted
<1> QED BY <1>1, <1>2, <1>3, <1>4, <1>5 DEF Environment, Board!BoardNext

\* Each handler: a signal moves from the kernel's queue to its slot; one that comes
\* before the handlers are installed is served by the first pass, which reads all.
LEMMA HandlersAreBoards ==
  ASSUME BoardInv, Handlers
  PROVE  [Board!BoardNext]_BoardState
<1> USE DEF env, flags, pass, drain, clock, reading, texts
<1>1. ASSUME NEW s \in Signals, SigHandler(s)
      PROVE  UNCHANGED BoardState
  <2>1. /\ queued[s] > 0
        /\ queued' = [queued EXCEPT ![s] = @ - 1]
        /\ slot' = [slot EXCEPT ![s] = TRUE]
        /\ UNCHANGED <<announced, pc, task, blk, buf, bar, scan, time, screen>>
    BY <1>1 DEF SigHandler
  <2>2. Posted' = Posted
    BY <2>1, SignalsHaveSlots DEF Posted, BoardInv, TypeInv, TypeOK
  <2> QED BY <2>1, <2>2 DEF BoardState, BlocksDue, TextRead, Wanted
<1>2. ASSUME NEW s \in Signals, IgnoreSignal(s)
      PROVE  Board!Serve(s)
  <2>1. /\ queued[s] > 0 /\ pc = "setup"
        /\ queued' = [queued EXCEPT ![s] = @ - 1]
        /\ UNCHANGED <<announced, slot, pc, task, blk, buf, bar, scan, time, screen>>
    BY <1>2 DEF IgnoreSignal
  <2>2. s \in Posted /\ Posted' \in {Posted, Posted \ {s}}
    BY <2>1 DEF Posted, BoardInv, TypeInv, TypeOK
  <2>3. BlocksDue = Blocks /\ BlocksDue' = Blocks
    BY <2>1 DEF BlocksDue, Wanted, Blocks, BoardInv, TypeInv, ControlOK
  <2>4. UNCHANGED <<announced, TextRead, screen>>
    BY <2>1 DEF TextRead
  <2> QED BY <2>2, <2>3, <2>4 DEF Board!Serve
<1>3. ASSUME NEW b \in Blocks, ButtonHandler(b)
      PROVE  UNCHANGED BoardState
  BY <1>3 DEF ButtonHandler, BoardState, Posted, BlocksDue, TextRead, Wanted
<1>4. CASE ButtonTooEarly \/ TermHandler
  BY <1>4 DEF ButtonTooEarly, TermHandler, BoardState, Posted, BlocksDue, TextRead, Wanted
<1> QED BY <1>1, <1>2, <1>3, <1>4 DEF Handlers, Board!BoardNext

\* A step of dwmblocks is a step of the board or none.
LEMMA StepIsBoards == BoardInv /\ [Next]_vars => [Board!BoardNext]_BoardState
<1> SUFFICES ASSUME BoardInv, [Next]_vars
             PROVE  [Board!BoardNext]_BoardState
  OBVIOUS
<1>1. CASE SecondPasses \/ UNCHANGED vars
  BY <1>1 DEF SecondPasses, vars, env, flags, pass, drain, clock, reading, texts, BoardState, Posted,
              BlocksDue, TextRead, Wanted
<1> QED
  BY <1>1, LoopIsBoards, DrainIsBoards, RunBlocksIsBoards, EnvironmentIsBoards,
     HandlersAreBoards DEF Next, Thread, Exited

\* dwmblocks keeps the board's promise: no signal is served that was not posted, none
\* that was posted is dropped, nothing is written in the middle of a pass (sighandler,
\* drainsignals, getcmds, writestatus).
THEOREM BoardImplemented == Spec => ImplementsBoard
<1>1. Init => Board!BoardInit
  <2>1. ASSUME Init
        PROVE  BlocksDue = Blocks /\ Posted = {} /\ TextRead = Blank
    <3>1. BlocksDue = Blocks
      BY <2>1 DEF Init, BlocksDue, Wanted, Blocks
    <3>2. ASSUME NEW s \in Signals
          PROVE  s \notin Posted
      <4>1. queued[s] = 0 /\ slot[s] = FALSE
        BY <2>1, <3>2, SignalsHaveSlots DEF Init
      <4> QED BY <4>1 DEF Posted
    <3>3. TextRead = Blank
      BY <2>1 DEF Init, TextRead
    <3> QED BY <3>1, <3>2, <3>3 DEF Posted
  <2> QED BY <2>1 DEF Init, Board!BoardInit, Blank
<1> QED
  BY <1>1, StepIsBoards, BoardInvariant, PTL
     DEF Spec, ImplementsBoard, Board!BoardSpec, Board!boardVars, BoardState
=============================================================================
