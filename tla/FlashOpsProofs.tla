--------------------------- MODULE FlashOpsProofs ---------------------------
(* Proofs about FlashOps, for a chip of any number of blocks of any sizes,    *)
(* every area and every file.                                                 *)
EXTENDS FlashOps, TLAPS, WellFoundedInduction

-----------------------------------------------------------------------------
(* The block table. *)
LEMMA UpFromZero ==
  ASSUME NEW S, 0 \in S, \A n \in Nat : n \in S => n + 1 \in S
  PROVE  Nat \subseteq S
<1> DEFINE T == Nat \ S
           R == OpToRel(<, Nat)
<1>1. SUFFICES ASSUME T # {} PROVE FALSE OBVIOUS
<1>2. IsWellFoundedOn(R, Nat) BY NatLessThanWellFounded
<1>3. T \subseteq Nat OBVIOUS
<1>4. PICK x \in T : \A y \in T : ~(<<y, x>> \in R)
  <2> HIDE DEF R, T
  <2> QED BY <1>1, <1>2, <1>3, WFMin
<1>5. x # 0 OBVIOUS
<1>6. x - 1 \in Nat /\ x - 1 < x /\ x = (x - 1) + 1 /\ x \in Nat BY <1>5
<1>7. <<x - 1, x>> \in R BY <1>6 DEF OpToRel
<1>8. x - 1 \in S BY <1>4, <1>6, <1>7
<1>9. (x - 1) + 1 \in S BY <1>6, <1>8
<1>10. x \notin S OBVIOUS
<1> QED BY <1>6, <1>9, <1>10

LEMMA SizesFacts == Len(Sizes) \in Nat \ {0} /\ Blocks = 1..Len(Sizes) /\ Sizes \in [Blocks -> Nat \ {0}]
<1>1. Sizes \in Seq(Nat \ {0}) /\ Sizes # <<>> BY SizesAssumption
<1>2. Len(Sizes) # 0 BY <1>1
<1> QED BY <1>1, <1>2 DEF Blocks

(* Base is defined by recursion: there is such a function. *)
LEMMA BaseExists ==
  \E f : f = [b \in 1..Len(Sizes) + 1 |-> IF b = 1 THEN 0 ELSE f[b - 1] + Sizes[b - 1]]
<1> DEFINE L == Len(Sizes) + 1
           Fits(f, n) == /\ f \in [1..n -> Nat]
                         /\ \A b \in 1..n : f[b] = IF b = 1 THEN 0 ELSE f[b - 1] + Sizes[b - 1]
           S == {n \in Nat : n > L \/ \E f : Fits(f, n)}
<1>1. L \in Nat /\ Len(Sizes) \in Nat /\ \A b \in 1..Len(Sizes) : Sizes[b] \in Nat BY SizesFacts
<1>2. 0 \in S
  <2>1. Fits([b \in 1..0 |-> 0], 0) OBVIOUS
  <2> QED BY <2>1
<1>3. ASSUME NEW n \in Nat, n \in S PROVE n + 1 \in S
  <2>1. CASE n + 1 > L BY <2>1
  <2>2. CASE n + 1 <= L
    <3>1. PICK f : Fits(f, n) BY <1>1, <1>3, <2>2
    <3> DEFINE x == IF n = 0 THEN 0 ELSE f[n] + Sizes[n]
               g == [b \in 1..(n + 1) |-> IF b = n + 1 THEN x ELSE f[b]]
    <3>2. x \in Nat
      <4>1. n # 0 => n \in 1..n /\ n \in 1..Len(Sizes) BY <1>1, <2>2
      <4> QED BY <1>1, <3>1, <4>1
    <3>3. \A b \in 1..(n + 1) : b # n + 1 => b \in 1..n OBVIOUS
    <3>4. g \in [1..(n + 1) -> Nat] BY <3>1, <3>2, <3>3
    <3>5. ASSUME NEW b \in 1..(n + 1)
          PROVE  g[b] = IF b = 1 THEN 0 ELSE g[b - 1] + Sizes[b - 1]
      <4>1. CASE b = n + 1
        <5>1. b # 1 => b - 1 \in 1..(n + 1) /\ b - 1 = n BY <4>1
        <5>2. b = 1 <=> n = 0 BY <4>1
        <5> QED BY <4>1, <5>1, <5>2
      <4>2. CASE b # n + 1
        <5>1. b \in 1..n /\ (b # 1 => b - 1 \in 1..(n + 1) /\ b - 1 # n + 1) BY <4>2
        <5> QED BY <3>1, <4>2, <5>1
      <4> QED BY <4>1, <4>2
    <3>6. Fits(g, n + 1) BY <3>4, <3>5
    <3> HIDE DEF g, Fits
    <3> QED BY <3>6
  <2> QED BY <1>1, <2>1, <2>2
<1>4. Nat \subseteq S
  <2>1. 0 \in S /\ \A n \in Nat : n \in S => n + 1 \in S BY <1>2, <1>3
  <2> HIDE DEF S
  <2> QED BY <2>1, UpFromZero
<1>5. PICK f : Fits(f, L)
  <2>1. L \in S
    <3> HIDE DEF S
    <3> QED BY <1>1, <1>4
  <2>2. ~(L > L) BY <1>1
  <2> HIDE DEF L, Fits
  <2> QED BY <2>1, <2>2
<1>6. f = [b \in 1..Len(Sizes) + 1 |-> IF b = 1 THEN 0 ELSE f[b - 1] + Sizes[b - 1]] BY <1>5
<1> QED BY <1>6

LEMMA BaseUnfolds ==
  /\ DOMAIN Base = 1..Len(Sizes) + 1
  /\ \A b \in 1..Len(Sizes) + 1 : Base[b] = IF b = 1 THEN 0 ELSE Base[b - 1] + Sizes[b - 1]
<1> DEFINE F(f) == [b \in 1..Len(Sizes) + 1 |-> IF b = 1 THEN 0 ELSE f[b - 1] + Sizes[b - 1]]
<1>1. Base = CHOOSE f : f = F(f) BY DEF Base
<1>2. \E f : f = F(f) BY BaseExists
<1>3. Base = F(Base)
  <2> HIDE DEF F
  <2> QED BY <1>1, <1>2
<1> QED BY <1>3

LEMMA BaseTypes ==
  /\ \A b \in 1..Len(Sizes) + 1 : Base[b] \in Nat
  /\ Base[1] = 0
  /\ \A b \in Blocks : b + 1 \in 1..Len(Sizes) + 1 /\ Base[b + 1] = Base[b] + Sizes[b]
                       /\ Base[b] < Base[b + 1]
<1> DEFINE L == Len(Sizes) + 1
           S == {n \in Nat : n + 1 > L \/ Base[n + 1] \in Nat}
<1>1. /\ L \in Nat /\ Len(Sizes) \in Nat \ {0} /\ Blocks = 1..Len(Sizes)
      /\ \A b \in Blocks : Sizes[b] \in Nat \ {0}
  BY SizesFacts
<1>2. Base[1] = 0 BY <1>1, BaseUnfolds
<1>3. \A b \in Blocks : b + 1 \in 1..L /\ Base[b + 1] = Base[b] + Sizes[b]
  <2> SUFFICES ASSUME NEW b \in Blocks PROVE b + 1 \in 1..L /\ Base[b + 1] = Base[b] + Sizes[b]
    OBVIOUS
  <2>1. b + 1 \in 1..L /\ b + 1 # 1 /\ (b + 1) - 1 = b BY <1>1
  <2> QED BY <2>1, BaseUnfolds
<1>4. 0 \in S BY <1>2
<1>5. ASSUME NEW n \in Nat, n \in S PROVE n + 1 \in S
  <2>1. CASE (n + 1) + 1 > L BY <2>1
  <2>2. CASE ~((n + 1) + 1 > L)
    <3>1. n + 1 \in Blocks /\ Base[n + 1] \in Nat BY <1>1, <1>5, <2>2
    <3>2. Base[(n + 1) + 1] \in Nat BY <1>1, <1>3, <3>1
    <3> QED BY <3>2
  <2> QED BY <2>1, <2>2
<1>6. Nat \subseteq S
  <2>1. 0 \in S /\ \A n \in Nat : n \in S => n + 1 \in S BY <1>4, <1>5
  <2> HIDE DEF S
  <2> QED BY <2>1, UpFromZero
<1>7. ASSUME NEW b \in 1..L PROVE Base[b] \in Nat
  <2>1. b - 1 \in Nat /\ (b - 1) + 1 = b BY <1>1
  <2>2. b - 1 \in S
    <3> HIDE DEF S
    <3> QED BY <1>6, <2>1
  <2> QED BY <1>1, <2>1, <2>2
<1>8. \A b \in Blocks : Base[b] < Base[b + 1]
  <2> SUFFICES ASSUME NEW b \in Blocks PROVE Base[b] < Base[b + 1] OBVIOUS
  <2>1. b \in 1..L BY <1>1
  <2>2. Base[b] \in Nat /\ Sizes[b] \in Nat \ {0} /\ Base[b + 1] = Base[b] + Sizes[b]
    BY <1>1, <1>3, <1>7, <2>1
  <2> QED BY <2>2
<1> QED BY <1>2, <1>3, <1>7, <1>8

LEMMA BaseRises ==
  ASSUME NEW b \in 1..Len(Sizes) + 1, NEW d \in 1..Len(Sizes) + 1, b < d
  PROVE  Base[b] < Base[d]
<1> DEFINE L == Len(Sizes) + 1
           S == {n \in Nat : b + n + 1 > L \/ Base[b] < Base[b + n + 1]}
<1>1. /\ L \in Nat /\ Len(Sizes) \in Nat \ {0} /\ Blocks = 1..Len(Sizes)
  BY SizesFacts
<1>2. 0 \in S
  <2>1. CASE b + 1 > L BY <2>1
  <2>2. CASE ~(b + 1 > L)
    <3>1. b \in Blocks BY <1>1, <2>2
    <3> QED BY <3>1, BaseTypes
  <2> QED BY <2>1, <2>2
<1>3. ASSUME NEW n \in Nat, n \in S PROVE n + 1 \in S
  <2>1. CASE b + (n + 1) + 1 > L BY <2>1
  <2>2. CASE ~(b + (n + 1) + 1 > L)
    <3>1. b + n + 1 \in Blocks /\ Base[b] < Base[b + n + 1] BY <1>1, <1>3, <2>2
    <3>2. Base[b + n + 1] < Base[(b + n + 1) + 1] BY <3>1, BaseTypes
    <3>3. (b + n + 1) + 1 = b + (n + 1) + 1 OBVIOUS
    <3>4. b + n + 1 \in 1..L /\ b + (n + 1) + 1 \in 1..L BY <1>1, <2>2, <3>1
    <3>5. Base[b] \in Nat /\ Base[b + n + 1] \in Nat /\ Base[b + (n + 1) + 1] \in Nat
      BY <3>4, BaseTypes
    <3>6. Base[b] < Base[b + (n + 1) + 1] BY <3>1, <3>2, <3>3, <3>5
    <3> QED BY <3>6
  <2> QED BY <2>1, <2>2
<1>4. Nat \subseteq S
  <2>1. 0 \in S /\ \A n \in Nat : n \in S => n + 1 \in S BY <1>2, <1>3
  <2> HIDE DEF S
  <2> QED BY <2>1, UpFromZero
<1>5. (d - b) - 1 \in Nat /\ b + ((d - b) - 1) + 1 = d BY <1>1
<1>6. (d - b) - 1 \in S
  <2> HIDE DEF S
  <2> QED BY <1>4, <1>5
<1> QED BY <1>1, <1>5, <1>6

(* Every word lies in one block. *)
LEMMA WordsCovered ==
  ASSUME NEW w \in Words
  PROVE  w \in Nat /\ \E b \in Blocks : Base[b] <= w /\ w < Base[b + 1]
<1> DEFINE L == Len(Sizes) + 1
           S == {n \in Nat : \/ n + 1 > L \/ Base[n + 1] <= w
                             \/ \E b \in Blocks : Base[b] <= w /\ w < Base[b + 1]}
<1>1. /\ L \in Nat /\ Len(Sizes) \in Nat \ {0} /\ Blocks = 1..Len(Sizes) BY SizesFacts
<1>2. w \in Nat /\ w < Base[L]
  <2>1. L \in 1..L BY <1>1
  <2>2. Base[L] \in Nat BY <2>1, BaseTypes
  <2> QED BY <2>2 DEF Words
<1>3. 0 \in S BY <1>2, BaseTypes
<1>4. ASSUME NEW n \in Nat, n \in S PROVE n + 1 \in S
  <2>1. CASE (n + 1) + 1 > L BY <2>1
  <2>2. CASE ~((n + 1) + 1 > L)
    <3>1. n + 1 \in Blocks /\ n + 1 \in 1..L /\ (n + 1) + 1 \in 1..L BY <1>1, <2>2
    <3>2. Base[n + 1] \in Nat /\ Base[(n + 1) + 1] \in Nat BY <3>1, BaseTypes
    <3>3. CASE \E b \in Blocks : Base[b] <= w /\ w < Base[b + 1] BY <3>3
    <3>4. CASE Base[n + 1] <= w
      <4>1. CASE Base[(n + 1) + 1] <= w BY <4>1
      <4>2. CASE ~(Base[(n + 1) + 1] <= w)
        <5>1. w < Base[(n + 1) + 1] BY <1>2, <3>2, <4>2
        <5> QED BY <3>1, <3>4, <5>1
      <4> QED BY <4>1, <4>2
    <3> QED BY <1>1, <1>4, <2>2, <3>3, <3>4
  <2> QED BY <2>1, <2>2
<1>5. Nat \subseteq S
  <2>1. 0 \in S /\ \A n \in Nat : n \in S => n + 1 \in S BY <1>3, <1>4
  <2> HIDE DEF S
  <2> QED BY <2>1, UpFromZero
<1>6. Len(Sizes) \in S
  <2> HIDE DEF S
  <2> QED BY <1>1, <1>5
<1>7. ~(Base[L] <= w)
  <2>1. L \in 1..L BY <1>1
  <2>2. Base[L] \in Nat BY <2>1, BaseTypes
  <2> QED BY <1>2, <2>2
<1> QED BY <1>1, <1>2, <1>6, <1>7

LEMMA OneBlock ==
  ASSUME NEW w, NEW b \in Blocks, NEW d \in Blocks, w \in Nat,
         Base[b] <= w, w < Base[b + 1], Base[d] <= w, w < Base[d + 1]
  PROVE  b = d
<1>1. /\ Len(Sizes) \in Nat \ {0} /\ Blocks = 1..Len(Sizes) BY SizesFacts
<1>2. /\ b \in 1..Len(Sizes) + 1 /\ d \in 1..Len(Sizes) + 1
      /\ b + 1 \in 1..Len(Sizes) + 1 /\ d + 1 \in 1..Len(Sizes) + 1
  BY <1>1
<1>3. /\ Base[b] \in Nat /\ Base[d] \in Nat /\ Base[b + 1] \in Nat /\ Base[d + 1] \in Nat
  BY <1>2, BaseTypes
<1>4. ASSUME b < d PROVE FALSE
  <2>1. b + 1 = d \/ b + 1 < d BY <1>1, <1>4
  <2>2. Base[b + 1] <= Base[d] BY <1>2, <1>3, <2>1, BaseRises
  <2> QED BY <1>3, <2>2
<1>5. ASSUME d < b PROVE FALSE
  <2>1. d + 1 = b \/ d + 1 < b BY <1>1, <1>5
  <2>2. Base[d + 1] <= Base[b] BY <1>2, <1>3, <2>1, BaseRises
  <2> QED BY <1>3, <2>2
<1> QED BY <1>1, <1>4, <1>5

LEMMA Total ==
  /\ Base[Len(Sizes) + 1] \in Nat /\ Words \subseteq Nat /\ Cells \subseteq Nat
  /\ \A b \in Blocks : Base[b] \in Nat /\ Base[b + 1] \in Nat /\ Base[b + 1] <= Base[Len(Sizes) + 1]
<1>1. /\ Len(Sizes) \in Nat \ {0} /\ Blocks = 1..Len(Sizes) BY SizesFacts
<1>2. Base[Len(Sizes) + 1] \in Nat
  <2>1. Len(Sizes) + 1 \in 1..Len(Sizes) + 1 BY <1>1
  <2> QED BY <2>1, BaseTypes
<1>3. ASSUME NEW b \in Blocks
      PROVE  Base[b] \in Nat /\ Base[b + 1] \in Nat /\ Base[b + 1] <= Base[Len(Sizes) + 1]
  <2>1. /\ b \in 1..Len(Sizes) + 1 /\ b + 1 \in 1..Len(Sizes) + 1
        /\ Len(Sizes) + 1 \in 1..Len(Sizes) + 1
    BY <1>1
  <2>2. Base[b] \in Nat /\ Base[b + 1] \in Nat BY <2>1, BaseTypes
  <2>3. CASE b + 1 = Len(Sizes) + 1 BY <1>2, <2>2, <2>3
  <2>4. CASE b + 1 # Len(Sizes) + 1
    <3>1. b + 1 < Len(Sizes) + 1 BY <1>1, <2>1, <2>4
    <3>2. Base[b + 1] < Base[Len(Sizes) + 1] BY <2>1, <3>1, BaseRises
    <3> QED BY <1>2, <2>2, <3>2
  <2> QED BY <2>3, <2>4
<1>4. Words \subseteq Nat /\ Cells \subseteq Nat BY <1>2 DEF Words, Cells
<1> QED BY <1>2, <1>3, <1>4

LEMMA WordOf ==
  ASSUME NEW c \in Cells
  PROVE  c \div 2 \in Words /\ (c = 2 * (c \div 2) \/ c = 2 * (c \div 2) + 1)
<1>1. Base[Len(Sizes) + 1] \in Nat /\ c \in Nat /\ c < 2 * Base[Len(Sizes) + 1]
  BY Total DEF Cells
<1>2. c \div 2 \in Nat /\ (c = 2 * (c \div 2) \/ c = 2 * (c \div 2) + 1) BY <1>1
<1>3. c \div 2 < Base[Len(Sizes) + 1] BY <1>1, <1>2
<1> QED BY <1>1, <1>2, <1>3 DEF Words

LEMMA CellsOf ==
  ASSUME NEW w \in Words
  PROVE  /\ w \in Nat /\ 2 * w \in Cells /\ 2 * w + 1 \in Cells
         /\ (2 * w) \div 2 = w /\ (2 * w + 1) \div 2 = w
<1>1. Base[Len(Sizes) + 1] \in Nat /\ w \in Nat /\ w < Base[Len(Sizes) + 1]
  BY Total DEF Words
<1>2. 2 * w \in Cells /\ 2 * w + 1 \in Cells BY <1>1 DEF Cells
<1>3. (2 * w) \div 2 = w /\ (2 * w + 1) \div 2 = w BY <1>1
<1> QED BY <1>1, <1>2, <1>3

(* The block of a cell, and that of its word. *)
LEMMA BlockIs ==
  ASSUME NEW c \in Cells, NEW b \in Blocks
  PROVE  /\ BlockOf(c) \in Blocks
         /\ 2 * Base[BlockOf(c)] <= c /\ c < 2 * Base[BlockOf(c) + 1]
         /\ BlockOf(c) = b <=> Base[b] <= c \div 2 /\ c \div 2 < Base[b + 1]
<1> DEFINE w == c \div 2
           In(d) == 2 * Base[d] <= c /\ c < 2 * Base[d + 1]
<1>1. w \in Words /\ w \in Nat /\ (c = 2 * w \/ c = 2 * w + 1)
  BY WordOf, Total
<1> HIDE DEF w
<1>2. ASSUME NEW d \in Blocks PROVE In(d) <=> Base[d] <= w /\ w < Base[d + 1]
  <2>1. Base[d] \in Nat /\ Base[d + 1] \in Nat BY Total
  <2> QED BY <1>1, <2>1
<1>3. PICK d \in Blocks : Base[d] <= w /\ w < Base[d + 1] BY <1>1, WordsCovered
<1>4. In(d) BY <1>2, <1>3
<1>5. BlockOf(c) = CHOOSE e \in Blocks : In(e) BY DEF BlockOf
<1>6. BlockOf(c) \in Blocks /\ In(BlockOf(c))
  <2> HIDE DEF In
  <2> QED BY <1>4, <1>5
<1>7. Base[BlockOf(c)] <= w /\ w < Base[BlockOf(c) + 1]
  <2> HIDE DEF In
  <2> QED BY <1>2, <1>6
<1>8. Base[b] <= w /\ w < Base[b + 1] => BlockOf(c) = b BY <1>1, <1>6, <1>7, OneBlock
<1> QED BY <1>6, <1>7, <1>8 DEF w

LEMMA SameBlock ==
  ASSUME NEW w \in Words PROVE BlockOf(2 * w + 1) = BlockOf(2 * w)
<1>1. /\ 2 * w \in Cells /\ 2 * w + 1 \in Cells
      /\ (2 * w) \div 2 = w /\ (2 * w + 1) \div 2 = w
  BY CellsOf
<1>2. BlockOf(2 * w) \in Blocks
  <2>1. 1 \in Blocks BY SizesFacts
  <2> QED BY <1>1, <2>1, BlockIs
<1>3. Base[BlockOf(2 * w)] <= w /\ w < Base[BlockOf(2 * w) + 1] BY <1>1, <1>2, BlockIs
<1> QED BY <1>1, <1>2, <1>3, BlockIs

LEMMA FirstOf ==
  ASSUME NEW b \in Blocks
  PROVE  Base[b] \in Words /\ 2 * Base[b] \in Cells /\ BlockOf(2 * Base[b]) = b
<1>1. /\ Base[b] \in Nat /\ Base[b + 1] \in Nat /\ Base[b + 1] <= Base[Len(Sizes) + 1]
      /\ Base[Len(Sizes) + 1] \in Nat
  BY Total
<1>2. Base[b] < Base[b + 1] BY BaseTypes
<1>3. Base[b] \in Words BY <1>1, <1>2 DEF Words
<1>4. 2 * Base[b] \in Cells /\ (2 * Base[b]) \div 2 = Base[b] BY <1>3, CellsOf
<1>5. BlockOf(2 * Base[b]) = b
  <2>1. Base[b] <= (2 * Base[b]) \div 2 /\ (2 * Base[b]) \div 2 < Base[b + 1] BY <1>1, <1>2, <1>4
  <2> QED BY <1>4, <2>1, BlockIs
<1> QED BY <1>3, <1>4, <1>5

-----------------------------------------------------------------------------
(* What is left of the bus cycles of a routine, from its k-th.                *)
Rest(s, k) == SubSeq(s, k, Len(s))

LEMMA Rests ==
  ASSUME NEW S, NEW s \in Seq(S), NEW k \in 1..Len(s)
  PROVE  /\ Rest(s, k) # <<>> /\ Head(Rest(s, k)) = s[k] /\ Tail(Rest(s, k)) = Rest(s, k + 1)
<1>1. Len(s) \in Nat OBVIOUS
<1>2. /\ Rest(s, k) \in Seq(S) /\ Len(Rest(s, k)) = Len(s) - k + 1
      /\ \A n \in 1..(Len(s) - k + 1) : Rest(s, k)[n] = s[k + n - 1]
  BY <1>1 DEF Rest
<1>3. /\ Rest(s, k + 1) \in Seq(S) /\ Len(Rest(s, k + 1)) = Len(s) - k
      /\ \A n \in 1..(Len(s) - k) : Rest(s, k + 1)[n] = s[k + n]
  BY <1>1 DEF Rest
<1>4. Len(Rest(s, k)) # 0 BY <1>1, <1>2
<1>5. Rest(s, k) # <<>> BY <1>4
<1>6. Head(Rest(s, k)) = s[k] BY <1>1, <1>2, <1>4
<1>7. /\ Tail(Rest(s, k)) \in Seq(S) /\ Len(Tail(Rest(s, k))) = Len(s) - k
      /\ \A n \in 1..(Len(s) - k) : Tail(Rest(s, k))[n] = s[k + n]
  <2>1. /\ Tail(Rest(s, k)) \in Seq(S) /\ Len(Tail(Rest(s, k))) = Len(Rest(s, k)) - 1
        /\ \A n \in 1..(Len(Rest(s, k)) - 1) : Tail(Rest(s, k))[n] = Rest(s, k)[n + 1]
    BY <1>2, <1>5
  <2>2. ASSUME NEW n \in 1..(Len(s) - k) PROVE Tail(Rest(s, k))[n] = s[k + n]
    <3>1. n + 1 \in 1..(Len(s) - k + 1) /\ k + (n + 1) - 1 = k + n BY <1>1
    <3>2. n \in 1..(Len(Rest(s, k)) - 1) BY <1>1, <1>2
    <3> QED BY <1>2, <2>1, <3>1, <3>2
  <2> QED BY <1>1, <1>2, <2>1, <2>2
<1>8. Tail(Rest(s, k)) = Rest(s, k + 1)
  <2> DEFINE p == Tail(Rest(s, k))
             q == Rest(s, k + 1)
  <2>1. p \in Seq(S) /\ q \in Seq(S) /\ Len(p) = Len(q) /\ \A n \in 1..Len(p) : p[n] = q[n]
    BY <1>3, <1>7
  <2> HIDE DEF p, q
  <2>2. p = q BY <2>1
  <2> QED BY <2>2 DEF p, q
<1> QED BY <1>5, <1>6, <1>8
LEMMA Whole ==
  ASSUME NEW S, NEW s \in Seq(S)
  PROVE  Rest(s, 1) = s /\ Rest(s, Len(s) + 1) = <<>>
<1> DEFINE p == Rest(s, 1)
<1>1. Len(s) \in Nat OBVIOUS
<1>2. p \in Seq(S) /\ Len(p) = Len(s) /\ \A n \in 1..Len(s) : p[n] = s[n]
  BY <1>1 DEF Rest
<1>3. p = s
  <2> HIDE DEF p
  <2> QED BY <1>2
<1>4. Rest(s, Len(s) + 1) = <<>>
  <2>1. Len(s) + 1 > Len(s) BY <1>1
  <2>2. Rest(s, Len(s) + 1) \in Seq(S) /\ Len(Rest(s, Len(s) + 1)) = 0 BY <1>1, <2>1 DEF Rest
  <2> QED BY <2>2
<1> QED BY <1>3, <1>4

(* What the chip will hold once the operation that runs is over.              *)
After == IF busy = Ready THEN cell ELSE Outcome
EraseOf(b) == Erase(2 * Base[b])
HalfOf(w, word, h) == Program(CellOf(w, h), <<word[h]>>)
(* An operation's effect, and what it is to find before.                      *)
Careful == job.op = "flash" /\ Sound
Effect(x) ==
  IF x.op = "erase" THEN \A c \in Cells : BlockOf(c) = BlockOf(x.at) => After[c] = Erased
  ELSE Careful => \A n \in DOMAIN x.halves : After[x.at + n - 1] = x.halves[n]
Before(x) ==
  x.op = "program" /\ Careful => \A n \in DOMAIN x.halves : After[x.at + n - 1] = Erased

(* How far the job has come. *)
ErasedUpTo(n) == \A b \in Blocks : b < n /\ ToErase(b) => b \notin locked /\ Effect(EraseOf(b))
Open == \A w \in Words : InArea(w) => BlockOf(2 * w) \notin locked
Clean(n) == \A w \in Words : InArea(w) /\ n <= w => After[2 * w] = Erased /\ After[2 * w + 1] = Erased
Written(n) ==
  \A w \in Words : InArea(w) /\ w < n =>
    <<After[CellOf(w, 1)], After[CellOf(w, 2)]>> \in AreaWord(w)
Halves(w, word, n) ==
  Careful => \A h \in {1, 2} : After[CellOf(w, h)] = IF h <= n THEN word[h] ELSE Erased

-----------------------------------------------------------------------------
(* The routines for parallel chips: the mode of the decoder before each of    *)
(* their cycles.                                                              *)
Bypassed == job.op = "flash" /\ job.cl_bypass
Parallel == job.family # "SPI"
(* An AMD chip in bypass mode is left to program, and waited for before the   *)
(* next cycle.                                                                *)
Waits == job.family = "AMD" /\ Bypassed
Unpolled == Waits /\ busy.op = "program"
EraseCourse ==
  IF job.family = "Intel"
  THEN <<"read", "read", "confirmUnlock", "status", "status", "status", "status", "confirmErase",
         "status", "status", "status", "status">>
  ELSE <<"read", "unlock1", "unlock2", "erase", "erase1", "erase2", "read", "read">>
EraseStarted(k) == k > IF job.family = "Intel" THEN 8 ELSE 6
ErasePolled(k) == k > IF job.family = "Intel" THEN 10 ELSE 7
Erasing(b, k) ==
  /\ Parallel /\ k \in DOMAIN EraseCourse /\ todo = Rest(sflash_erase_block(b), k)
  /\ mode = EraseCourse[k]
  /\ busy = Ready \/ (EraseStarted(k) /\ ~ErasePolled(k) /\ busy = EraseOf(b))
  /\ k >= 4 => b \notin locked
  /\ EraseStarted(k) => Effect(EraseOf(b))

HalfCourse ==
  CASE job.family = "Intel" ->
         <<{"read", "status", "confirmErase"}, {"read", "status"}, {"program"}, {"status"}>>
    [] job.family = "AMD" /\ Bypassed -> <<{"bypass"}, {"bypassProgram"}>>
    [] job.family = "SST" /\ Bypassed ->
         <<{"bypass"}, {"bypass"}, {"bypass"}, {"bypassProgram"}, {"bypass"}>>
    [] OTHER -> <<{"read"}, {"unlock1"}, {"unlock2"}, {"program"}, {"read"}>>
HalfStarted(j) == j > IF job.family = "Intel" THEN 3 ELSE 4
Writing(w, word, h, j) ==
  /\ Parallel /\ h \in {1, 2} /\ j \in DOMAIN HalfCourse
  /\ todo = Rest(WriteHalf(w, word, h), j) \o (IF h = 1 THEN WriteHalf(w, word, 2) ELSE <<>>)
  /\ mode \in HalfCourse[j]
  /\ \/ busy = Ready
     \/ Unpolled /\ j = 1
     \/ HalfStarted(j) /\ busy = HalfOf(w, word, h)
  /\ Halves(w, word, IF HalfStarted(j) THEN h ELSE h - 1)

Entering(k) ==
  /\ k \in 1..4 /\ todo = Rest(unlock_bypass, k) /\ busy = Ready /\ ~spi.sending
  /\ mode = IF job.family \in {"AMD", "SST"} THEN <<"read", "read", "unlock1", "unlock2">>[k]
            ELSE "read"

Settled ==
  /\ mode \in CASE job.family = "Intel" -> {"read", "status", "confirmErase"}
                [] job.family \in {"AMD", "SST"} /\ Bypassed -> {"bypass"}
                [] OTHER -> {"read"}
  /\ ~spi.sending /\ (busy = Ready \/ Unpolled)

Resetting(k) ==
  /\ Parallel /\ ~spi.sending
  /\ k \in DOMAIN sflash_reset /\ todo = Rest(sflash_reset, k)
  /\ IF k = 1 THEN Settled ELSE busy = Ready /\ mode \in {"read", "status"}

-----------------------------------------------------------------------------
(* The routines for serial chips: the stages a command x goes through.        *)
Broadcom == job.proc = "bcm"
Asking(code) == spi.sending /\ Sent = code
Told == 0 \in spi.data[1] \/ busy = Ready
Calm(x) == ~spi.sending /\ busy = Ready /\ Before(x)
Set(code) == IF Broadcom THEN spi.ctl.bytes = {} ELSE spi.opcode.cmd = code
Armed(x) == Calm(x) /\ spi.latch /\ (Broadcom => spi.ctl.bytes = {})
Filled(x) == x.op = "program" => spi.data = x.halves
Begun(x) == ~spi.sending /\ busy \in {Ready, x} /\ Effect(x)
Stage(g, x) ==
  CASE g = "calm" -> Calm(x)
    [] g = "enabling" -> Calm(x) /\ Set("write_enable")
    [] g = "enable" ->
         \/ Asking("write_enable") /\ busy = Ready /\ Before(x) /\ (Broadcom => spi.ctl.bytes = {})
         \/ Armed(x)
    [] g = "armed" -> Armed(x)
    [] g = "filled" -> Armed(x) /\ Filled(x)
    [] g = "aimed" -> /\ Armed(x) /\ Filled(x)
                      /\ spi.opcode.at = x.at /\ (~Broadcom => spi.opcode.cmd = x.op)
    [] g = "command" ->
         \/ /\ Asking(x.op) /\ busy = Ready /\ Before(x) /\ spi.latch
            /\ Filled(x) /\ spi.opcode.at = x.at
         \/ Begun(x)
    [] g = "begun" -> Begun(x)
    [] g = "asking" -> Begun(x) /\ Set("read_status")
    [] g = "ask" -> \/ Asking("read_status") /\ busy \in {Ready, x} /\ Effect(x)
                    \/ Begun(x) /\ Told
    [] g = "told" -> Begun(x) /\ Told
Course(x) ==
  CASE ~Broadcom /\ x.op = "erase" ->
         <<"calm", "calm", "enabling", "enable", "armed", "armed", "aimed", "command",
           "begun", "begun", "asking", "ask", "told">>
    [] ~Broadcom /\ x.op = "program" ->
         <<"calm", "calm", "enabling", "enable", "armed", "armed", "filled", "aimed", "command",
           "begun", "begun", "asking", "ask", "told">>
    [] Broadcom /\ x.op = "erase" ->
         <<"calm", "calm", "enabling", "enabling", "enabling", "enable", "armed", "armed", "aimed",
           "command", "command", "begun", "asking", "asking", "asking", "ask", "told">>
    [] Broadcom /\ x.op = "program" ->
         <<"calm", "calm", "enabling", "enabling", "enabling", "enable", "armed", "armed", "filled",
           "aimed", "command", "begun", "asking", "asking", "asking", "ask", "told">>
Sending(x, s, k) ==
  /\ ~Parallel /\ mode = "read" /\ todo = Rest(s, k)
  /\ k \in DOMAIN Course(x) /\ Stage(Course(x)[k], x)

-----------------------------------------------------------------------------
(* The phases of a job. *)
AtErase ==
  /\ pc = "erase" /\ todo = <<>> /\ at \in 1..Len(Sizes) + 1
  /\ mode = "read" /\ busy = Ready /\ ~spi.sending
  /\ ErasedUpTo(at)
InErase ==
  /\ pc = "erase" /\ at \in Nat /\ at - 1 \in Blocks /\ ToErase(at - 1)
  /\ ErasedUpTo(at - 1)
  /\ \E k \in 1..17 : \/ Erasing(at - 1, k)
                      \/ Sending(EraseOf(at - 1), sflash_erase_block(at - 1), k)
AtBypass ==
  /\ pc = "bypass" /\ todo = <<>> /\ mode = "read" /\ busy = Ready /\ ~spi.sending
  /\ Careful => Open /\ Clean(job.start)
InBypass ==
  /\ pc = "load" /\ at = job.start /\ Bypassed /\ \E k \in 1..4 : Entering(k)
  /\ Careful => Open /\ Clean(job.start)
AtLoad ==
  /\ pc = "load" /\ todo = <<>> /\ at \in job.start..job.start + job.length /\ Settled
  /\ Careful => Open /\ Clean(at) /\ Written(at)
InLoad ==
  /\ pc = "load" /\ at \in job.start + 1..job.start + job.length
  /\ Careful => Open /\ Clean(at) /\ Written(at - 1)
  /\ \E word \in AreaWord(at - 1) :
       \/ \E h \in {1, 2}, j \in 1..5 : Writing(at - 1, word, h, j)
       \/ \E k \in 1..17 : Sending(Program(2 * (at - 1), word), sflash_write_word(at - 1, word), k)
Through == Careful => Written(job.start + job.length)
AtReset == pc = "reset" /\ todo = <<>> /\ Settled /\ Through
InReset == pc = "done" /\ (\E k \in {1, 2} : Resetting(k)) /\ Through
AtEnd ==
  /\ pc = "done" /\ todo = <<>> /\ busy = Ready /\ ~spi.sending /\ Through
  /\ mode = "read" \/ (mode = "bypass" /\ job.cl_bypass)
FlashPhase ==
  AtErase \/ InErase \/ (job.op = "flash" /\ (AtBypass \/ InBypass \/ AtLoad \/ InLoad))

(* An operation that runs works on the area, and programs what is erased.     *)
BusyInv ==
  busy # Ready =>
    /\ job.op \in {"flash", "erase"}
    /\ \/ \E b \in Blocks : ToErase(b) /\ busy = EraseOf(b)
       \/ /\ \E w \in Words : /\ InArea(w) 
                              /\ \/ \E h \in {1, 2}, v \in Half : busy = Program(CellOf(w, h), <<v>>)
                                 \/ \E word \in Half \X Half : busy = Program(2 * w, word)
          /\ job.op = "flash"
          /\ Careful => \A c \in Programmed : cell[c] = Erased

(* What is saved, or filled into memory. *)
Righted == job.swap_endian = (job.board = "turned")
SavedInv ==
  /\ job.op = "backup" =>
       /\ todo = <<>> /\ mode = "read" /\ busy = Ready /\ ~spi.sending
       /\ pc \in {"save", "done"} /\ at \in job.start..job.start + job.length
       /\ pc = "done" => at = job.start + job.length
       /\ cell \in [Cells -> Half]
       /\ Righted => saved = [n \in 1..(at - job.start) |-> Stored(job.start + n - 1)]
  /\ job.op = "load" =>
       /\ pc \in {"ram", "reset", "done"} /\ at \in 1..Len(job.image) + 1
       /\ pc # "ram" => at = Len(job.image) + 1
       /\ saved \in Seq(Half \X Half) /\ Len(saved) = at - 1
       /\ \A n \in 1..(at - 1) : saved[n] \in FileWord(n)
       /\ pc = "ram" => todo = <<>> /\ mode = "read" /\ busy = Ready /\ ~spi.sending

SpiShape(s) == DOMAIN s = {"opcode", "ctl", "data", "sending", "latch"}
ChipInv ==
  /\ job \in Jobs /\ cell \in [Cells -> Half] /\ SpiShape(spi)
  /\ job.family # "Intel" => locked = {}
  /\ job.family # "SPI" => ~spi.sending

PhaseInv == 
  \/ job.op \in {"flash", "erase"} /\ FlashPhase
  \/ job.op = "load" /\ pc = "ram"
  \/ AtReset \/ InReset \/ AtEnd
  \/ job.op = "backup"
FlashInv == job \in Jobs /\ SavedInv /\ (~Checked => ChipInv /\ BusyInv /\ PhaseInv)

-----------------------------------------------------------------------------
(* What a step does to what the chip will hold. *)
LEMMA AfterTyped ==
  ASSUME cell \in [Cells -> Half]
  PROVE  After \in [Cells -> Half] /\ Outcome \in [Cells -> Half]
<1>1. \A h \in Half : \A g : h \intersect g \in Half BY DEF Half
<1>2. Erased \in Half BY DEF Half, Erased
<1>3. \A c \in Cells : cell[c] \in Half /\ cell[c] \intersect busy.halves[1 + c - busy.at] \in Half
  BY <1>1
<1>4. Outcome \in [Cells -> Half] BY <1>2, <1>3 DEF Outcome
<1> QED BY <1>4 DEF After

LEMMA Completes ==
  ASSUME Complete, cell \in [Cells -> Half], SpiShape(spi)
  PROVE  /\ After' = After /\ cell' \in [Cells -> Half] /\ busy' = Ready /\ busy # Ready
         /\ mode' = mode /\ locked' = locked
         /\ SpiShape(spi') /\ spi'.sending = spi.sending /\ spi'.opcode = spi.opcode
         /\ spi'.ctl = spi.ctl /\ spi'.data = spi.data
<1>1. busy' = Ready /\ cell' = Outcome /\ busy # Ready /\ mode' = mode /\ locked' = locked
      /\ spi' = [spi EXCEPT !.latch = FALSE]
  BY DEF Complete
<1>2. After' = cell' BY <1>1 DEF After
<1>3. After = Outcome BY <1>1 DEF After
<1>4. /\ SpiShape(spi') /\ spi'.sending = spi.sending /\ spi'.opcode = spi.opcode
      /\ spi'.ctl = spi.ctl /\ spi'.data = spi.data
  BY <1>1 DEF SpiShape
<1> QED BY <1>1, <1>2, <1>3, <1>4, AfterTyped

LEMMA AfterKept ==
  ASSUME cell' = cell,
         \/ busy' = busy /\ locked' = locked
         \/ busy = Ready /\ busy' = Ready
  PROVE  After' = After
BY DEF After, Outcome, Programmed

LEMMA Kinds == /\ \A c : Erase(c) # Ready /\ Erase(c).op = "erase" /\ Erase(c).at = c
               /\ \A c, s : /\ Program(c, s) # Ready /\ Program(c, s).op = "program"
                            /\ Program(c, s).at = c /\ Program(c, s).halves = s
               /\ \A c, d, s : Erase(c) # Program(d, s)
               /\ Ready.op = "none"
<1>1. \A c : Erase(c).op = "erase" /\ Erase(c).at = c BY DEF Erase
<1>2. \A c, s : Program(c, s).op = "program" /\ Program(c, s).at = c /\ Program(c, s).halves = s
  BY DEF Program
<1>3. Ready.op = "none" BY DEF Ready
<1> QED BY <1>1, <1>2, <1>3

LEMMA AfterErase ==
  ASSUME cell \in [Cells -> Half], busy = Ready, cell' = cell, NEW b \in Blocks,
         busy' = EraseOf(b), b \notin locked'
  PROVE  /\ After' \in [Cells -> Half]
         /\ \A c \in Cells : After'[c] = IF BlockOf(c) = b THEN Erased ELSE After[c]
<1>1. BlockOf(2 * Base[b]) = b BY FirstOf
<1>2. busy' # Ready /\ busy'.op = "erase" /\ busy'.at = 2 * Base[b] BY Kinds DEF EraseOf
<1>3. After' = [c \in Cells |-> IF BlockOf(c) = b THEN Erased ELSE cell[c]]
  BY <1>1, <1>2 DEF After, Outcome
<1>4. After = cell BY DEF After
<1>5. Erased \in Half BY DEF Erased, Half
<1> QED BY <1>3, <1>4, <1>5

LEMMA AfterProgram ==
  ASSUME cell \in [Cells -> Half], busy = Ready, cell' = cell, NEW a \in Cells, NEW s,
         s \in Seq(Half), busy' = Program(a, s), BlockOf(a) \notin locked'
  PROVE  /\ After' \in [Cells -> Half]
         /\ \A c \in Cells : After'[c] = IF c - a + 1 \in 1..Len(s)
                                         THEN After[c] \intersect s[c - a + 1] ELSE After[c]
<1>1. busy' # Ready /\ busy'.op = "program" /\ busy'.at = a /\ busy'.halves = s BY Kinds
<1>2. Cells \subseteq Int /\ Len(s) \in Nat BY Total
<1>3. \A c \in Cells : /\ c \in a..a + Len(s) - 1 <=> c - a + 1 \in 1..Len(s)
                       /\ 1 + c - a = c - a + 1
  BY <1>2
<1>4. Programmed' = a..a + Len(s) - 1 BY <1>1 DEF Programmed
<1>5. After' = [c \in Cells |-> IF c \in Programmed' THEN cell[c] \intersect s[1 + c - a] ELSE cell[c]]
  BY <1>1 DEF After, Outcome
<1>6. After = cell BY DEF After
<1>7. After' \in [Cells -> Half]
  <2>1. \A h \in Half : \A g : h \intersect g \in Half BY DEF Half
  <2> QED BY <1>5, <2>1
<1> QED BY <1>3, <1>4, <1>5, <1>6, <1>7

-----------------------------------------------------------------------------
(* What depends on the job alone. *)
LEMMA JobKept ==
  ASSUME job' = job
  PROVE  /\ \A w : InArea(w)' = InArea(w) /\ AreaWord(w)' = AreaWord(w)
         /\ \A w, h : CellOf(w, h)' = CellOf(w, h)
         /\ \A b : ToErase(b)' = ToErase(b)
         /\ \A n : FileWord(n)' = FileWord(n)
         /\ Sound' = Sound /\ Careful' = Careful /\ Checked' = Checked /\ Aligned' = Aligned
         /\ Parallel' = Parallel /\ Bypassed' = Bypassed /\ Waits' = Waits /\ Broadcom' = Broadcom
<1>1. \A w : InArea(w)' = InArea(w) BY DEF InArea
<1>2. \A n : FileWord(n)' = FileWord(n) BY DEF FileWord
<1>3. \A w : AreaWord(w)' = AreaWord(w) BY <1>2 DEF AreaWord
<1>4. \A w, h : CellOf(w, h)' = CellOf(w, h) BY DEF CellOf, Crossed
<1>5. \A b : ToErase(b)' = ToErase(b) BY DEF ToErase, InArea
<1>6. Checked' = Checked /\ Aligned' = Aligned BY DEF Checked, Aligned
<1>7. Sound' = Sound /\ Careful' = Careful BY <1>6 DEF Sound, Careful, HeardOnce
<1>8. Parallel' = Parallel /\ Bypassed' = Bypassed /\ Waits' = Waits /\ Broadcom' = Broadcom
  BY DEF Parallel, Bypassed, Waits, Broadcom
<1> QED BY <1>1, <1>2, <1>3, <1>4, <1>5, <1>6, <1>7, <1>8

LEMMA ScriptsKept ==
  ASSUME job' = job
  PROVE  /\ \A b : sflash_erase_block(b)' = sflash_erase_block(b)
         /\ \A w, word, h : WriteHalf(w, word, h)' = WriteHalf(w, word, h)
         /\ \A w, word : sflash_write_word(w, word)' = sflash_write_word(w, word)
         /\ sflash_reset' = sflash_reset
         /\ EraseCourse' = EraseCourse /\ HalfCourse' = HalfCourse
         /\ \A k : EraseStarted(k)' = EraseStarted(k) /\ ErasePolled(k)' = ErasePolled(k)
                   /\ HalfStarted(k)' = HalfStarted(k)
         /\ \A x : Course(x)' = Course(x)
<1>1. sflash_reset' = sflash_reset BY DEF sflash_reset
<1>2. \A a, h : Poll(a, h)' = Poll(a, h) BY DEF Poll
<1>3. \A c, code : UnlockAndErase(c, code)' = UnlockAndErase(c, code) BY <1>2 DEF UnlockAndErase
<1>4. \A b : sflash_erase_block(b)' = sflash_erase_block(b)
  BY <1>1, <1>2, <1>3 DEF sflash_erase_block
<1>5. \A word, h, c : DataOf(word, h, c)' = DataOf(word, h, c) BY DEF DataOf
<1>6. \A w, word, h : WriteHalf(w, word, h)' = WriteHalf(w, word, h)
  BY <1>2, <1>5, JobKept DEF WriteHalf
<1>7. \A w, word : sflash_write_word(w, word)' = sflash_write_word(w, word)
  BY <1>6 DEF sflash_write_word
<1>8. EraseCourse' = EraseCourse /\ HalfCourse' = HalfCourse
  BY JobKept DEF EraseCourse, HalfCourse
<1>9. \A k : EraseStarted(k)' = EraseStarted(k) /\ ErasePolled(k)' = ErasePolled(k)
             /\ HalfStarted(k)' = HalfStarted(k)
  BY DEF EraseStarted, ErasePolled, HalfStarted
<1>10. ASSUME NEW x PROVE Course(x)' = Course(x)
  <2>1. CASE Broadcom
    <3>1. Broadcom' BY <2>1, JobKept
    <3> QED BY ONLY <2>1, <3>1 DEF Course
  <2>2. CASE ~Broadcom
    <3>1. ~Broadcom' BY <2>2, JobKept
    <3> QED BY ONLY <2>2, <3>1 DEF Course
  <2> QED BY <2>1, <2>2
<1> QED BY <1>1, <1>4, <1>6, <1>7, <1>8, <1>9, <1>10

(* What has been done stays done while the chip is to hold the same. *)
LEMMA ProgressKept ==
  ASSUME job' = job, After' = After, locked' \subseteq locked
  PROVE  /\ \A x : Effect(x)' = Effect(x) /\ Before(x)' = Before(x)
         /\ \A n : /\ ErasedUpTo(n) => ErasedUpTo(n)'
                   /\ Clean(n)' = Clean(n) /\ Written(n)' = Written(n)
         /\ Open => Open'
         /\ \A w, word, n : Halves(w, word, n)' = Halves(w, word, n)
<1>1. \A x : Effect(x)' = Effect(x) /\ Before(x)' = Before(x) BY JobKept DEF Effect, Before
<1>2. \A n : ErasedUpTo(n) => ErasedUpTo(n)' BY <1>1, JobKept DEF ErasedUpTo, EraseOf
<1>3. \A n : Clean(n)' = Clean(n) /\ Written(n)' = Written(n) BY JobKept DEF Clean, Written
<1>4. Open => Open' BY JobKept DEF Open
<1>5. \A w, word, n : Halves(w, word, n)' = Halves(w, word, n) BY JobKept DEF Halves
<1> QED BY <1>1, <1>2, <1>3, <1>4, <1>5

-----------------------------------------------------------------------------
(* How a step that starts an operation takes the job on. *)
LEMMA Places ==
  ASSUME NEW w \in Words
  PROVE  /\ w \in Nat
         /\ \A h \in {1, 2} : /\ CellOf(w, h) \in {2 * w, 2 * w + 1} /\ CellOf(w, h) \in Cells
                              /\ CellOf(w, h) \in Int
                              /\ BlockOf(CellOf(w, h)) = BlockOf(2 * w)
                              /\ (~Crossed => CellOf(w, h) = 2 * w + h - 1)
         /\ {CellOf(w, 1), CellOf(w, 2)} = {2 * w, 2 * w + 1} /\ CellOf(w, 1) # CellOf(w, 2)
         /\ BlockOf(2 * w) \in Blocks
         /\ \A v \in Words : v # w => {2 * v, 2 * v + 1} \intersect {2 * w, 2 * w + 1} = {}
<1>1. w \in Nat /\ 2 * w \in Cells /\ 2 * w + 1 \in Cells /\ Words \subseteq Nat BY CellsOf, Total
<1>2. CASE Crossed
  <2>1. CellOf(w, 1) = 2 * w + 1 /\ CellOf(w, 2) = 2 * w BY <1>1, <1>2 DEF CellOf
  <2>2. {2 * w + 1, 2 * w} = {2 * w, 2 * w + 1} OBVIOUS
  <2>3. BlockOf(2 * w + 1) = BlockOf(2 * w) /\ BlockOf(2 * w) \in Blocks
    BY <1>1, SameBlock, BlockIs, SizesFacts
  <2> QED BY <1>1, <1>2, <2>1, <2>2, <2>3
<1>3. CASE ~Crossed
  <2>1. CellOf(w, 1) = 2 * w /\ CellOf(w, 2) = 2 * w + 1 BY <1>1, <1>3 DEF CellOf
  <2> QED BY <1>1, <1>3, <2>1, SameBlock, BlockIs, SizesFacts
<1> QED BY <1>2, <1>3

LEMMA EraseBegun ==
  ASSUME cell \in [Cells -> Half], job' = job, busy = Ready, cell' = cell, locked' \subseteq locked,
         NEW b \in Blocks, busy' = EraseOf(b), b \notin locked, ErasedUpTo(b)
  PROVE  ErasedUpTo(b)' /\ Effect(EraseOf(b))'
<1>1. \A c \in Cells : After'[c] = IF BlockOf(c) = b THEN Erased ELSE After[c] BY AfterErase
<1>2. \A d \in Blocks : EraseOf(d).op = "erase" /\ BlockOf(EraseOf(d).at) = d
  BY Kinds, FirstOf DEF EraseOf
<1>3. Effect(EraseOf(b))' BY <1>1, <1>2 DEF Effect
<1>4. ASSUME NEW d \in Blocks, Effect(EraseOf(d)) PROVE Effect(EraseOf(d))'
  BY <1>1, <1>2, <1>4 DEF Effect
<1>5. ErasedUpTo(b)' BY <1>4, JobKept DEF ErasedUpTo
<1> QED BY <1>3, <1>5

LEMMA EraseDone ==
  ASSUME NEW b \in Blocks, ErasedUpTo(b), ToErase(b) => b \notin locked /\ Effect(EraseOf(b))
  PROVE  ErasedUpTo(b + 1)
<1>1. Blocks \subseteq Int BY SizesFacts
<1>2. \A d \in Blocks : d < b + 1 => d < b \/ d = b BY <1>1
<1> QED BY <1>2 DEF ErasedUpTo

LEMMA AreaErased ==
  ASSUME job \in Jobs, Sound, ErasedUpTo(Len(Sizes) + 1)
  PROVE  Open /\ Clean(job.start)
<1>1. job.start \in Words /\ job.start \in Nat /\ job.length \in Nat \ {0}
  BY JobsAssumption, Total
<1>2. PICK d \in Blocks : Base[d] = job.start BY DEF Sound, Aligned
<1>3. ASSUME NEW w \in Words, InArea(w)
      PROVE  /\ BlockOf(2 * w) \notin locked /\ After[2 * w] = Erased /\ After[2 * w + 1] = Erased
  <2>1. PICK b \in Blocks : Base[b] <= w /\ w < Base[b + 1] BY WordsCovered
  <2>2. w \in Nat /\ Base[b] \in Nat /\ Base[b + 1] \in Nat BY Total
  <2>3. /\ 2 * w \in Cells /\ 2 * w + 1 \in Cells
        /\ (2 * w) \div 2 = w /\ (2 * w + 1) \div 2 = w
    BY CellsOf
  <2>4. BlockOf(2 * w) = b /\ BlockOf(2 * w + 1) = b BY <2>1, <2>3, BlockIs
  <2>5. ToErase(b)
    <3>1. job.start <= w /\ w < job.start + job.length BY <1>3 DEF InArea
    <3>2. ASSUME Base[b] < job.start PROVE FALSE
      <4>1. Base[b] <= job.start /\ job.start < Base[b + 1] BY <1>1, <2>1, <2>2, <3>1, <3>2
      <4>2. Base[d] <= job.start /\ job.start < Base[d + 1] BY <1>1, <1>2, BaseTypes
      <4>3. b = d BY <1>1, <4>1, <4>2, OneBlock
      <4> QED BY <1>1, <1>2, <2>2, <3>2, <4>3
    <3> QED BY <1>1, <2>1, <2>2, <3>1, <3>2 DEF ToErase, InArea
  <2>6. b < Len(Sizes) + 1 BY SizesFacts
  <2>7. b \notin locked /\ Effect(EraseOf(b)) BY <2>5, <2>6 DEF ErasedUpTo
  <2>8. EraseOf(b).op = "erase" /\ BlockOf(EraseOf(b).at) = b BY Kinds, FirstOf DEF EraseOf
  <2> QED BY <2>3, <2>4, <2>7, <2>8 DEF Effect
<1> QED BY <1>3 DEF Open, Clean

LEMMA WordsTyped ==
  ASSUME job \in Jobs
  PROVE  /\ \A n \in Nat \ {0} : FileWord(n) \subseteq Half \X Half
         /\ \A w \in Words : InArea(w) => AreaWord(w) \subseteq Half \X Half
<1>0. job.image \in Seq(Half \X Half) BY JobsAssumption
<1>1. job.start \in Int
  <2>1. job.start \in Words BY JobsAssumption
  <2>2. job.start \in Nat BY <2>1, Total
  <2> QED BY <2>2
<1>2. Len(job.image) \in Nat /\ \A n \in 1..Len(job.image) : job.image[n] \in Half \X Half BY <1>0
<1>3. Erased \in Half BY DEF Erased, Half
<1>4. ASSUME NEW n \in Nat \ {0} PROVE FileWord(n) \subseteq Half \X Half
  <2> DEFINE unread == IF n = 1 THEN Half ELSE {Erased}
             whole == Len(job.image) - (IF job.cut THEN 1 ELSE 0)
  <2>1. unread \subseteq Half BY <1>3
  <2>2. whole \in Int /\ whole <= Len(job.image)
    <3> DEFINE l == Len(job.image)
    <3>1. l \in Nat BY <1>2
    <3> HIDE DEF l
    <3>2. \A m \in {0, 1} : l - m \in Int /\ l - m <= l BY <3>1
    <3>3. whole \in {l - m : m \in {0, 1}} BY DEF l
    <3> QED BY <3>2, <3>3 DEF l
  <2>3. FileWord(n) = CASE n <= whole -> {job.image[n]}
                        [] whole < n /\ n <= Len(job.image) -> {job.image[n][1]} \X unread
                        [] OTHER -> unread \X unread
    BY DEF FileWord
  <2> HIDE DEF unread, whole
  <2>4. n <= Len(job.image) => n \in 1..Len(job.image) BY <1>2
  <2>5. n <= Len(job.image) => job.image[n] \in Half \X Half /\ job.image[n][1] \in Half
    BY <1>2, <2>4
  <2>6. CASE n <= whole
    <3>1. n <= Len(job.image) BY <1>2, <2>2, <2>6
    <3>2. ~(whole < n /\ n <= Len(job.image)) BY <2>2, <2>6
    <3>3. FileWord(n) = {job.image[n]} BY <2>3, <2>6, <3>2
    <3> QED BY <2>5, <3>1, <3>3
  <2>7. CASE ~(n <= whole) /\ n <= Len(job.image)
    <3>1. whole < n BY <2>2, <2>7
    <3>2. FileWord(n) = {job.image[n][1]} \X unread BY <2>3, <2>7, <3>1
    <3> QED BY <2>1, <2>5, <2>7, <3>2
  <2>8. CASE ~(n <= whole) /\ ~(n <= Len(job.image))
    <3>1. FileWord(n) = unread \X unread BY <2>3, <2>8
    <3> QED BY <2>1, <3>1
  <2> QED BY <2>6, <2>7, <2>8
<1>5. ASSUME NEW w \in Words, InArea(w) PROVE AreaWord(w) \subseteq Half \X Half
  <2>1. w \in Nat BY Total
  <2>2. w - job.start + 1 \in Nat \ {0}
    <3> DEFINE s == job.start
    <3>1. s \in Int /\ s <= w BY <1>1, <1>5 DEF InArea
    <3> HIDE DEF s
    <3>2. w - s + 1 \in Nat \ {0} BY <2>1, <3>1
    <3> QED BY <3>2 DEF s
  <2> QED BY <1>4, <2>2 DEF AreaWord
<1> QED BY <1>4, <1>5

(* What a write puts into a cell is the half that is to be there. *)
LEMMA DataIs ==
  ASSUME job \in Jobs, NEW w \in Words, NEW word \in Half \X Half, NEW h \in {1, 2}
  PROVE  DataOf(word, h, CellOf(w, h)) = Data(word[h])
<1>1. w \in Nat BY Total
<1>2. CASE ~job.dma BY <1>2 DEF DataOf
<1>3. CASE job.dma
  <2>1. ~Crossed BY <1>3, JobsAssumption DEF Crossed
  <2>2. CellOf(w, h) = 2 * w + h - 1 BY <1>1, <2>1 DEF CellOf
  <2>3. 1 + (CellOf(w, h) % 2) = h
    <3>1. (2 * w + 1 - 1) % 2 = 0 /\ (2 * w + 2 - 1) % 2 = 1 BY <1>1
    <3> QED BY <2>2, <3>1
  <2> QED BY <1>3, <2>3 DEF DataOf, Lane
<1> QED BY <1>2, <1>3

(* The rest of the job does not depend on the word in work. *)
LEMMA OthersKept ==
  ASSUME job' = job, locked' = locked, NEW w \in Words,
         \A c \in Cells : After'[c] # After[c] => c \in {2 * w, 2 * w + 1},
         Open, Clean(w + 1), Written(w)
  PROVE  (Open /\ Clean(w + 1) /\ Written(w))'
<1>1. Words \subseteq Nat BY Total
<1>2. ASSUME NEW v \in Words, v # w
      PROVE  /\ After'[2 * v] = After[2 * v] /\ After'[2 * v + 1] = After[2 * v + 1]
             /\ \A g \in {1, 2} : After'[CellOf(v, g)] = After[CellOf(v, g)]
  <2>1. {2 * v, 2 * v + 1} \intersect {2 * w, 2 * w + 1} = {} BY <1>2, Places
  <2>2. 2 * v \in Cells /\ 2 * v + 1 \in Cells BY CellsOf
  <2>3. \A g \in {1, 2} : CellOf(v, g) \in {2 * v, 2 * v + 1} BY Places
  <2> QED BY <2>1, <2>2, <2>3
<1>3. Clean(w + 1)'
  <2>1. \A v \in Words : w + 1 <= v => v # w BY <1>1
  <2> QED BY <1>2, <2>1, JobKept DEF Clean
<1>4. Written(w)'
  <2>1. \A v \in Words : v < w => v # w BY <1>1
  <2> QED BY <1>2, <2>1, JobKept DEF Written
<1>5. Open' BY JobKept DEF Open
<1> QED BY <1>3, <1>4, <1>5

LEMMA HalfBegun ==
  ASSUME cell \in [Cells -> Half], job \in Jobs, job' = job, busy = Ready, cell' = cell,
         locked' = locked, NEW w \in Words, InArea(w), NEW word \in Half \X Half, NEW h \in {1, 2},
         busy' = HalfOf(w, word, h), Careful => Open /\ Clean(w + 1) /\ Written(w),
         Halves(w, word, h - 1)
  PROVE  /\ Careful => (Open /\ Clean(w + 1) /\ Written(w))'
         /\ Halves(w, word, h)'
<1>1. CASE ~Careful BY <1>1, JobKept DEF Halves
<1>2. CASE Careful
  <2> DEFINE a == CellOf(w, h)
  <2>1. /\ w \in Nat /\ a \in {2 * w, 2 * w + 1} /\ a \in Cells /\ BlockOf(a) = BlockOf(2 * w)
        /\ CellOf(w, 1) # CellOf(w, 2)
    BY Places
  <2>2. BlockOf(a) \notin locked' BY <1>2, <2>1 DEF Open
  <2>3. /\ word[h] \in Half /\ <<word[h]>> \in Seq(Half) /\ Len(<<word[h]>>) = 1
        /\ <<word[h]>>[1] = word[h]
    OBVIOUS
  <2>4. busy' = Program(a, <<word[h]>>) BY DEF HalfOf
  <2>5. \A c \in Cells : After'[c] = IF c - a + 1 \in 1..Len(<<word[h]>>)
                                     THEN After[c] \intersect <<word[h]>>[c - a + 1] ELSE After[c]
    <3> HIDE DEF a
    <3> QED BY <2>1, <2>2, <2>3, <2>4, AfterProgram
  <2> HIDE DEF a
  <2>6. Cells \subseteq Int BY Total
  <2>7. \A c \in Cells : After'[c] = IF c = a THEN After[c] \intersect word[h] ELSE After[c]
    <3>1. \A c \in Cells : c - a + 1 \in 1..1 <=> c = a BY <2>1, <2>6
    <3>2. a - a + 1 = 1 BY <2>1, <2>6
    <3> QED BY <2>3, <2>5, <3>1, <3>2
  <2>8. After[a] = Erased
    <3>1. ~(h <= h - 1) OBVIOUS
    <3> QED BY <1>2, <3>1 DEF Halves, a
  <2>9. After'[a] = word[h]
    <3>1. Erased \intersect word[h] = word[h] BY <2>3 DEF Erased, Half
    <3> QED BY <2>1, <2>7, <2>8, <3>1
  <2>10. Halves(w, word, h)'
    <3>1. ASSUME NEW g \in {1, 2}
          PROVE  After'[CellOf(w, g)] = IF g <= h THEN word[g] ELSE Erased
      <4>1. CellOf(w, g) \in Cells BY Places
      <4>2. CASE g = h BY <2>9, <4>2 DEF a
      <4>3. CASE g # h
        <5>1. CellOf(w, g) # a BY <2>1, <4>3 DEF a
        <5>2. After'[CellOf(w, g)] = After[CellOf(w, g)] BY <2>7, <4>1, <5>1
        <5>3. After[CellOf(w, g)] = IF g <= h - 1 THEN word[g] ELSE Erased BY <1>2 DEF Halves
        <5>4. g <= h - 1 <=> g <= h BY <4>3
        <5> QED BY <5>2, <5>3, <5>4
      <4> QED BY <4>2, <4>3
    <3> QED BY <3>1, JobKept DEF Halves
  <2>11. \A c \in Cells : After'[c] # After[c] => c \in {2 * w, 2 * w + 1} BY <2>1, <2>7
  <2>12. (Open /\ Clean(w + 1) /\ Written(w))' BY <1>2, <2>11, OthersKept
  <2> QED BY <2>10, <2>12
<1> QED BY <1>1, <1>2

LEMMA WordBegun ==
  ASSUME cell \in [Cells -> Half], job \in Jobs, job' = job, busy = Ready, cell' = cell,
         locked = {}, locked' = locked, NEW w \in Words, InArea(w), NEW word \in Half \X Half,
         busy' = Program(2 * w, word), Careful => Open /\ Clean(w + 1) /\ Written(w),
         Before(Program(2 * w, word))
  PROVE  /\ Careful => (Open /\ Clean(w + 1) /\ Written(w))'
         /\ Effect(Program(2 * w, word))'
<1> DEFINE x == Program(2 * w, word)
<1>1. x.op = "program" /\ x.at = 2 * w /\ x.halves = word BY Kinds
<1>2. CASE ~Careful BY <1>1, <1>2, JobKept DEF Effect
<1>3. CASE Careful
  <2>1. w \in Nat /\ 2 * w \in Cells /\ 2 * w + 1 \in Cells BY CellsOf
  <2>2. /\ word \in Seq(Half) /\ Len(word) = 2 /\ DOMAIN word = {1, 2}
        /\ word[1] \in Half /\ word[2] \in Half
    <3>1. word[1] \in Half /\ word[2] \in Half /\ word = <<word[1], word[2]>> OBVIOUS
    <3>2. \A g, h \in Half : /\ <<g, h>> \in Seq(Half) /\ Len(<<g, h>>) = 2
                              /\ DOMAIN <<g, h>> = {1, 2}
      OBVIOUS
    <3> QED BY <3>1, <3>2
  <2>3. \A c \in Cells : After'[c] = IF c - 2 * w + 1 \in 1..Len(word)
                                     THEN After[c] \intersect word[c - 2 * w + 1] ELSE After[c]
    BY <2>1, <2>2, AfterProgram
  <2>4. After[2 * w] = Erased /\ After[2 * w + 1] = Erased
    <3>1. \A n \in {1, 2} : After[2 * w + n - 1] = Erased BY <1>1, <1>3, <2>2 DEF Before
    <3>2. 2 * w + 1 - 1 = 2 * w /\ 2 * w + 2 - 1 = 2 * w + 1 BY <2>1
    <3> QED BY <3>1, <3>2
  <2>5. After'[2 * w] = word[1] /\ After'[2 * w + 1] = word[2]
    <3>1. \A g \in Half : Erased \intersect g = g BY DEF Erased, Half
    <3>2. /\ 2 * w - 2 * w + 1 = 1 /\ (2 * w + 1) - 2 * w + 1 = 2 /\ 1 \in 1..2 /\ 2 \in 1..2
      BY <2>1
    <3>3. After'[2 * w] = Erased \intersect word[1] BY <2>1, <2>2, <2>3, <2>4, <3>2
    <3>4. After'[2 * w + 1] = Erased \intersect word[2] BY <2>1, <2>2, <2>3, <2>4, <3>2
    <3> QED BY <2>2, <3>1, <3>3, <3>4
  <2>6. Effect(x)'
    <3>1. \A n \in {1, 2} : After'[2 * w + n - 1] = word[n]
      <4>1. 2 * w + 1 - 1 = 2 * w /\ 2 * w + 2 - 1 = 2 * w + 1 BY <2>1
      <4> QED BY <2>5, <4>1
    <3> QED BY <1>1, <2>2, <3>1 DEF Effect
  <2>7. \A c \in Cells : After'[c] # After[c] => c \in {2 * w, 2 * w + 1}
    <3>1. Cells \subseteq Int BY Total
    <3>2. \A c \in Cells : c - 2 * w + 1 \in 1..2 => c \in {2 * w, 2 * w + 1} BY <2>1, <3>1
    <3> QED BY <2>2, <2>3, <3>2
  <2>8. (Open /\ Clean(w + 1) /\ Written(w))' BY <1>3, <2>7, OthersKept
  <2> QED BY <2>6, <2>8
<1> QED BY <1>2, <1>3

LEMMA WordDone ==
  ASSUME NEW w \in Words, Written(w), NEW word \in AreaWord(w), word \in Half \X Half,
         After[CellOf(w, 1)] = word[1], After[CellOf(w, 2)] = word[2]
  PROVE  Written(w + 1)
<1>1. Words \subseteq Nat BY Total
<1>2. \A v \in Words : v < w + 1 => v < w \/ v = w BY <1>1
<1>3. <<word[1], word[2]>> = word OBVIOUS
<1> QED BY <1>2, <1>3 DEF Written

LEMMA WordSkipped ==
  ASSUME NEW w \in Words, InArea(w), FFWord \in AreaWord(w), Clean(w), Written(w)
  PROVE  Written(w + 1)
<1>1. w \in Nat BY Total
<1>2. After[2 * w] = Erased /\ After[2 * w + 1] = Erased BY <1>1 DEF Clean
<1>3. After[CellOf(w, 1)] = Erased /\ After[CellOf(w, 2)] = Erased BY <1>2, Places
<1>4. FFWord \in Half \X Half /\ FFWord[1] = Erased /\ FFWord[2] = Erased
  BY DEF FFWord, Half, Erased
<1> QED BY <1>3, <1>4, WordDone

(* Before the word in work is written, it is erased. *)
LEMMA WordClean ==
  ASSUME NEW w \in Words, InArea(w), NEW word \in Half \X Half, Careful => Clean(w)
  PROVE  /\ Careful => Clean(w + 1)
         /\ Halves(w, word, 0)
         /\ Before(Program(2 * w, word))
<1>1. Words \subseteq Nat BY Total
<1>2. Careful => After[2 * w] = Erased /\ After[2 * w + 1] = Erased BY <1>1 DEF Clean
<1>3. Careful => Clean(w + 1)
  <2>1. \A v \in Words : w + 1 <= v => w <= v BY <1>1
  <2> QED BY <2>1 DEF Clean
<1>4. Halves(w, word, 0)
  <2>1. \A h \in {1, 2} : ~(h <= 0) OBVIOUS
  <2> QED BY <1>2, <2>1, Places DEF Halves
<1>5. Before(Program(2 * w, word))
  <2>1. DOMAIN word = {1, 2} OBVIOUS
  <2>2. w \in Nat /\ 2 * w + 1 - 1 = 2 * w /\ 2 * w + 2 - 1 = 2 * w + 1 BY <1>1
  <2> QED BY <1>2, <2>1, <2>2, Kinds DEF Before
<1> QED BY <1>3, <1>4, <1>5

-----------------------------------------------------------------------------
(* What may happen while the cycles of a routine are to do. *)
Stays == job' = job /\ pc' = pc /\ at' = at /\ saved' = saved

LEMMA Moves ==
  ASSUME [Next]_vars, ~Checked, todo # <<>>, NEW c, c = Head(todo), NEW t, t = Tail(todo),
         NEW op, op = c.op, op \in {"write", "start", "poll", "status"}
  PROVE  /\ Stays
         /\ \/ /\ op = "write" /\ (job.family = "AMD" /\ job.cl_bypass => busy.op # "program")
               /\ BusWrite(job.family, c.to, c.value) /\ todo' = t
            \/ /\ op = "start" /\ todo' = t /\ UNCHANGED <<cell, mode, busy, locked>>
               /\ SpiWrite(Ctl, [cmd |-> c.code, bytes |-> spi.ctl.bytes \cup Bytes[c.code]])
            \/ /\ op = "poll" /\ UNCHANGED chipVars
               /\ todo' = IF (7 \in BusRead(job.family, c.to)) = c.bit THEN t ELSE todo
            \/ /\ op = "status" /\ UNCHANGED chipVars
               /\ todo' = IF 0 \in BusRead(job.family, DataReg) THEN ReadStatus \o todo ELSE t
            \/ Complete /\ todo' = todo
            \/ Transfer /\ todo' = todo
            \/ UNCHANGED <<chipVars, todo>>
<1>1. CASE UNCHANGED vars BY <1>1 DEF vars, hostVars, Stays
<1>2. CASE ChipStep \/ ControllerStep BY <1>2 DEF ChipStep, ControllerStep, hostVars, Stays
<1>3. CASE HostStep
  <2>1. CASE \/ sflash_erase_area \/ EnterBypass \/ LoadWord \/ Reset \/ SaveWord \/ LoadMemory
    BY <2>1 DEF sflash_erase_area, EnterBypass, LoadWord, Reset, SaveWord, LoadMemory
  <2>2. CASE WriteCycle BY <2>2 DEF WriteCycle, Stays
  <2>3. CASE StartCycle BY <2>3 DEF StartCycle, Stays
  <2>4. CASE CheckCycle BY <2>4 DEF CheckCycle
  <2>5. CASE PollCycle BY <2>5 DEF PollCycle, Stays
  <2>6. CASE StatusCycle BY <2>6 DEF StatusCycle, Stays
  <2> QED BY <1>3, <2>1, <2>2, <2>3, <2>4, <2>5, <2>6 DEF HostStep
<1>4. CASE Finished BY <1>4 DEF Finished
<1> QED BY <1>1, <1>2, <1>3, <1>4 DEF Next

LEMMA BusyKept ==
  ASSUME BusyInv, job' = job, busy' = Ready \/ (busy' = busy /\ cell' = cell)
  PROVE  BusyInv'
<1>1. CASE busy' = Ready BY <1>1 DEF BusyInv
<1>2. CASE busy' = busy /\ cell' = cell
  <2>1. Programmed' = Programmed BY <1>2 DEF Programmed
  <2> QED BY <1>2, <2>1, JobKept DEF BusyInv, HalfOf
<1> QED BY <1>1, <1>2

LEMMA EraseBusy ==
  ASSUME job' = job, job.op \in {"flash", "erase"}, NEW b \in Blocks, ToErase(b), busy' = EraseOf(b)
  PROVE  BusyInv'
BY JobKept DEF BusyInv

LEMMA HalfBusy ==
  ASSUME job' = job, job.op = "flash", NEW w \in Words, InArea(w), NEW word \in Half \X Half,
         NEW h \in {1, 2}, busy = Ready, cell' = cell, busy' = HalfOf(w, word, h),
         Halves(w, word, h - 1)
  PROVE  BusyInv'
<1> DEFINE a == CellOf(w, h)
<1>1. a \in Int BY Places
<1>2. busy'.at = a /\ busy'.halves = <<word[h]>> BY Kinds DEF HalfOf
<1>3. Programmed' = {a}
  <2> HIDE DEF a
  <2>1. Len(<<word[h]>>) = 1 OBVIOUS
  <2>2. a..a + 1 - 1 = {a} BY <1>1
  <2> QED BY <1>2, <2>1, <2>2 DEF Programmed
<1>4. Careful => cell'[a] = Erased
  <2>1. ~(h <= h - 1) OBVIOUS
  <2> QED BY <2>1 DEF Halves, After
<1>5. word[h] \in Half OBVIOUS
<1>6. busy' = Program(CellOf(w, h), <<word[h]>>) BY DEF HalfOf
<1>7. (\E v \in Words : InArea(v) /\ \E g \in {1, 2}, e \in Half : busy = Program(CellOf(v, g), <<e>>))'
  BY <1>5, <1>6, JobKept
<1>8. (Careful => \A c \in Programmed : cell[c] = Erased)' BY <1>3, <1>4, JobKept
<1> QED BY <1>7, <1>8 DEF BusyInv

LEMMA WordBusy ==
  ASSUME job' = job, job.op = "flash", NEW w \in Words, InArea(w), NEW word \in Half \X Half,
         busy = Ready, cell' = cell, busy' = Program(2 * w, word), Before(Program(2 * w, word))
  PROVE  BusyInv'
<1>1. w \in Nat BY Total
<1>2. busy'.at = 2 * w /\ busy'.halves = word BY Kinds
<1>3. Programmed' = {2 * w, 2 * w + 1}
  <2>1. Len(word) = 2 OBVIOUS
  <2>2. 2 * w..2 * w + 2 - 1 = {2 * w, 2 * w + 1} BY <1>1
  <2> QED BY <1>2, <2>1, <2>2 DEF Programmed
<1>4. Careful => cell'[2 * w] = Erased /\ cell'[2 * w + 1] = Erased
  <2>1. DOMAIN word = {1, 2} OBVIOUS
  <2>2. Careful => \A n \in {1, 2} : cell[2 * w + n - 1] = Erased BY <2>1, Kinds DEF Before, After
  <2>3. 2 * w + 1 - 1 = 2 * w /\ 2 * w + 2 - 1 = 2 * w + 1 BY <1>1
  <2> QED BY <2>2, <2>3
<1>5. (\E v \in Words : InArea(v) /\ \E e \in Half \X Half : busy = Program(2 * v, e))' BY JobKept
<1>6. (Careful => \A c \in Programmed : cell[c] = Erased)' BY <1>3, <1>4, JobKept
<1> QED BY <1>5, <1>6 DEF BusyInv

-----------------------------------------------------------------------------
(* The cycles of the routines for parallel chips. *)
LEMMA Cycles ==
  /\ \A a, v : W(a, v).op = "write" /\ W(a, v).to = a /\ W(a, v).value = v
  /\ \A k : Cmd(k).cmd = k /\ Cmd(k).half = {}
  /\ \A h : Data(h).cmd = "data" /\ Data(h).half = h
  /\ \A a, h : Poll(a, h).op = "poll"
  /\ \A a, h : Poll(a, h).to = IF job.family = "Intel" THEN 0 ELSE a
  /\ \A a, h : Poll(a, h).bit <=> job.family = "Intel" \/ 7 \in h
<1>1. \A a, h : Poll(a, h).bit <=> job.family = "Intel" \/ 7 \in h BY DEF Poll
<1>2. \A a, h : /\ Poll(a, h).op = "poll"
                /\ Poll(a, h).to = IF job.family = "Intel" THEN 0 ELSE a
  BY DEF Poll
<1> QED BY <1>1, <1>2 DEF W, Cmd, Data

AmdErases(s, c, k) ==
  /\ \E S : s \in Seq(S)
  /\ Len(s) = 8
  /\ s[1] = W(Unlock1, Cmd("AA")) /\ s[2] = W(Unlock2, Cmd("55")) /\ s[3] = W(Unlock1, Cmd("80"))
  /\ s[4] = W(Unlock1, Cmd("AA")) /\ s[5] = W(Unlock2, Cmd("55")) /\ s[6] = W(c, Cmd(k))
  /\ s[7] = Poll(c, Erased) /\ s[8] = W(0, Cmd("F0"))
IntelErases(s, c) ==
  /\ \E S : s \in Seq(S)
  /\ Len(s) = 12
  /\ s[1] = W(c, Cmd("50")) /\ s[2] = W(c, Cmd("60")) /\ s[3] = W(c, Cmd("D0"))
  /\ s[4] = W(c, Cmd("70")) /\ s[5] = Poll(c, Erased)
  /\ s[6] = W(c, Cmd("50")) /\ s[7] = W(c, Cmd("20")) /\ s[8] = W(c, Cmd("D0"))
  /\ s[9] = W(c, Cmd("70")) /\ s[10] = Poll(c, Erased)
  /\ s[11] = W(0, Cmd("50")) /\ s[12] = W(0, Cmd("FF"))

LEMMA AmdEraseScript ==
  ASSUME job.family \in {"AMD", "SST"}, NEW b, NEW s, s = sflash_erase_block(b),
         NEW c, c = 2 * Base[b], NEW k, k = IF job.family = "SST" THEN "50" ELSE "30"
  PROVE  AmdErases(s, c, k)
<1>1. s = UnlockAndErase(c, k) \o sflash_reset
  <2>1. CASE job.family = "AMD" BY <2>1 DEF sflash_erase_block
  <2>2. CASE job.family = "SST" BY <2>2 DEF sflash_erase_block
  <2> QED BY <2>1, <2>2
<1>2. sflash_reset = <<W(0, Cmd("F0"))>> BY DEF sflash_reset
<1>3. s = <<W(Unlock1, Cmd("AA")), W(Unlock2, Cmd("55"))>> \o <<W(Unlock1, Cmd("80"))>>
          \o <<W(Unlock1, Cmd("AA")), W(Unlock2, Cmd("55"))>> \o <<W(c, Cmd(k)), Poll(c, Erased)>>
          \o <<W(0, Cmd("F0"))>>
  BY <1>1, <1>2 DEF UnlockAndErase, Unlock
<1>4. PICK e1, e2, e3, e6, e7, e8 :
        /\ e1 = W(Unlock1, Cmd("AA")) /\ e2 = W(Unlock2, Cmd("55")) /\ e3 = W(Unlock1, Cmd("80"))
        /\ e6 = W(c, Cmd(k)) /\ e7 = Poll(c, Erased) /\ e8 = W(0, Cmd("F0"))
  OBVIOUS
<1>5. s = <<e1, e2>> \o <<e3>> \o <<e1, e2>> \o <<e6, e7>> \o <<e8>> BY <1>3, <1>4
<1> DEFINE S == {e1, e2, e3, e6, e7, e8}
<1>6. e1 \in S /\ e2 \in S /\ e3 \in S /\ e6 \in S /\ e7 \in S /\ e8 \in S OBVIOUS
<1> HIDE DEF S
<1>7. /\ s \in Seq(S) /\ Len(s) = 8
      /\ s[1] = e1 /\ s[2] = e2 /\ s[3] = e3 /\ s[4] = e1 /\ s[5] = e2 /\ s[6] = e6
      /\ s[7] = e7 /\ s[8] = e8
  BY <1>5, <1>6
<1> QED BY <1>4, <1>7 DEF AmdErases

LEMMA IntelEraseScript ==
  ASSUME job.family = "Intel", NEW b, NEW s, s = sflash_erase_block(b), NEW c, c = 2 * Base[b]
  PROVE  IntelErases(s, c)
<1>1. s = <<W(c, Cmd("50")), W(c, Cmd("60")), W(c, Cmd("D0")), W(c, Cmd("70")), Poll(c, Erased),
            W(c, Cmd("50")), W(c, Cmd("20")), W(c, Cmd("D0")), W(c, Cmd("70")), Poll(c, Erased)>>
          \o <<W(0, Cmd("50")), W(0, Cmd("FF"))>>
  BY DEF sflash_erase_block, sflash_reset
<1>2. PICK e1, e2, e3, e4, e5, e7, f1, f2 :
        /\ e1 = W(c, Cmd("50")) /\ e2 = W(c, Cmd("60")) /\ e3 = W(c, Cmd("D0"))
        /\ e4 = W(c, Cmd("70")) /\ e5 = Poll(c, Erased) /\ e7 = W(c, Cmd("20"))
        /\ f1 = W(0, Cmd("50")) /\ f2 = W(0, Cmd("FF"))
  OBVIOUS
<1>3. s = <<e1, e2, e3, e4, e5, e1, e7, e3, e4, e5>> \o <<f1, f2>> BY <1>1, <1>2
<1> DEFINE S == {e1, e2, e3, e4, e5, e7, f1, f2}
<1>4. e1 \in S /\ e2 \in S /\ e3 \in S /\ e4 \in S /\ e5 \in S /\ e7 \in S /\ f1 \in S /\ f2 \in S
  OBVIOUS
<1> HIDE DEF S
<1>5. /\ s \in Seq(S) /\ Len(s) = 12
      /\ s[1] = e1 /\ s[2] = e2 /\ s[3] = e3 /\ s[4] = e4 /\ s[5] = e5 /\ s[6] = e1
      /\ s[7] = e7 /\ s[8] = e3 /\ s[9] = e4 /\ s[10] = e5 /\ s[11] = f1 /\ s[12] = f2
  BY <1>3, <1>4
<1> QED BY <1>2, <1>5 DEF IntelErases

(* What the decoder of an AMD chip makes of them. *)
LEMMA AmdDecodes ==
  ASSUME NEW e
  PROVE  /\ mode = "read" => /\ AmdNext(Unlock1, Cmd("AA"), e) = "unlock1"
                             /\ AmdStarts(Unlock1, Cmd("AA"), e) = Ready
                             /\ AmdNext(0, Cmd("F0"), e) = "read"
                             /\ AmdStarts(0, Cmd("F0"), e) = Ready
                             /\ AmdNext(Unlock1, Cmd("90"), e) = "read"
                             /\ AmdStarts(Unlock1, Cmd("90"), e) = Ready
         /\ mode = "unlock1" => /\ AmdNext(Unlock2, Cmd("55"), e) = "unlock2"
                                /\ AmdStarts(Unlock2, Cmd("55"), e) = Ready
         /\ mode = "unlock2" => /\ AmdNext(Unlock1, Cmd("A0"), e) = "program"
                                /\ AmdStarts(Unlock1, Cmd("A0"), e) = Ready
                                /\ AmdNext(Unlock1, Cmd("80"), e) = "erase"
                                /\ AmdStarts(Unlock1, Cmd("80"), e) = Ready
                                /\ AmdNext(Unlock1, Cmd("20"), e) = "bypass"
                                /\ AmdStarts(Unlock1, Cmd("20"), e) = Ready
         /\ mode = "erase" => /\ AmdNext(Unlock1, Cmd("AA"), e) = "erase1"
                              /\ AmdStarts(Unlock1, Cmd("AA"), e) = Ready
         /\ mode = "erase1" => /\ AmdNext(Unlock2, Cmd("55"), e) = "erase2"
                               /\ AmdStarts(Unlock2, Cmd("55"), e) = Ready
<1>1. CASE mode = "read" BY <1>1, Cycles DEF AmdNext, AmdStarts, Unlock1, Unlock2
<1>2. CASE mode = "unlock1" BY <1>2, Cycles DEF AmdNext, AmdStarts, Unlock1, Unlock2
<1>3. CASE mode = "unlock2" BY <1>3, Cycles DEF AmdNext, AmdStarts, Unlock1, Unlock2
<1>4. CASE mode = "erase" BY <1>4, Cycles DEF AmdNext, AmdStarts, Unlock1, Unlock2
<1>5. CASE mode = "erase1" BY <1>5, Cycles DEF AmdNext, AmdStarts, Unlock1, Unlock2
<1> QED BY <1>1, <1>2, <1>3, <1>4, <1>5

LEMMA AmdBegins ==
  ASSUME NEW a \in Cells, NEW e
  PROVE  /\ mode = "erase2" => AmdNext(a, Cmd(e), e) = "read" /\ AmdStarts(a, Cmd(e), e) = Erase(a)
         /\ \A h : /\ mode = "program" => /\ AmdNext(a, Data(h), e) = "read"
                                          /\ AmdStarts(a, Data(h), e) = Program(a, <<h>>)
                   /\ mode = "bypassProgram" => /\ AmdNext(a, Data(h), e) = "bypass"
                                                /\ AmdStarts(a, Data(h), e) = Program(a, <<h>>)
                   /\ mode = "bypass" => /\ AmdNext(a, Data(h), e) = "bypass"
                                         /\ AmdStarts(a, Data(h), e) = Ready
         /\ \A x, v : mode = "bypass" /\ v.cmd # "A0" => /\ AmdNext(x, v, e) = "bypass"
                                                         /\ AmdStarts(x, v, e) = Ready
         /\ \A x, v : mode = "bypass" /\ v.cmd = "A0" => /\ AmdNext(x, v, e) = "bypassProgram"
                                                         /\ AmdStarts(x, v, e) = Ready
<1>1. CASE mode = "erase2" BY <1>1, Cycles DEF AmdNext, AmdStarts
<1>2. CASE mode = "program" BY <1>2, Cycles DEF AmdNext, AmdStarts
<1>3. CASE mode = "bypassProgram" BY <1>3, Cycles DEF AmdNext, AmdStarts
<1>4. CASE mode = "bypass" BY <1>4, Cycles DEF AmdNext, AmdStarts
<1> QED BY <1>1, <1>2, <1>3, <1>4

LEMMA IntelDecodes ==
  ASSUME NEW a
  PROVE  /\ mode \in {"read", "status"} =>
              /\ \A v : v.cmd \notin {"40", "20", "60", "70", "FF"} => IntelNext(a, v) = mode
              /\ \A v : IntelStarts(a, v) = Ready
              /\ IntelNext(a, Cmd("40")) = "program" /\ IntelNext(a, Cmd("20")) = "confirmErase"
              /\ IntelNext(a, Cmd("60")) = "confirmUnlock" /\ IntelNext(a, Cmd("70")) = "status"
              /\ IntelNext(a, Cmd("FF")) = "read"
         /\ mode \in {"program", "confirmErase", "confirmUnlock"} => \A v : IntelNext(a, v) = "status"
         /\ mode = "program" => \A h : IntelStarts(a, Data(h)) = Program(a, <<h>>)
         /\ mode = "confirmErase" => /\ IntelStarts(a, Cmd("D0")) = Erase(a)
                                     /\ \A v : v.cmd # "D0" => IntelStarts(a, v) = Ready
         /\ mode = "confirmUnlock" => \A v : IntelStarts(a, v) = Ready
<1>1. CASE mode \in {"read", "status"} BY <1>1, Cycles DEF IntelNext, IntelStarts
<1>2. CASE mode = "program" BY <1>2, Cycles DEF IntelNext, IntelStarts
<1>3. CASE mode = "confirmErase" BY <1>3, Cycles DEF IntelNext, IntelStarts
<1>4. CASE mode = "confirmUnlock" BY <1>4, Cycles DEF IntelNext, IntelStarts
<1> QED BY <1>1, <1>2, <1>3, <1>4

LEMMA Wires ==
  ASSUME NEW a, NEW v, BusWrite(job.family, a, v), busy = Ready,
         NEW e, e = IF job.family = "SST" THEN "50" ELSE "30"
  PROVE  /\ Parallel => cell' = cell /\ spi' = spi
         /\ job.family \in {"AMD", "SST"} =>
              mode' = AmdNext(a, v, e) /\ busy' = AmdStarts(a, v, e) /\ locked' = locked
         /\ job.family = "Intel" =>
              /\ mode' = IntelNext(a, v) /\ busy' = IntelStarts(a, v)
              /\ locked' = IF mode = "confirmUnlock" /\ v.cmd = "D0"
                           THEN locked \ {BlockOf(a)} ELSE locked
BY DEF BusWrite, Parallel


-----------------------------------------------------------------------------
(* A block is erased. *)
BlockErased == InErase \/ AtErase

LEMMA ErasingNow ==
  ASSUME Stays, NEW b \in Blocks, ToErase(b), pc = "erase", at = b + 1, ErasedUpTo(b)',
         NEW k \in 1..17, Erasing(b, k)'
  PROVE  BlockErased'
<1>1. b \in Nat BY SizesFacts
<1>2. at' \in Nat /\ at' - 1 = b /\ pc' = "erase" BY <1>1 DEF Stays
<1>3. ToErase(b)' BY JobKept DEF Stays
<1>4. InErase' BY <1>2, <1>3 DEF InErase
<1> QED BY <1>4 DEF BlockErased

LEMMA ErasedNow ==
  ASSUME Stays, NEW b \in Blocks, ToErase(b), pc = "erase", at = b + 1, ErasedUpTo(b)',
         todo' = <<>>, mode' = "read", busy' = Ready, ~spi'.sending, b \notin locked',
         Effect(EraseOf(b))'
  PROVE  BlockErased'
<1>1. b \in Int /\ b + 1 \in 1..Len(Sizes) + 1 BY SizesFacts
<1>2. ErasedUpTo(b + 1)'
  <2>1. \A d \in Blocks : d < b + 1 => d < b \/ d = b BY <1>1, SizesFacts
  <2> QED BY <2>1 DEF ErasedUpTo
<1>3. AtErase' BY <1>1, <1>2 DEF AtErase, Stays
<1> QED BY <1>3 DEF BlockErased

LEMMA ErasingKept ==
  ASSUME ChipInv, BusyInv, Stays, NEW b \in Blocks, ToErase(b), pc = "erase", at = b + 1,
         ErasedUpTo(b), NEW k \in 1..17, Erasing(b, k),
         \/ Complete /\ todo' = todo
         \/ Transfer /\ todo' = todo
         \/ UNCHANGED <<chipVars, todo>>
  PROVE  BlockErased' /\ BusyInv'
<1>1. cell \in [Cells -> Half] /\ SpiShape(spi) /\ ~spi.sending /\ job' = job
  BY DEF ChipInv, Erasing, Parallel, Stays
<1>2. CASE Complete /\ todo' = todo
  <2>1. After' = After /\ busy' = Ready /\ busy # Ready /\ mode' = mode /\ locked' = locked
    BY <1>1, <1>2, Completes
  <2>2. ErasedUpTo(b)' /\ Effect(EraseOf(b))' = Effect(EraseOf(b)) BY <1>1, <2>1, ProgressKept
  <2>3. Erasing(b, k)' BY <1>1, <1>2, <2>1, <2>2, JobKept, ScriptsKept DEF Erasing
  <2> QED BY <1>1, <2>1, <2>2, <2>3, ErasingNow, BusyKept
<1>3. CASE Transfer /\ todo' = todo BY <1>1, <1>3 DEF Transfer
<1>4. CASE UNCHANGED <<chipVars, todo>>
  <2>1. After' = After /\ busy' = busy /\ mode' = mode /\ locked' = locked /\ cell' = cell
    BY <1>4, AfterKept DEF chipVars
  <2>2. ErasedUpTo(b)' /\ Effect(EraseOf(b))' = Effect(EraseOf(b)) BY <1>1, <2>1, ProgressKept
  <2>3. Erasing(b, k)' BY <1>1, <1>4, <2>1, <2>2, JobKept, ScriptsKept DEF Erasing
  <2> QED BY <1>1, <2>1, <2>2, <2>3, ErasingNow, BusyKept
<1> QED BY <1>2, <1>3, <1>4

LEMMA AmdEraseStep ==
  ASSUME ChipInv, BusyInv, [Next]_vars, ~Checked, job.op \in {"flash", "erase"},
         job.family \in {"AMD", "SST"}, NEW b \in Blocks, ToErase(b), pc = "erase", at = b + 1,
         ErasedUpTo(b), NEW k \in 1..17, Erasing(b, k)
  PROVE  BlockErased' /\ BusyInv'
<1> DEFINE s == sflash_erase_block(b)
           a == 2 * Base[b]
           e == IF job.family = "SST" THEN "50" ELSE "30"
<1>1. /\ Len(s) = 8 /\ \E S : s \in Seq(S)
      /\ s[1] = W(Unlock1, Cmd("AA")) /\ s[2] = W(Unlock2, Cmd("55")) /\ s[3] = W(Unlock1, Cmd("80"))
      /\ s[4] = W(Unlock1, Cmd("AA")) /\ s[5] = W(Unlock2, Cmd("55")) /\ s[6] = W(a, Cmd(e))
      /\ s[7] = Poll(a, Erased) /\ s[8] = W(0, Cmd("F0"))
  <2>1. AmdErases(s, a, e) BY AmdEraseScript
  <2> HIDE DEF s, a, e
  <2> QED BY <2>1 DEF AmdErases
<1> HIDE DEF s, e
<1>2. /\ EraseCourse = <<"read", "unlock1", "unlock2", "erase", "erase1", "erase2", "read", "read">>
      /\ (EraseStarted(k) <=> k > 6) /\ (ErasePolled(k) <=> k > 7)
      /\ \A j \in 1..8 : (EraseStarted(j) <=> j > 6) /\ (ErasePolled(j) <=> j > 7)
  BY DEF EraseCourse, EraseStarted, ErasePolled
<1>3. k \in 1..8 /\ todo = Rest(s, k) /\ mode = EraseCourse[k] BY <1>2 DEF Erasing, s
<1>4. todo # <<>> /\ Head(todo) = s[k] /\ Tail(todo) = Rest(s, k + 1) BY <1>1, <1>3, Rests
<1>5. Rest(s, 9) = <<>>
  <2>1. Len(s) + 1 = 9 BY <1>1
  <2> QED BY <1>1, <2>1, Whole
<1>6. Parallel /\ locked = {} /\ ~spi.sending /\ cell \in [Cells -> Half] BY DEF ChipInv, Parallel
<1>7. a \in Cells BY FirstOf
<1>8. busy = Ready \/ (k = 7 /\ busy = EraseOf(b)) BY <1>2, <1>3 DEF Erasing
<1>9. s[k].op = IF k = 7 THEN "poll" ELSE "write" BY <1>1, <1>3, Cycles
<1>10. /\ Stays
       /\ \/ s[k].op = "write" /\ BusWrite(job.family, s[k].to, s[k].value) /\ todo' = Rest(s, k + 1)
          \/ /\ s[k].op = "poll" /\ UNCHANGED chipVars
             /\ \/ 7 \in BusRead(job.family, s[k].to) <=> s[k].bit
                \/ todo' = todo
             /\ todo' = Rest(s, k + 1) \/ todo' = todo
          \/ Complete /\ todo' = todo
          \/ Transfer /\ todo' = todo
          \/ UNCHANGED <<chipVars, todo>>
  BY <1>4, <1>9, Moves
<1>11. job' = job BY <1>10 DEF Stays
<1>12. CASE \/ Complete /\ todo' = todo
            \/ Transfer /\ todo' = todo
            \/ UNCHANGED <<chipVars, todo>>
  BY <1>10, <1>12, ErasingKept
<1>13. CASE k # 7 /\ BusWrite(job.family, s[k].to, s[k].value) /\ todo' = Rest(s, k + 1)
  <2>1. busy = Ready BY <1>8, <1>13
  <2>2. /\ cell' = cell /\ spi' = spi /\ locked' = locked
        /\ mode' = AmdNext(s[k].to, s[k].value, e) /\ busy' = AmdStarts(s[k].to, s[k].value, e)
    BY <1>6, <1>13, <2>1, Wires DEF e
  <2>3. CASE k < 6
    <3>1. mode' = EraseCourse[k + 1] /\ busy' = Ready
      BY <1>1, <1>2, <1>3, <2>2, <2>3, Cycles, AmdDecodes
    <3>2. After' = After BY <2>1, <2>2, <3>1, AfterKept
    <3>3. ErasedUpTo(b)' BY <1>11, <2>2, <3>2, ProgressKept
    <3>4. Erasing(b, k + 1)'
      BY <1>2, <1>3, <1>6, <1>11, <1>13, <2>2, <2>3, <3>1, JobKept, ScriptsKept DEF Erasing, s
    <3>5. k + 1 \in 1..17 BY <1>3
    <3> QED BY <1>10, <1>11, <3>1, <3>3, <3>4, <3>5, ErasingNow, BusyKept
  <2>4. CASE k = 6
    <3>1. mode' = "read" /\ busy' = EraseOf(b)
      BY <1>1, <1>2, <1>3, <1>7, <2>2, <2>4, Cycles, AmdBegins DEF EraseOf
    <3>2. ErasedUpTo(b)' /\ Effect(EraseOf(b))' BY <1>6, <1>11, <2>1, <2>2, <3>1, EraseBegun
    <3>3. Erasing(b, 7)'
      BY <1>2, <1>3, <1>6, <1>11, <1>13, <2>2, <2>4, <3>1, <3>2, JobKept, ScriptsKept DEF Erasing, s
    <3> QED BY <1>10, <1>11, <3>1, <3>2, <3>3, ErasingNow, EraseBusy
  <2>5. CASE k = 8
    <3>1. mode' = "read" /\ busy' = Ready BY <1>1, <1>2, <1>3, <2>2, <2>5, Cycles, AmdDecodes
    <3>2. After' = After BY <2>1, <2>2, <3>1, AfterKept
    <3>3. Effect(EraseOf(b)) BY <1>2, <2>5 DEF Erasing
    <3>4. ErasedUpTo(b)' /\ Effect(EraseOf(b))' BY <1>11, <2>2, <3>2, <3>3, ProgressKept
    <3>5. todo' = <<>> BY <1>5, <1>13, <2>5
    <3> QED BY <1>6, <1>10, <1>11, <2>2, <3>1, <3>4, <3>5, ErasedNow, BusyKept
  <2> QED BY <1>3, <1>13, <2>3, <2>4, <2>5
<1>14. CASE k = 7 /\ UNCHANGED chipVars /\ todo' = Rest(s, 8)
            /\ (7 \in BusRead(job.family, s[k].to) <=> s[k].bit)
  <2>1. s[k].bit
    <3>1. 7 \in Erased BY DEF Erased
    <3> QED BY <1>1, <1>14, <3>1, Cycles
  <2>2. busy = Ready
    <3>1. EraseOf(b).op = "erase" /\ EraseOf(b) # Ready BY Kinds DEF EraseOf
    <3>2. busy = EraseOf(b) => BusRead(job.family, s[k].to) = {} BY <3>1 DEF BusRead
    <3> QED BY <1>8, <1>14, <2>1, <3>2
  <2>3. After' = After /\ busy' = Ready /\ mode' = mode /\ locked' = locked /\ cell' = cell
    BY <1>14, <2>2, AfterKept DEF chipVars
  <2>4. Effect(EraseOf(b)) BY <1>2, <1>14 DEF Erasing
  <2>5. ErasedUpTo(b)' /\ Effect(EraseOf(b))' BY <1>11, <2>3, <2>4, ProgressKept
  <2>6. Erasing(b, 8)'
    BY <1>2, <1>3, <1>6, <1>11, <1>14, <2>3, <2>5, JobKept, ScriptsKept DEF Erasing, s
  <2> QED BY <1>10, <1>11, <2>3, <2>5, <2>6, ErasingNow, BusyKept
<1> QED BY <1>3, <1>9, <1>10, <1>12, <1>13, <1>14

LEMMA IntelEraseStep ==
  ASSUME ChipInv, BusyInv, [Next]_vars, ~Checked, job.op \in {"flash", "erase"},
         job.family = "Intel", NEW b \in Blocks, ToErase(b), pc = "erase", at = b + 1,
         ErasedUpTo(b), NEW k \in 1..17, Erasing(b, k)
  PROVE  BlockErased' /\ BusyInv'
<1> DEFINE s == sflash_erase_block(b)
           a == 2 * Base[b]
<1>1. /\ Len(s) = 12 /\ \E S : s \in Seq(S)
      /\ s[1] = W(a, Cmd("50")) /\ s[2] = W(a, Cmd("60")) /\ s[3] = W(a, Cmd("D0"))
      /\ s[4] = W(a, Cmd("70")) /\ s[5] = Poll(a, Erased)
      /\ s[6] = W(a, Cmd("50")) /\ s[7] = W(a, Cmd("20")) /\ s[8] = W(a, Cmd("D0"))
      /\ s[9] = W(a, Cmd("70")) /\ s[10] = Poll(a, Erased)
      /\ s[11] = W(0, Cmd("50")) /\ s[12] = W(0, Cmd("FF"))
  <2>1. IntelErases(s, a) BY IntelEraseScript
  <2> HIDE DEF s, a
  <2> QED BY <2>1 DEF IntelErases
<1> HIDE DEF s
<1>2. /\ EraseCourse = <<"read", "read", "confirmUnlock", "status", "status", "status", "status",
                         "confirmErase", "status", "status", "status", "status">>
      /\ \A j \in 1..17 : (EraseStarted(j) <=> j > 8) /\ (ErasePolled(j) <=> j > 10)
  BY DEF EraseCourse, EraseStarted, ErasePolled
<1>3. k \in 1..12 /\ todo = Rest(s, k) /\ mode = EraseCourse[k] BY <1>2 DEF Erasing, s
<1>4. todo # <<>> /\ Head(todo) = s[k] /\ Tail(todo) = Rest(s, k + 1) BY <1>1, <1>3, Rests
<1>5. Rest(s, 13) = <<>>
  <2>1. Len(s) + 1 = 13 BY <1>1
  <2> QED BY <1>1, <2>1, Whole
<1>6. Parallel /\ ~spi.sending /\ cell \in [Cells -> Half] BY DEF ChipInv, Parallel
<1>7. a \in Cells /\ BlockOf(a) = b BY FirstOf
<1>8. /\ busy = Ready \/ (k \in {9, 10} /\ busy = EraseOf(b))
      /\ k >= 4 => b \notin locked
      /\ k > 8 => Effect(EraseOf(b))
  BY <1>2, <1>3 DEF Erasing
<1>9. s[k].op = IF k \in {5, 10} THEN "poll" ELSE "write" BY <1>1, <1>3, Cycles
<1>10. /\ Stays
       /\ \/ s[k].op = "write" /\ BusWrite(job.family, s[k].to, s[k].value) /\ todo' = Rest(s, k + 1)
          \/ /\ s[k].op = "poll" /\ UNCHANGED chipVars
             /\ \/ 7 \in BusRead(job.family, s[k].to) <=> s[k].bit
                \/ todo' = todo
             /\ todo' = Rest(s, k + 1) \/ todo' = todo
          \/ Complete /\ todo' = todo
          \/ Transfer /\ todo' = todo
          \/ UNCHANGED <<chipVars, todo>>
  BY <1>4, <1>9, Moves
<1>11. job' = job BY <1>10 DEF Stays
<1>12. CASE \/ Complete /\ todo' = todo
            \/ Transfer /\ todo' = todo
            \/ UNCHANGED <<chipVars, todo>>
  BY <1>10, <1>12, ErasingKept
(* The next cycle of the same routine. *)
<1>13. ASSUME k < 12, todo' = Rest(s, k + 1), mode' = EraseCourse[k + 1], spi' = spi,
              locked' \subseteq locked, k + 1 >= 4 => b \notin locked',
              \/ busy' = Ready /\ k # 8
              \/ busy' = busy /\ k = 9
              \/ busy' = EraseOf(b) /\ k = 8 /\ busy = Ready,
              cell' = cell, k # 8 => After' = After
       PROVE  BlockErased' /\ BusyInv'
  <2>1. ErasedUpTo(b)' /\ (k + 1 > 8 => Effect(EraseOf(b))')
    <3>1. CASE k = 8 BY <1>6, <1>8, <1>11, <1>13, <3>1, EraseBegun
    <3>2. CASE k # 8 BY <1>3, <1>8, <1>11, <1>13, <3>2, ProgressKept
    <3> QED BY <3>1, <3>2
  <2>2. k + 1 \in 1..12 /\ k + 1 \in 1..17 BY <1>3, <1>13
  <2>3. Erasing(b, k + 1)'
    BY <1>2, <1>3, <1>6, <1>8, <1>11, <1>13, <2>1, <2>2, JobKept, ScriptsKept DEF Erasing, s
  <2>4. BusyInv' BY <1>11, <1>13, BusyKept, EraseBusy
  <2> QED BY <1>10, <2>1, <2>2, <2>3, <2>4, ErasingNow
<1>14. CASE k \notin {5, 10} /\ BusWrite(job.family, s[k].to, s[k].value) /\ todo' = Rest(s, k + 1)
  <2>1. CASE busy # Ready
    <3>1. UNCHANGED chipVars /\ k = 9 BY <1>8, <1>14, <2>1 DEF BusWrite
    <3>2. /\ cell' = cell /\ spi' = spi /\ locked' = locked /\ mode' = mode /\ busy' = busy
          /\ After' = After
      BY <3>1, AfterKept DEF chipVars
    <3>3. mode' = EraseCourse[k + 1] BY <1>2, <1>3, <3>1, <3>2
    <3> QED BY <1>8, <1>13, <1>14, <3>1, <3>2, <3>3
  <2>2. CASE busy = Ready
    <3>1. /\ cell' = cell /\ spi' = spi
          /\ mode' = IntelNext(s[k].to, s[k].value) /\ busy' = IntelStarts(s[k].to, s[k].value)
          /\ locked' = IF mode = "confirmUnlock" /\ s[k].value.cmd = "D0"
                       THEN locked \ {BlockOf(s[k].to)} ELSE locked
      BY <1>6, <1>14, <2>2, Wires
    <3>2. busy' = Ready => After' = After BY <2>2, <3>1, AfterKept
    <3>3. CASE k \in {1, 2, 4, 6, 7, 9, 11}
      <4>1. mode \in {"read", "status"} BY <1>2, <1>3, <3>3
      <4>2. busy' = Ready BY <3>1, <4>1, IntelDecodes
      <4>3. mode' = EraseCourse[k + 1]
        <5>1. CASE k \in {1, 6, 11}
          <6>1. s[k].value.cmd = "50" BY <1>1, <5>1, Cycles
          <6>2. mode' = mode BY <3>1, <4>1, <6>1, IntelDecodes
          <6> QED BY <1>2, <1>3, <5>1, <6>2
        <5>2. CASE k \in {4, 9}
          <6>1. s[k].value = Cmd("70") BY <1>1, <5>2, Cycles
          <6>2. mode' = "status" BY <3>1, <4>1, <6>1, IntelDecodes
          <6> QED BY <1>2, <5>2, <6>2
        <5>3. CASE k = 2 BY <1>1, <1>2, <3>1, <4>1, <5>3, Cycles, IntelDecodes
        <5>4. CASE k = 7 BY <1>1, <1>2, <3>1, <4>1, <5>4, Cycles, IntelDecodes
        <5> QED BY <3>3, <5>1, <5>2, <5>3, <5>4
      <4>4. locked' = locked BY <3>1, <4>1
      <4> QED BY <1>3, <1>8, <1>13, <1>14, <3>1, <3>2, <3>3, <4>2, <4>3, <4>4
    <3>4. CASE k = 3
      <4>1. mode = "confirmUnlock" BY <1>2, <1>3, <3>4
      <4>2. busy' = Ready /\ mode' = EraseCourse[k + 1] BY <1>2, <3>1, <3>4, <4>1, IntelDecodes
      <4>3. locked' = locked \ {b} BY <1>1, <1>7, <3>1, <3>4, <4>1, Cycles
      <4> QED BY <1>13, <1>14, <3>1, <3>2, <3>4, <4>2, <4>3
    <3>5. CASE k = 8
      <4>1. mode = "confirmErase" BY <1>2, <1>3, <3>5
      <4>2. busy' = EraseOf(b) /\ mode' = EraseCourse[k + 1]
        BY <1>1, <1>2, <3>1, <3>5, <4>1, Cycles, IntelDecodes DEF EraseOf
      <4>3. locked' = locked BY <3>1, <4>1
      <4> QED BY <1>8, <1>13, <1>14, <2>2, <3>1, <3>5, <4>2, <4>3
    <3>6. CASE k = 12
      <4>1. mode \in {"read", "status"} BY <1>2, <1>3, <3>6
      <4>2. busy' = Ready /\ mode' = "read" /\ locked' = locked
        BY <1>1, <3>1, <3>6, <4>1, Cycles, IntelDecodes
      <4>3. ErasedUpTo(b)' /\ Effect(EraseOf(b))' BY <1>8, <1>11, <3>2, <3>6, <4>2, ProgressKept
      <4>4. todo' = <<>> BY <1>5, <1>14, <3>6
      <4> QED BY <1>6, <1>8, <1>10, <1>11, <3>1, <3>6, <4>2, <4>3, <4>4, ErasedNow, BusyKept
    <3> QED BY <1>3, <1>14, <3>3, <3>4, <3>5, <3>6
  <2> QED BY <2>1, <2>2
<1>15. CASE k \in {5, 10} /\ UNCHANGED chipVars /\ todo' = Rest(s, k + 1)
            /\ (7 \in BusRead(job.family, s[k].to) <=> s[k].bit)
  <2>1. s[k].bit BY <1>1, <1>15, Cycles
  <2>2. busy = Ready
    <3>1. busy # Ready => BusRead(job.family, s[k].to) = {} BY DEF BusRead
    <3> QED BY <1>15, <2>1, <3>1
  <2>3. /\ After' = After /\ busy' = Ready /\ mode' = mode /\ locked' = locked /\ cell' = cell
        /\ spi' = spi
    BY <1>15, <2>2, AfterKept DEF chipVars
  <2>4. mode' = EraseCourse[k + 1] BY <1>2, <1>3, <1>15, <2>3
  <2> QED BY <1>8, <1>13, <1>15, <2>3, <2>4
<1> QED BY <1>3, <1>9, <1>10, <1>12, <1>14, <1>15

-----------------------------------------------------------------------------
(* A word is written, half by half. *)
LEMMA SameSeq ==
  ASSUME NEW S, NEW x \in Seq(S), NEW y \in Seq(S), Len(x) = Len(y),
         \A n \in 1..Len(x) : x[n] = y[n]
  PROVE  x = y
OBVIOUS

LEMMA Wider ==
  ASSUME NEW S, NEW T, S \subseteq T, NEW s \in Seq(S) PROVE s \in Seq(T)
<1>1. Len(s) \in Nat /\ s = [n \in 1..Len(s) |-> s[n]] /\ \A n \in 1..Len(s) : s[n] \in T OBVIOUS
<1>2. [n \in 1..Len(s) |-> s[n]] \in Seq(T) BY <1>1
<1> QED BY <1>1, <1>2

LEMMA Pieces ==
  ASSUME NEW s, NEW q, \E S : s \in Seq(S), \E S : q \in Seq(S), NEW k \in 1..Len(s)
  PROVE  /\ Rest(s, k) \o q # <<>> /\ Head(Rest(s, k) \o q) = s[k]
         /\ Tail(Rest(s, k) \o q) = Rest(s, k + 1) \o q
<1>0. PICK S : s \in Seq(S) /\ q \in Seq(S)
  <2>1. PICK A : s \in Seq(A) OBVIOUS
  <2>2. PICK B : q \in Seq(B) OBVIOUS
  <2>3. s \in Seq(A \cup B) /\ q \in Seq(A \cup B) BY <2>1, <2>2, Wider
  <2> QED BY <2>3
<1>1. Rest(s, k) # <<>> /\ Head(Rest(s, k)) = s[k] /\ Tail(Rest(s, k)) = Rest(s, k + 1)
  BY <1>0, Rests
<1>2. Rest(s, k) \in Seq(S) /\ Rest(s, k + 1) \in Seq(S) BY <1>0 DEF Rest
<1>3. ASSUME NEW r \in Seq(S), r # <<>>
      PROVE  r \o q # <<>> /\ Head(r \o q) = Head(r) /\ Tail(r \o q) = Tail(r) \o q
  <2>1. Len(r) \in Nat \ {0} /\ Len(q) \in Nat BY <1>3
  <2>2. /\ r \o q \in Seq(S) /\ Len(r \o q) = Len(r) + Len(q)
        /\ \A n \in 1..Len(r) + Len(q) : (r \o q)[n] = IF n <= Len(r) THEN r[n] ELSE q[n - Len(r)]
    BY <1>0
  <2>3. r \o q # <<>> BY <2>1, <2>2
  <2>4. Head(r \o q) = Head(r) BY <2>1, <2>2, <2>3
  <2>5. /\ Tail(r) \in Seq(S) /\ Len(Tail(r)) = Len(r) - 1
        /\ \A n \in 1..Len(r) - 1 : Tail(r)[n] = r[n + 1]
    BY <1>3
  <2>6. /\ Tail(r \o q) \in Seq(S) /\ Len(Tail(r \o q)) = Len(r) + Len(q) - 1
        /\ \A n \in 1..Len(r) + Len(q) - 1 : Tail(r \o q)[n] = (r \o q)[n + 1]
    <3> DEFINE p == r \o q
    <3>1. p \in Seq(S) /\ p # <<>> /\ Len(p) = Len(r) + Len(q) BY <2>2, <2>3
    <3> HIDE DEF p
    <3>2. Tail(p) \in Seq(S) /\ Len(Tail(p)) = Len(p) - 1 /\ \A n \in 1..Len(p) - 1 : Tail(p)[n] = p[n + 1]
      BY <3>1
    <3> QED BY <3>1, <3>2 DEF p
  <2>7. /\ Tail(r) \o q \in Seq(S) /\ Len(Tail(r) \o q) = Len(r) - 1 + Len(q)
        /\ \A n \in 1..Len(r) - 1 + Len(q) :
             (Tail(r) \o q)[n] = IF n <= Len(r) - 1 THEN Tail(r)[n] ELSE q[n - (Len(r) - 1)]
    BY <1>0, <2>1, <2>5
  <2>8. ASSUME NEW n \in 1..Len(r) + Len(q) - 1 PROVE Tail(r \o q)[n] = (Tail(r) \o q)[n]
    <3>1. /\ n + 1 \in 1..Len(r) + Len(q) /\ n \in 1..Len(r) - 1 + Len(q)
          /\ (n + 1) - Len(r) = n - (Len(r) - 1) /\ (n + 1 <= Len(r) <=> n <= Len(r) - 1)
      BY <2>1
    <3>2. n <= Len(r) - 1 => n \in 1..Len(r) - 1 BY <2>1
    <3> QED BY <2>2, <2>5, <2>6, <2>7, <3>1, <3>2
  <2>9. Len(r) + Len(q) - 1 = Len(r) - 1 + Len(q) BY <2>1
  <2> DEFINE x == Tail(r \o q)
             y == Tail(r) \o q
  <2>10. x \in Seq(S) /\ y \in Seq(S) /\ Len(x) = Len(y) /\ \A n \in 1..Len(x) : x[n] = y[n]
    BY <2>6, <2>7, <2>8, <2>9
  <2> HIDE DEF x, y
  <2>11. x = y BY <2>10, SameSeq
  <2> QED BY <2>3, <2>4, <2>11 DEF x, y
<1> QED BY <1>1, <1>2, <1>3

LEMMA HalfScript ==
  ASSUME job.op = "flash", Parallel, job \in Jobs, NEW w \in Words, NEW word \in Half \X Half,
         NEW h \in {1, 2}, NEW s, s = WriteHalf(w, word, h), NEW a, a = CellOf(w, h)
  PROVE  /\ \E S : s \in Seq(S)
         /\ Len(s) = Len(HalfCourse)
         /\ job.family = "Intel" =>
              /\ Len(s) = 4 /\ s[1] = W(a, Cmd("50")) /\ s[2] = W(a, Cmd("40"))
              /\ s[3] = W(a, Data(word[h])) /\ s[4] = Poll(a, word[h])
         /\ job.family = "AMD" /\ Bypassed =>
              Len(s) = 2 /\ s[1] = W(Unlock1, Cmd("A0")) /\ s[2] = W(a, Data(word[h]))
         /\ job.family = "SST" \/ (job.family = "AMD" /\ ~Bypassed) =>
              /\ Len(s) = 5 /\ s[1] = W(Unlock1, Cmd("AA")) /\ s[2] = W(Unlock2, Cmd("55"))
              /\ s[3] = W(Unlock1, Cmd("A0")) /\ s[4] = W(a, Data(word[h]))
              /\ s[5] = Poll(2 * w + h - 1, word[h])
<1>1. DataOf(word, h, a) = Data(word[h]) BY DataIs
<1>2. job.family \in {"AMD", "SST", "Intel", "SPI"} BY JobsAssumption
<1>3. CASE job.family = "Intel"
  <2>1. s = <<W(a, Cmd("50")), W(a, Cmd("40")), W(a, Data(word[h])), Poll(a, word[h])>>
    BY <1>1, <1>3 DEF WriteHalf
  <2>2. PICK e1, e2, e3, e4 : /\ e1 = W(a, Cmd("50")) /\ e2 = W(a, Cmd("40"))
                              /\ e3 = W(a, Data(word[h])) /\ e4 = Poll(a, word[h])
    OBVIOUS
  <2>3. s \in Seq({e1, e2, e3, e4}) /\ s = <<e1, e2, e3, e4>> BY <2>1, <2>2
  <2>5. Len(s) = 4 /\ s[1] = e1 /\ s[2] = e2 /\ s[3] = e3 /\ s[4] = e4 BY <2>3
  <2>4. Len(HalfCourse) = 4 BY <1>3 DEF HalfCourse
  <2> QED BY <1>3, <2>2, <2>3, <2>4, <2>5
<1>4. CASE job.family = "AMD" /\ Bypassed
  <2>1. s = <<W(Unlock1, Cmd("A0")), W(a, Data(word[h]))>> BY <1>1, <1>4 DEF WriteHalf, Bypassed
  <2>2. PICK e1, e2 : e1 = W(Unlock1, Cmd("A0")) /\ e2 = W(a, Data(word[h])) OBVIOUS
  <2>3. s \in Seq({e1, e2}) /\ s = <<e1, e2>> BY <2>1, <2>2
  <2>5. Len(s) = 2 /\ s[1] = e1 /\ s[2] = e2 BY <2>3
  <2>4. Len(HalfCourse) = 2 BY <1>4 DEF HalfCourse
  <2> QED BY <1>4, <2>2, <2>3, <2>4, <2>5
<1>5. CASE job.family = "SST" \/ (job.family = "AMD" /\ ~Bypassed)
  <2>1. s = <<W(Unlock1, Cmd("AA")), W(Unlock2, Cmd("55"))>>
            \o <<W(Unlock1, Cmd("A0")), W(a, Data(word[h])), Poll(2 * w + h - 1, word[h])>>
    BY <1>1, <1>5 DEF WriteHalf, Unlock, Bypassed
  <2>2. PICK e1, e2, e3, e4, e5 :
          /\ e1 = W(Unlock1, Cmd("AA")) /\ e2 = W(Unlock2, Cmd("55")) /\ e3 = W(Unlock1, Cmd("A0"))
          /\ e4 = W(a, Data(word[h])) /\ e5 = Poll(2 * w + h - 1, word[h])
    OBVIOUS
  <2>3. s = <<e1, e2>> \o <<e3, e4, e5>> BY <2>1, <2>2
  <2> DEFINE S == {e1, e2, e3, e4, e5}
  <2>4. e1 \in S /\ e2 \in S /\ e3 \in S /\ e4 \in S /\ e5 \in S OBVIOUS
  <2> HIDE DEF S
  <2>5. /\ s \in Seq(S) /\ Len(s) = 5 /\ s[1] = e1 /\ s[2] = e2 /\ s[3] = e3 /\ s[4] = e4 /\ s[5] = e5
    BY <2>3, <2>4
  <2>6. Len(HalfCourse) = 5 BY <1>5 DEF HalfCourse
  <2> QED BY <1>5, <2>2, <2>5, <2>6
<1> QED BY <1>2, <1>3, <1>4, <1>5 DEF Parallel

WordLoaded == InLoad \/ AtLoad
(* What is known of the job while word w of the area is in work.              *)
Loads(w, word) ==
  /\ job.op = "flash" /\ pc = "load" /\ at = w + 1 /\ w \in Words /\ InArea(w)
  /\ word \in AreaWord(w) /\ word \in Half \X Half
  /\ Careful => Open /\ Clean(w + 1) /\ Written(w)

LEMMA LoadsKept ==
  ASSUME Stays, After' = After, locked' = locked, NEW w, NEW word, Loads(w, word)
  PROVE  Loads(w, word)'
<1>1. job' = job /\ pc' = pc /\ at' = at BY DEF Stays
<1>2. (Careful => Open /\ Clean(w + 1) /\ Written(w))'
  BY <1>1, JobKept, ProgressKept DEF Loads
<1> QED BY <1>1, <1>2, JobKept DEF Loads

(* The job's bounds, in which the word lies.                                  *)
LEMMA AreaBounds ==
  ASSUME job \in Jobs, NEW w \in Words, InArea(w)
  PROVE  /\ w \in Nat /\ w + 1 \in job.start + 1..job.start + job.length
         /\ w \in job.start..job.start + job.length
<1>1. w \in Nat BY Total
<1> DEFINE s == job.start
           l == job.length
<1>2. s \in Nat
  <2>1. s \in Words BY JobsAssumption
  <2> QED BY <2>1, Total
<1>3. l \in Nat BY JobsAssumption
<1>4. s <= w /\ w < s + l BY DEF InArea
<1> HIDE DEF s, l
<1>5. w + 1 \in s + 1..s + l /\ w \in s..s + l BY <1>1, <1>2, <1>3, <1>4
<1> QED BY <1>1, <1>5 DEF s, l

LEMMA WritingNow ==
  ASSUME job \in Jobs, Stays, NEW w, NEW word, Loads(w, word), Loads(w, word)', NEW h \in {1, 2},
         NEW j \in 1..5, Writing(w, word, h, j)'
  PROVE  WordLoaded'
<1>1. job' = job /\ pc' = pc /\ at' = at /\ at = w + 1 /\ w \in Words /\ InArea(w)
  BY DEF Stays, Loads
<1>2. w \in Nat /\ w + 1 \in job.start + 1..job.start + job.length BY <1>1, AreaBounds
<1>3. at' - 1 = w BY <1>1, <1>2
<1>4. InLoad' BY <1>1, <1>2, <1>3 DEF InLoad, Loads
<1> QED BY <1>4 DEF WordLoaded

LEMMA LoadedNow ==
  ASSUME job \in Jobs, Stays, NEW w, NEW word, Loads(w, word), Loads(w, word)',
         (Careful => Written(w + 1))', todo' = <<>>, Settled'
  PROVE  WordLoaded'
<1>1. job' = job /\ pc' = pc /\ at' = at /\ at = w + 1 /\ w \in Words /\ InArea(w)
  BY DEF Stays, Loads
<1> DEFINE s == job.start
           l == job.length
<1>2. s \in Nat
  <2>1. s \in Words BY JobsAssumption
  <2> QED BY <2>1, Total
<1>3. l \in Nat BY JobsAssumption
<1>4. w + 1 \in s + 1..s + l /\ w \in Nat BY <1>1, AreaBounds
<1>5. w + 1 \in s..s + l
  <2> HIDE DEF s, l
  <2> QED BY <1>2, <1>3, <1>4
<1>6. AtLoad' BY <1>1, <1>5 DEF AtLoad, Loads
<1> QED BY <1>6 DEF WordLoaded

LEMMA WritingKept ==
  ASSUME ChipInv, BusyInv, Stays, NEW w, NEW word, Loads(w, word), NEW h \in {1, 2}, NEW j \in 1..5,
         Writing(w, word, h, j),
         \/ Complete /\ todo' = todo
         \/ Transfer /\ todo' = todo
         \/ UNCHANGED <<chipVars, todo>>
  PROVE  WordLoaded' /\ BusyInv'
<1>1. /\ cell \in [Cells -> Half] /\ SpiShape(spi) /\ ~spi.sending /\ job' = job /\ job \in Jobs
  BY DEF ChipInv, Writing, Parallel, Stays
<1>2. HalfOf(w, word, h)' = HalfOf(w, word, h) BY <1>1, JobKept DEF HalfOf
<1>3. CASE Complete /\ todo' = todo
  <2>1. After' = After /\ busy' = Ready /\ busy # Ready /\ mode' = mode /\ locked' = locked
    BY <1>1, <1>3, Completes
  <2>2. Loads(w, word)' BY <2>1, LoadsKept
  <2>3. \A n : Halves(w, word, n)' = Halves(w, word, n) BY <1>1, <2>1, ProgressKept
  <2>4. Writing(w, word, h, j)' BY <1>1, <1>3, <2>1, <2>3, JobKept, ScriptsKept DEF Writing, Unpolled
  <2> QED BY <1>1, <2>1, <2>2, <2>4, WritingNow, BusyKept
<1>4. CASE Transfer /\ todo' = todo BY <1>1, <1>4 DEF Transfer
<1>5. CASE UNCHANGED <<chipVars, todo>>
  <2>1. After' = After /\ busy' = busy /\ mode' = mode /\ locked' = locked /\ cell' = cell
    BY <1>5, AfterKept DEF chipVars
  <2>2. Loads(w, word)' BY <2>1, LoadsKept
  <2>3. \A n : Halves(w, word, n)' = Halves(w, word, n) BY <1>1, <2>1, ProgressKept
  <2>4. Writing(w, word, h, j)' BY <1>1, <1>2, <1>5, <2>1, <2>3, JobKept, ScriptsKept DEF Writing, Unpolled
  <2> QED BY <1>1, <2>1, <2>2, <2>4, WritingNow, BusyKept
<1> QED BY <1>3, <1>4, <1>5

LEMMA HalfCourses ==
  ASSUME job \in Jobs, Parallel
  PROVE  /\ Len(HalfCourse) \in {2, 4, 5} /\ DOMAIN HalfCourse = 1..Len(HalfCourse)
         /\ ~HalfStarted(1)
         /\ HalfCourse[1] = CASE job.family = "Intel" -> {"read", "status", "confirmErase"}
                              [] job.family \in {"AMD", "SST"} /\ Bypassed -> {"bypass"}
                              [] OTHER -> {"read"}
<1>1. job.family \in {"AMD", "SST", "Intel"} BY JobsAssumption DEF Parallel
<1>2. ~HalfStarted(1) BY DEF HalfStarted
<1>3. CASE job.family = "Intel"
  <2>1. HalfCourse = <<{"read", "status", "confirmErase"}, {"read", "status"}, {"program"}, {"status"}>>
    BY <1>3 DEF HalfCourse
  <2> QED BY <1>2, <1>3, <2>1
<1>4. CASE job.family = "AMD" /\ Bypassed
  <2>1. HalfCourse = <<{"bypass"}, {"bypassProgram"}>> BY <1>4 DEF HalfCourse
  <2> QED BY <1>2, <1>4, <2>1
<1>5. CASE job.family = "SST" /\ Bypassed
  <2>1. HalfCourse = <<{"bypass"}, {"bypass"}, {"bypass"}, {"bypassProgram"}, {"bypass"}>>
    BY <1>5 DEF HalfCourse
  <2> QED BY <1>2, <1>5, <2>1
<1>6. CASE job.family # "Intel" /\ ~Bypassed
  <2>1. HalfCourse = <<{"read"}, {"unlock1"}, {"unlock2"}, {"program"}, {"read"}>>
    BY <1>6 DEF HalfCourse
  <2> QED BY <1>2, <1>6, <2>1
<1> QED BY <1>1, <1>3, <1>4, <1>5, <1>6

(* One cycle of a half is over: the next one, or the first of the other half, *)
(* finds the decoder as it should be.                                         *)
Remains(w, word, h, j) ==
  Rest(WriteHalf(w, word, h), j) \o (IF h = 1 THEN WriteHalf(w, word, 2) ELSE <<>>)
HalfTurn(w, word, h, j) ==
  /\ cell' = cell /\ spi' = spi /\ locked' = locked
  /\ todo' = Remains(w, word, h, j + 1)
  /\ mode' \in HalfCourse[IF j = Len(HalfCourse) THEN 1 ELSE j + 1]
  /\ \/ /\ busy' = Ready
        /\ IF j = Len(HalfCourse) THEN HalfStarted(j) ELSE HalfStarted(j + 1) <=> HalfStarted(j)
     \/ /\ busy' = HalfOf(w, word, h) /\ ~HalfStarted(j)
        /\ IF j = Len(HalfCourse) THEN Waits ELSE HalfStarted(j + 1)

LEMMA HalfOn ==
  ASSUME ChipInv, BusyInv, Parallel, Stays, NEW w, NEW word, Loads(w, word), NEW h \in {1, 2},
         NEW j \in 1..5, Writing(w, word, h, j), busy = Ready,
         HalfTurn(w, word, h, j)
  PROVE  WordLoaded' /\ BusyInv'
<1>1. /\ job' = job /\ job \in Jobs /\ cell \in [Cells -> Half] /\ ~spi.sending
      /\ w \in Words /\ InArea(w) /\ word \in Half \X Half /\ job.op = "flash"
  BY DEF ChipInv, Parallel, Stays, Loads
<1> DEFINE s == WriteHalf(w, word, h)
           q == IF h = 1 THEN WriteHalf(w, word, 2) ELSE <<>>
           L == Len(HalfCourse)
<1>2. j \in 1..L /\ L \in {2, 4, 5} /\ DOMAIN HalfCourse = 1..L
  BY <1>1, HalfCourses DEF Writing
<1> PICK n : n = IF HalfStarted(j) THEN h ELSE h - 1 OBVIOUS
<1> USE DEF HalfTurn, Remains
<1>3. Halves(w, word, n) BY DEF Writing
<1>4. (\E S : s \in Seq(S)) /\ Len(s) = L BY <1>1, HalfScript
(* What the chip has begun, it has begun on this half.                        *)
<1>5. /\ Loads(w, word)' /\ BusyInv'
      /\ \/ busy' = Ready /\ Halves(w, word, n)'
         \/ busy' = HalfOf(w, word, h) /\ ~HalfStarted(j) /\ Halves(w, word, h)'
  <2>1. CASE busy' = Ready
    <3>1. After' = After BY <2>1, AfterKept
    <3> QED BY <1>1, <1>3, <2>1, <3>1, LoadsKept, ProgressKept, BusyKept
  <2>2. CASE busy' = HalfOf(w, word, h) /\ ~HalfStarted(j)
    <3>1. Halves(w, word, h - 1) BY <1>3, <2>2
    <3>2. Careful => Open /\ Clean(w + 1) /\ Written(w) BY DEF Loads
    <3>3. (Careful => (Open /\ Clean(w + 1) /\ Written(w))') /\ Halves(w, word, h)'
      BY <1>1, <2>2, <3>1, <3>2, HalfBegun
    <3>4. Loads(w, word)' BY <1>1, <3>3, JobKept DEF Loads, Stays
    <3>5. BusyInv' BY <1>1, <2>2, <3>1, HalfBusy
    <3> QED BY <2>2, <3>3, <3>4, <3>5
  <2> QED BY <2>1, <2>2
<1>6. HalfOf(w, word, h)' = HalfOf(w, word, h) /\ HalfOf(w, word, h) # Ready
  BY <1>1, JobKept, Kinds DEF HalfOf
<1>7. Parallel' BY <1>1, JobKept
<1>8. CASE j # L
  <2>1. j + 1 \in 1..5 /\ j + 1 \in 1..L BY <1>2, <1>8
  <2>2. /\ mode' \in HalfCourse[j + 1] /\ todo' = Rest(s, j + 1) \o q
        /\ (HalfStarted(j + 1) <=> HalfStarted(j)) \/ (~HalfStarted(j) /\ HalfStarted(j + 1))
    BY <1>8
  <2>3. Halves(w, word, IF HalfStarted(j + 1) THEN h ELSE h - 1)'
    <3>1. HalfStarted(j + 1)' = HalfStarted(j + 1) BY <1>1, ScriptsKept
    <3>2. CASE HalfStarted(j + 1)
      <4>1. Halves(w, word, h)' BY <1>5, <1>6, <1>8, <3>2
      <4> QED BY <3>1, <3>2, <4>1
    <3>3. CASE ~HalfStarted(j + 1)
      <4>1. Halves(w, word, h - 1)' BY <1>5, <1>6, <1>8, <3>3
      <4> QED BY <3>1, <3>3, <4>1
    <3> QED BY <3>2, <3>3
  <2>4. busy' = Ready \/ (HalfStarted(j + 1) /\ busy' = HalfOf(w, word, h)) BY <1>5, <1>8
  <2>5. Writing(w, word, h, j + 1)'
    BY <1>1, <1>2, <1>6, <1>7, <2>1, <2>2, <2>3, <2>4, JobKept, ScriptsKept DEF Writing
  <2> QED BY <1>1, <1>5, <2>1, <2>5, WritingNow
<1>9. CASE j = L
  <2>1. Rest(s, j + 1) = <<>> BY <1>4, <1>9, Whole
  <2>2. Halves(w, word, h)' /\ (busy' = Ready \/ Unpolled') /\ mode' \in HalfCourse[1]
    <3>1. HalfOf(w, word, h).op = "program" BY Kinds DEF HalfOf
    <3> QED BY <1>1, <1>5, <1>6, <1>9, <3>1, JobKept DEF Unpolled
  <2>3. CASE h = 1
    <3> DEFINE p == WriteHalf(w, word, 2)
    <3>1. \E S : p \in Seq(S) BY <1>1, HalfScript
    <3>2. Rest(p, 1) = p BY <3>1, Whole
    <3>3. todo' = p
      <4>1. <<>> \o p = p BY <3>1
      <4>2. q = p BY <2>3
      <4> HIDE DEF p, q, s
      <4> QED BY <2>1, <4>1, <4>2 DEF q, s
    <3>4. todo' = Rest(p, 1) \o <<>>
      <4>1. p \o <<>> = p BY <3>1
      <4> QED BY <3>2, <3>3, <4>1
    <3>5. Halves(w, word, 1)' BY <2>2, <2>3
    <3>6. 1 \in 1..5 /\ 1 \in 1..L /\ ~HalfStarted(1) /\ ~(2 = 1) /\ 2 - 1 = 1
      BY <1>1, <1>2, HalfCourses
    <3>7. Writing(w, word, 2, 1)'
      <4>1. ~HalfStarted(1)' BY <1>1, <3>6, ScriptsKept
      <4>2. todo' = Rest(WriteHalf(w, word, 2)', 1) \o (IF 2 = 1 THEN WriteHalf(w, word, 2)' ELSE <<>>)
        <5>1. p' = p BY <1>1, ScriptsKept
        <5>2. (IF 2 = 1 THEN p' ELSE <<>>) = <<>> OBVIOUS
        <5> HIDE DEF p
        <5>3. todo' = Rest(p', 1) \o (IF 2 = 1 THEN p' ELSE <<>>) BY <3>4, <5>1, <5>2
        <5> QED BY <5>3 DEF p
      <4>3. 1 \in DOMAIN HalfCourse' /\ mode' \in HalfCourse'[1]
        BY <1>1, <1>2, <2>2, <3>6, ScriptsKept
      <4>4. busy' = Ready \/ (Unpolled' /\ 1 = 1) BY <2>2
      <4>5. Halves(w, word, IF HalfStarted(1) THEN 2 ELSE 2 - 1)' BY <3>5, <3>6, <4>1
      <4> QED BY <1>7, <4>2, <4>3, <4>4, <4>5 DEF Writing
    <3> QED BY <1>1, <1>5, <3>7, WritingNow
  <2>4. CASE h = 2
    <3>1. todo' = <<>>
      <4>1. q = <<>> BY <2>4
      <4> HIDE DEF q, s
      <4> QED BY <2>1, <4>1 DEF q, s
    <3>2. (Careful => Written(w + 1))'
      <4>1. (Careful => Written(w))' /\ word \in AreaWord(w)' BY <1>5 DEF Loads
      <4>2. Halves(w, word, 2)' BY <2>2, <2>4
      <4>3. Careful' => After'[CellOf(w, 1)'] = word[1] /\ After'[CellOf(w, 2)'] = word[2]
        BY <4>2 DEF Halves
      <4>4. \A v \in Words : v < w + 1 => v < w \/ v = w BY <1>1, Total
      <4>5. <<word[1], word[2]>> = word BY <1>1
      <4> QED BY <4>1, <4>3, <4>4, <4>5 DEF Written
    <3>3. Settled'
      <4>1. HalfCourse[1] = CASE job.family = "Intel" -> {"read", "status", "confirmErase"}
                              [] job.family \in {"AMD", "SST"} /\ Bypassed -> {"bypass"}
                              [] OTHER -> {"read"}
        BY <1>1, HalfCourses
      <4>2. Bypassed' <=> Bypassed BY <1>1, JobKept
      <4> QED BY <1>1, <2>2, <4>1, <4>2 DEF Settled
    <3> QED BY <1>1, <1>5, <3>1, <3>2, <3>3, LoadedNow
  <2> QED BY <2>3, <2>4
<1> QED BY <1>8, <1>9

LEMMA HalfMoves ==
  ASSUME ChipInv, BusyInv, [Next]_vars, ~Checked, Parallel, NEW w, NEW word, Loads(w, word),
         NEW h \in {1, 2}, NEW j \in 1..5, Writing(w, word, h, j),
         NEW s, s = WriteHalf(w, word, h), NEW r, r = Remains(w, word, h, j + 1),
         s[j].op \in {"write", "poll"}
  PROVE  /\ Stays
         /\ \/ /\ s[j].op = "write" /\ (job.family = "AMD" /\ job.cl_bypass => busy.op # "program")
               /\ BusWrite(job.family, s[j].to, s[j].value) /\ todo' = r
            \/ /\ s[j].op = "poll" /\ UNCHANGED chipVars /\ todo' = r
               /\ (7 \in BusRead(job.family, s[j].to)) = s[j].bit
            \/ WordLoaded' /\ BusyInv'
<1> DEFINE q == IF h = 1 THEN WriteHalf(w, word, 2) ELSE <<>>
<1>1. /\ job \in Jobs /\ w \in Words /\ InArea(w) /\ word \in Half \X Half /\ job.op = "flash"
  BY DEF ChipInv, Loads
<1>2. (\E S : s \in Seq(S)) /\ Len(s) = Len(HalfCourse) BY <1>1, HalfScript
<1>3. \E S : q \in Seq(S)
  <2>1. \E S : WriteHalf(w, word, 2) \in Seq(S) BY <1>1, HalfScript
  <2>2. <<>> \in Seq({}) OBVIOUS
  <2> QED BY <2>1, <2>2
<1>4. j \in 1..Len(s) /\ todo = Rest(s, j) \o q BY <1>1, <1>2, HalfCourses DEF Writing
<1>5. todo # <<>> /\ Head(todo) = s[j] /\ Tail(todo) = r
  <2> HIDE DEF q
  <2>1. Rest(s, j) \o q # <<>> /\ Head(Rest(s, j) \o q) = s[j]
        /\ Tail(Rest(s, j) \o q) = Rest(s, j + 1) \o q
    BY <1>2, <1>3, <1>4, Pieces
  <2>2. r = Rest(s, j + 1) \o q BY DEF q, Remains
  <2> QED BY <1>4, <2>1, <2>2
<1>6. /\ Stays
      /\ \/ /\ s[j].op = "write" /\ (job.family = "AMD" /\ job.cl_bypass => busy.op # "program")
            /\ BusWrite(job.family, s[j].to, s[j].value) /\ todo' = r
         \/ /\ s[j].op = "poll" /\ UNCHANGED chipVars
            /\ todo' = IF (7 \in BusRead(job.family, s[j].to)) = s[j].bit THEN r ELSE todo
         \/ Complete /\ todo' = todo
         \/ Transfer /\ todo' = todo
         \/ UNCHANGED <<chipVars, todo>>
  BY <1>5, Moves
<1>7. CASE \/ Complete /\ todo' = todo
           \/ Transfer /\ todo' = todo
           \/ UNCHANGED <<chipVars, todo>>
  BY <1>6, <1>7, WritingKept
<1> QED BY <1>6, <1>7

LEMMA IntelHalfStep ==
  ASSUME ChipInv, BusyInv, [Next]_vars, ~Checked, job.family = "Intel", NEW w, NEW word,
         Loads(w, word), NEW h \in {1, 2}, NEW j \in 1..5, Writing(w, word, h, j)
  PROVE  WordLoaded' /\ BusyInv'
<1> PICK s : s = WriteHalf(w, word, h) OBVIOUS
<1> PICK a : a = CellOf(w, h) OBVIOUS
<1> PICK r : r = Remains(w, word, h, j + 1) OBVIOUS
<1>1. /\ job \in Jobs /\ w \in Words /\ InArea(w) /\ word \in Half \X Half /\ job.op = "flash"
      /\ Parallel /\ a \in Cells
  BY Places DEF ChipInv, Loads, Parallel
<1>2. /\ Len(s) = 4 /\ s[1] = W(a, Cmd("50")) /\ s[2] = W(a, Cmd("40"))
      /\ s[3] = W(a, Data(word[h])) /\ s[4] = Poll(a, word[h])
  BY <1>1, HalfScript
<1>3. /\ HalfCourse = <<{"read", "status", "confirmErase"}, {"read", "status"}, {"program"}, {"status"}>>
      /\ Len(HalfCourse) = 4 /\ \A i \in 1..5 : HalfStarted(i) <=> i > 3
  BY DEF HalfCourse, HalfStarted
<1>4. /\ j \in 1..4 /\ mode \in HalfCourse[j]
      /\ busy = Ready \/ (j = 4 /\ busy = HalfOf(w, word, h))
  BY <1>3 DEF Writing, Unpolled, Waits
<1>5. s[j].op = IF j = 4 THEN "poll" ELSE "write" BY <1>2, <1>4, Cycles
<1>6. /\ Stays
      /\ \/ j # 4 /\ BusWrite(job.family, s[j].to, s[j].value) /\ todo' = r
         \/ /\ j = 4 /\ UNCHANGED chipVars /\ todo' = r
            /\ (7 \in BusRead(job.family, s[j].to)) = s[j].bit
         \/ WordLoaded' /\ BusyInv'
  <2>1. s[j].op \in {"write", "poll"} BY <1>5
  <2>2. /\ Stays
        /\ \/ /\ s[j].op = "write" /\ (job.family = "AMD" /\ job.cl_bypass => busy.op # "program")
              /\ BusWrite(job.family, s[j].to, s[j].value) /\ todo' = r
           \/ /\ s[j].op = "poll" /\ UNCHANGED chipVars /\ todo' = r
              /\ (7 \in BusRead(job.family, s[j].to)) = s[j].bit
           \/ WordLoaded' /\ BusyInv'
    BY <1>1, <2>1, HalfMoves
  <2> QED BY <1>4, <1>5, <2>2
<1>7. CASE j # 4 /\ BusWrite(job.family, s[j].to, s[j].value) /\ todo' = r
  <2>1. busy = Ready BY <1>4, <1>7
  <2>2. /\ cell' = cell /\ spi' = spi
        /\ mode' = IntelNext(s[j].to, s[j].value) /\ busy' = IntelStarts(s[j].to, s[j].value)
        /\ locked' = IF mode = "confirmUnlock" /\ s[j].value.cmd = "D0"
                     THEN locked \ {BlockOf(s[j].to)} ELSE locked
    BY <1>1, <1>7, <2>1, Wires
  <2>3. mode # "confirmUnlock" /\ locked' = locked BY <1>3, <1>4, <1>7, <2>2
  <2>4. CASE j = 1
    <3>1. mode \in {"read", "status", "confirmErase"} BY <1>3, <1>4, <2>4
    <3>2. s[j].value.cmd = "50" BY <1>2, <2>4, Cycles
    <3>3. mode' \in {"read", "status"} /\ busy' = Ready
      <4>1. CASE mode \in {"read", "status"} BY <2>2, <3>2, <4>1, IntelDecodes
      <4>2. CASE mode = "confirmErase" BY <2>2, <3>2, <4>2, IntelDecodes
      <4> QED BY <3>1, <4>1, <4>2
    <3>4. HalfTurn(w, word, h, j) BY <1>3, <1>7, <2>2, <2>3, <2>4, <3>3 DEF HalfTurn
    <3> QED BY <1>1, <1>6, <2>1, <3>4, HalfOn
  <2>5. CASE j = 2
    <3>1. mode \in {"read", "status"} BY <1>3, <1>4, <2>5
    <3>2. s[j].value = Cmd("40") BY <1>2, <2>5, Cycles
    <3>3. mode' = "program" /\ busy' = Ready BY <2>2, <3>1, <3>2, IntelDecodes
    <3>4. HalfTurn(w, word, h, j) BY <1>3, <1>7, <2>2, <2>3, <2>5, <3>3 DEF HalfTurn
    <3> QED BY <1>1, <1>6, <2>1, <3>4, HalfOn
  <2>6. CASE j = 3
    <3>1. mode = "program" BY <1>3, <1>4, <2>6
    <3>2. s[j].value = Data(word[h]) /\ s[j].to = a BY <1>2, <2>6, Cycles
    <3>3. mode' = "status" /\ busy' = HalfOf(w, word, h)
      BY <2>2, <3>1, <3>2, IntelDecodes DEF HalfOf
    <3>4. HalfTurn(w, word, h, j) BY <1>3, <1>7, <2>2, <2>3, <2>6, <3>3 DEF HalfTurn
    <3> QED BY <1>1, <1>6, <2>1, <3>4, HalfOn
  <2> QED BY <1>4, <1>7, <2>4, <2>5, <2>6
<1>8. CASE j = 4 /\ UNCHANGED chipVars /\ todo' = r
           /\ (7 \in BusRead(job.family, s[j].to)) = s[j].bit
  <2>1. s[j].bit BY <1>2, <1>8, Cycles
  <2>2. busy = Ready
    <3>1. busy # Ready => BusRead(job.family, s[j].to) = {} BY DEF BusRead
    <3> QED BY <1>8, <2>1, <3>1
  <2>3. /\ cell' = cell /\ spi' = spi /\ locked' = locked /\ mode' = mode /\ busy' = Ready
    BY <1>8, <2>2 DEF chipVars
  <2>4. HalfTurn(w, word, h, j) BY <1>3, <1>4, <1>8, <2>3 DEF HalfTurn
  <2> QED BY <1>1, <1>6, <2>2, <2>4, HalfOn
<1> QED BY <1>6, <1>7, <1>8

LEMMA AmdHalfStep ==
  ASSUME ChipInv, BusyInv, [Next]_vars, ~Checked,
         job.family = "SST" \/ (job.family = "AMD" /\ ~Bypassed), NEW w, NEW word,
         Loads(w, word), NEW h \in {1, 2}, NEW j \in 1..5, Writing(w, word, h, j)
  PROVE  WordLoaded' /\ BusyInv'
<1> PICK s : s = WriteHalf(w, word, h) OBVIOUS
<1> PICK a : a = CellOf(w, h) OBVIOUS
<1> PICK r : r = Remains(w, word, h, j + 1) OBVIOUS
<1> PICK e : e = IF job.family = "SST" THEN "50" ELSE "30" OBVIOUS
<1>1. /\ job \in Jobs /\ w \in Words /\ InArea(w) /\ word \in Half \X Half /\ job.op = "flash"
      /\ Parallel /\ a \in Cells
  BY Places DEF ChipInv, Loads, Parallel
<1>2. /\ Len(s) = 5 /\ s[1] = W(Unlock1, Cmd("AA")) /\ s[2] = W(Unlock2, Cmd("55"))
      /\ s[3] = W(Unlock1, Cmd("A0")) /\ s[4] = W(a, Data(word[h]))
      /\ s[5] = Poll(2 * w + h - 1, word[h])
  BY <1>1, HalfScript
<1>3. /\ Bypassed => HalfCourse = <<{"bypass"}, {"bypass"}, {"bypass"}, {"bypassProgram"}, {"bypass"}>>
      /\ ~Bypassed => HalfCourse = <<{"read"}, {"unlock1"}, {"unlock2"}, {"program"}, {"read"}>>
      /\ Len(HalfCourse) = 5 /\ \A i \in 1..6 : HalfStarted(i) <=> i > 4
  <2>1. \A i \in 1..6 : HalfStarted(i) <=> i > 4 BY DEF HalfStarted
  <2>2. CASE Bypassed
    <3>1. HalfCourse = <<{"bypass"}, {"bypass"}, {"bypass"}, {"bypassProgram"}, {"bypass"}>>
      BY <2>2 DEF HalfCourse
    <3> QED BY <2>1, <2>2, <3>1
  <2>3. CASE ~Bypassed
    <3>1. HalfCourse = <<{"read"}, {"unlock1"}, {"unlock2"}, {"program"}, {"read"}>>
      BY <2>3 DEF HalfCourse
    <3> QED BY <2>1, <2>3, <3>1
  <2> QED BY <2>2, <2>3
<1>4. /\ mode \in HalfCourse[j]
      /\ busy = Ready \/ (j = 5 /\ busy = HalfOf(w, word, h))
  BY <1>3 DEF Writing, Unpolled, Waits
<1>5. s[j].op = IF j = 5 THEN "poll" ELSE "write" BY <1>2, <1>4, Cycles
<1>6. /\ Stays
      /\ \/ j # 5 /\ BusWrite(job.family, s[j].to, s[j].value) /\ todo' = r
         \/ /\ j = 5 /\ UNCHANGED chipVars /\ todo' = r
            /\ (7 \in BusRead(job.family, s[j].to)) = s[j].bit
         \/ WordLoaded' /\ BusyInv'
  <2>1. s[j].op \in {"write", "poll"} BY <1>5
  <2>2. /\ Stays
        /\ \/ /\ s[j].op = "write" /\ (job.family = "AMD" /\ job.cl_bypass => busy.op # "program")
              /\ BusWrite(job.family, s[j].to, s[j].value) /\ todo' = r
           \/ /\ s[j].op = "poll" /\ UNCHANGED chipVars /\ todo' = r
              /\ (7 \in BusRead(job.family, s[j].to)) = s[j].bit
           \/ WordLoaded' /\ BusyInv'
    BY <1>1, <2>1, HalfMoves
  <2> QED BY <1>4, <1>5, <2>2
<1>7. CASE j # 5 /\ BusWrite(job.family, s[j].to, s[j].value) /\ todo' = r
  <2>1. busy = Ready BY <1>4, <1>7
  <2>2. /\ cell' = cell /\ spi' = spi /\ locked' = locked
        /\ mode' = AmdNext(s[j].to, s[j].value, e) /\ busy' = AmdStarts(s[j].to, s[j].value, e)
    BY <1>1, <1>7, <2>1, Wires
  <2>3. mode' \in HalfCourse[j + 1] /\ busy' = IF j = 4 THEN HalfOf(w, word, h) ELSE Ready
    <3>1. CASE Bypassed
      <4>1. mode = IF j = 4 THEN "bypassProgram" ELSE "bypass" BY <1>3, <1>4, <1>7, <3>1
      <4>2. CASE j \in {1, 2}
        <5>1. s[j].value.cmd # "A0" BY <1>2, <4>2, Cycles
        <5>2. mode' = "bypass" /\ busy' = Ready BY <1>1, <2>2, <4>1, <4>2, <5>1, AmdBegins
        <5> QED BY <1>3, <3>1, <4>2, <5>2
      <4>3. CASE j = 3
        <5>1. s[j].value.cmd = "A0" BY <1>2, <4>3, Cycles
        <5>2. mode' = "bypassProgram" /\ busy' = Ready BY <1>1, <2>2, <4>1, <4>3, <5>1, AmdBegins
        <5> QED BY <1>3, <3>1, <4>3, <5>2
      <4>4. CASE j = 4
        <5>1. s[j].value = Data(word[h]) /\ s[j].to = a BY <1>2, <4>4, Cycles
        <5>2. mode' = "bypass" /\ busy' = HalfOf(w, word, h)
          BY <1>1, <2>2, <4>1, <4>4, <5>1, AmdBegins DEF HalfOf
        <5> QED BY <1>3, <3>1, <4>4, <5>2
      <4> QED BY <1>7, <4>2, <4>3, <4>4
    <3>2. CASE ~Bypassed
      <4>1. mode = <<"read", "unlock1", "unlock2", "program", "read">>[j]
        BY <1>3, <1>4, <3>2
      <4>2. CASE j = 1
        <5>1. mode' = "unlock1" /\ busy' = Ready BY <1>2, <2>2, <4>1, <4>2, Cycles, AmdDecodes
        <5> QED BY <1>3, <3>2, <4>2, <5>1
      <4>3. CASE j = 2
        <5>1. mode' = "unlock2" /\ busy' = Ready BY <1>2, <2>2, <4>1, <4>3, Cycles, AmdDecodes
        <5> QED BY <1>3, <3>2, <4>3, <5>1
      <4>4. CASE j = 3
        <5>1. mode' = "program" /\ busy' = Ready BY <1>2, <2>2, <4>1, <4>4, Cycles, AmdDecodes
        <5> QED BY <1>3, <3>2, <4>4, <5>1
      <4>5. CASE j = 4
        <5>1. s[j].value = Data(word[h]) /\ s[j].to = a BY <1>2, <4>5, Cycles
        <5>2. mode' = "read" /\ busy' = HalfOf(w, word, h)
          BY <1>1, <2>2, <4>1, <4>5, <5>1, AmdBegins DEF HalfOf
        <5> QED BY <1>3, <3>2, <4>5, <5>2
      <4> QED BY <1>7, <4>2, <4>3, <4>4, <4>5
    <3> QED BY <3>1, <3>2
  <2>4. HalfTurn(w, word, h, j) BY <1>3, <1>7, <2>2, <2>3 DEF HalfTurn
  <2> QED BY <1>1, <1>6, <2>1, <2>4, HalfOn
<1>8. CASE j = 5 /\ UNCHANGED chipVars /\ todo' = r
           /\ (7 \in BusRead(job.family, s[j].to)) = s[j].bit
  <2>1. s[j].bit <=> 7 \in word[h] BY <1>2, <1>8, Cycles
  <2>2. busy = Ready
    <3>1. /\ HalfOf(w, word, h).op = "program" /\ HalfOf(w, word, h) # Ready
          /\ HalfOf(w, word, h).halves[1] = word[h]
      BY Kinds DEF HalfOf
    <3>2. busy = HalfOf(w, word, h) =>
            BusRead(job.family, s[j].to) = IF 7 \in word[h] THEN {} ELSE {7}
      BY <3>1 DEF BusRead
    <3> QED BY <1>4, <1>8, <2>1, <3>2
  <2>3. /\ cell' = cell /\ spi' = spi /\ locked' = locked /\ mode' = mode /\ busy' = Ready
    BY <1>8, <2>2 DEF chipVars
  <2>4. HalfTurn(w, word, h, j)
    <3>1. HalfCourse[5] = HalfCourse[1]
      <4>1. CASE Bypassed BY <1>3, <4>1
      <4>2. CASE ~Bypassed BY <1>3, <4>2
      <4> QED BY <4>1, <4>2
    <3> QED BY <1>3, <1>4, <1>8, <2>3, <3>1 DEF HalfTurn
  <2> QED BY <1>1, <1>6, <2>2, <2>4, HalfOn
<1> QED BY <1>6, <1>7, <1>8

LEMMA BypassHalfStep ==
  ASSUME ChipInv, BusyInv, [Next]_vars, ~Checked, job.family = "AMD", Bypassed, NEW w, NEW word,
         Loads(w, word), NEW h \in {1, 2}, NEW j \in 1..5, Writing(w, word, h, j)
  PROVE  WordLoaded' /\ BusyInv'
<1> PICK s : s = WriteHalf(w, word, h) OBVIOUS
<1> PICK a : a = CellOf(w, h) OBVIOUS
<1> PICK r : r = Remains(w, word, h, j + 1) OBVIOUS
<1>1. /\ job \in Jobs /\ w \in Words /\ InArea(w) /\ word \in Half \X Half /\ job.op = "flash"
      /\ Parallel /\ a \in Cells
  BY Places DEF ChipInv, Loads, Parallel
<1>2. Len(s) = 2 /\ s[1] = W(Unlock1, Cmd("A0")) /\ s[2] = W(a, Data(word[h])) BY <1>1, HalfScript
<1>3. /\ HalfCourse = <<{"bypass"}, {"bypassProgram"}>> /\ Len(HalfCourse) = 2 /\ Waits
      /\ \A i \in 1..3 : ~HalfStarted(i)
  <2>1. \A i \in 1..3 : ~HalfStarted(i) BY DEF HalfStarted
  <2>2. HalfCourse = <<{"bypass"}, {"bypassProgram"}>> BY DEF HalfCourse
  <2> QED BY <2>1, <2>2 DEF Waits
<1>4. j \in {1, 2} /\ mode \in HalfCourse[j] BY <1>3 DEF Writing
<1>5. s[j].op = "write" BY <1>2, <1>4, Cycles
<1>6. /\ Stays
      /\ \/ BusWrite(job.family, s[j].to, s[j].value) /\ todo' = r /\ busy = Ready
         \/ WordLoaded' /\ BusyInv'
  <2>1. s[j].op \in {"write", "poll"} BY <1>5
  <2>2. /\ Stays
        /\ \/ /\ s[j].op = "write" /\ (job.family = "AMD" /\ job.cl_bypass => busy.op # "program")
              /\ BusWrite(job.family, s[j].to, s[j].value) /\ todo' = r
           \/ /\ s[j].op = "poll" /\ UNCHANGED chipVars /\ todo' = r
              /\ (7 \in BusRead(job.family, s[j].to)) = s[j].bit
           \/ WordLoaded' /\ BusyInv'
    BY <1>1, <2>1, HalfMoves
  <2>3. busy.op # "program" => busy = Ready BY <1>3, <1>4 DEF Writing, Unpolled
  <2> QED BY <1>5, <2>2, <2>3 DEF Bypassed
<1>7. CASE BusWrite(job.family, s[j].to, s[j].value) /\ todo' = r /\ busy = Ready
  <2>1. /\ cell' = cell /\ spi' = spi /\ locked' = locked
        /\ mode' = AmdNext(s[j].to, s[j].value, "30") /\ busy' = AmdStarts(s[j].to, s[j].value, "30")
    BY <1>1, <1>7, Wires
  <2>2. CASE j = 1
    <3>1. mode = "bypass" /\ s[j].value.cmd = "A0" BY <1>2, <1>3, <1>4, <2>2, Cycles
    <3>2. mode' = "bypassProgram" /\ busy' = Ready BY <1>1, <2>1, <3>1, AmdBegins
    <3>3. HalfTurn(w, word, h, j) BY <1>3, <1>7, <2>1, <2>2, <3>2 DEF HalfTurn
    <3> QED BY <1>1, <1>6, <1>7, <3>3, HalfOn
  <2>3. CASE j = 2
    <3>1. mode = "bypassProgram" /\ s[j].value = Data(word[h]) /\ s[j].to = a
      BY <1>2, <1>3, <1>4, <2>3, Cycles
    <3>2. mode' = "bypass" /\ busy' = HalfOf(w, word, h) BY <1>1, <2>1, <3>1, AmdBegins DEF HalfOf
    <3>3. HalfTurn(w, word, h, j) BY <1>3, <1>7, <2>1, <2>3, <3>2 DEF HalfTurn
    <3> QED BY <1>1, <1>6, <1>7, <3>3, HalfOn
  <2> QED BY <1>4, <2>2, <2>3
<1> QED BY <1>6, <1>7

(* So whatever chip it is, a word being written goes on being written.        *)
LEMMA HalfStep ==
  ASSUME ChipInv, BusyInv, [Next]_vars, ~Checked, NEW w, NEW word, Loads(w, word),
         NEW h \in {1, 2}, NEW j \in 1..5, Writing(w, word, h, j)
  PROVE  WordLoaded' /\ BusyInv'
<1>1. job.family \in {"AMD", "SST", "Intel"} BY JobsAssumption DEF ChipInv, Writing, Parallel
<1> QED BY <1>1, IntelHalfStep, AmdHalfStep, BypassHalfStep

-----------------------------------------------------------------------------
(* The bypass mode is entered, and what begins with nothing to do.            *)
LEMMA BypassScript ==
  /\ \E S : unlock_bypass \in Seq(S)
  /\ Len(unlock_bypass) = 4
  /\ unlock_bypass[1] = W(Unlock1, Cmd("90")) /\ unlock_bypass[2] = W(Unlock1, Cmd("AA"))
  /\ unlock_bypass[3] = W(Unlock2, Cmd("55")) /\ unlock_bypass[4] = W(Unlock1, Cmd("20"))
<1>1. PICK e1, e2, e3, e4 : /\ e1 = W(Unlock1, Cmd("90")) /\ e2 = W(Unlock1, Cmd("AA"))
                            /\ e3 = W(Unlock2, Cmd("55")) /\ e4 = W(Unlock1, Cmd("20"))
  OBVIOUS
<1>2. unlock_bypass = <<e1>> \o <<e2, e3>> \o <<e4>> BY <1>1 DEF unlock_bypass, Unlock
<1> DEFINE S == {e1, e2, e3, e4}
<1>3. e1 \in S /\ e2 \in S /\ e3 \in S /\ e4 \in S OBVIOUS
<1> PICK s : s = unlock_bypass OBVIOUS
<1> HIDE DEF S
<1>4. s \in Seq(S) /\ Len(s) = 4 /\ s[1] = e1 /\ s[2] = e2 /\ s[3] = e3 /\ s[4] = e4
  BY <1>2, <1>3
<1> QED BY <1>1, <1>4

LEMMA BypassStep ==
  ASSUME ChipInv, BusyInv, [Next]_vars, ~Checked, job.op = "flash", InBypass
  PROVE  (InBypass \/ AtLoad)' /\ BusyInv'
<1> PICK s : s = unlock_bypass OBVIOUS
<1> PICK e : e = IF job.family = "SST" THEN "50" ELSE "30" OBVIOUS
<1>1. PICK k \in 1..4 : Entering(k) BY DEF InBypass
<1>2. /\ (\E S : s \in Seq(S)) /\ Len(s) = 4
      /\ s[1] = W(Unlock1, Cmd("90")) /\ s[2] = W(Unlock1, Cmd("AA"))
      /\ s[3] = W(Unlock2, Cmd("55")) /\ s[4] = W(Unlock1, Cmd("20"))
  BY BypassScript
<1>3. /\ todo = Rest(s, k) /\ busy = Ready /\ ~spi.sending
      /\ mode = IF job.family \in {"AMD", "SST"} THEN <<"read", "read", "unlock1", "unlock2">>[k]
                ELSE "read"
  BY <1>1 DEF Entering
<1>4. todo # <<>> /\ Head(todo) = s[k] /\ Tail(todo) = Rest(s, k + 1) BY <1>2, <1>3, Rests
<1>5. Rest(s, 5) = <<>>
  <2>1. Len(s) + 1 = 5 BY <1>2
  <2> QED BY <1>2, <2>1, Whole
<1>6. s[k].op = "write" BY <1>2, Cycles
<1>7. /\ Stays
      /\ \/ BusWrite(job.family, s[k].to, s[k].value) /\ todo' = Rest(s, k + 1)
         \/ Complete /\ todo' = todo
         \/ Transfer /\ todo' = todo
         \/ UNCHANGED <<chipVars, todo>>
  BY <1>4, <1>6, Moves
<1>8. /\ job' = job /\ pc' = "load" /\ at' = job.start /\ Bypassed /\ Bypassed'
      /\ Careful => Open /\ Clean(job.start)
  BY <1>7, JobKept DEF Stays, InBypass
<1>9. job \in Jobs /\ job.family \in {"AMD", "SST", "Intel", "SPI"} BY JobsAssumption DEF ChipInv
<1>10. job.start \in Nat /\ job.length \in Nat /\ job.start \in job.start..job.start + job.length
  <2>1. job.start \in Words BY <1>9, JobsAssumption
  <2>2. job.length \in Nat BY <1>9, JobsAssumption
  <2> DEFINE b == job.start
             l == job.length
  <2>3. b \in Nat /\ l \in Nat BY <2>1, <2>2, Total
  <2> HIDE DEF b, l
  <2>4. b \in b..b + l BY <2>3
  <2> QED BY <2>3, <2>4 DEF b, l
(* Nothing is begun, so what the chip will hold stays.                        *)
<1>11. ASSUME cell' = cell, locked' = locked, busy' = Ready
       PROVE  (Careful => Open /\ Clean(job.start))' /\ BusyInv'
  <2>1. After' = After BY <1>3, <1>11, AfterKept
  <2> QED BY <1>8, <1>11, <2>1, JobKept, ProgressKept, BusyKept
<1>12. CASE Complete \/ Transfer BY <1>3, <1>12 DEF Complete, Transfer
<1>13. CASE UNCHANGED <<chipVars, todo>>
  <2>1. Entering(k)' BY <1>3, <1>8, <1>13, <1>1 DEF chipVars, Entering
  <2>2. (Careful => Open /\ Clean(job.start))' /\ BusyInv' BY <1>3, <1>11, <1>13 DEF chipVars
  <2> QED BY <1>8, <2>1, <2>2 DEF InBypass
<1>14. CASE BusWrite(job.family, s[k].to, s[k].value) /\ todo' = Rest(s, k + 1)
  <2>1. /\ cell' = cell /\ spi' = spi /\ locked' = locked /\ busy' = Ready
        /\ k < 4 => mode' = IF job.family \in {"AMD", "SST"}
                            THEN <<"read", "read", "unlock1", "unlock2">>[k + 1] ELSE "read"
        /\ k = 4 => mode' = CASE job.family = "Intel" -> "confirmErase"
                              [] job.family \in {"AMD", "SST"} -> "bypass"
                              [] OTHER -> "read"
    <3>1. CASE job.family \in {"AMD", "SST"}
      <4>1. /\ cell' = cell /\ spi' = spi /\ locked' = locked
            /\ mode' = AmdNext(s[k].to, s[k].value, e) /\ busy' = AmdStarts(s[k].to, s[k].value, e)
        BY <1>3, <1>14, <3>1, Wires DEF Parallel
      <4>2. CASE k = 1
        <5>1. mode' = "read" /\ busy' = Ready BY <1>2, <1>3, <3>1, <4>1, <4>2, Cycles, AmdDecodes
        <5> QED BY <3>1, <4>1, <4>2, <5>1
      <4>3. CASE k = 2
        <5>1. mode' = "unlock1" /\ busy' = Ready BY <1>2, <1>3, <3>1, <4>1, <4>3, Cycles, AmdDecodes
        <5> QED BY <3>1, <4>1, <4>3, <5>1
      <4>4. CASE k = 3
        <5>1. mode' = "unlock2" /\ busy' = Ready BY <1>2, <1>3, <3>1, <4>1, <4>4, Cycles, AmdDecodes
        <5> QED BY <3>1, <4>1, <4>4, <5>1
      <4>5. CASE k = 4
        <5>1. mode' = "bypass" /\ busy' = Ready BY <1>2, <1>3, <3>1, <4>1, <4>5, Cycles, AmdDecodes
        <5> QED BY <3>1, <4>1, <4>5, <5>1
      <4> QED BY <4>2, <4>3, <4>4, <4>5
    <3>2. CASE job.family = "Intel"
      <4>1. /\ cell' = cell /\ spi' = spi /\ mode = "read"
            /\ mode' = IntelNext(s[k].to, s[k].value) /\ busy' = IntelStarts(s[k].to, s[k].value)
            /\ locked' = IF mode = "confirmUnlock" /\ s[k].value.cmd = "D0"
                         THEN locked \ {BlockOf(s[k].to)} ELSE locked
        BY <1>3, <1>14, <3>2, Wires DEF Parallel
      <4>2. busy' = Ready /\ locked' = locked BY <4>1, IntelDecodes
      <4>3. CASE k # 4
        <5>1. s[k].value.cmd \notin {"40", "20", "60", "70", "FF"} BY <1>2, <4>3, Cycles
        <5>2. mode' = "read" BY <4>1, <5>1, IntelDecodes
        <5> QED BY <3>2, <4>1, <4>2, <4>3, <5>2
      <4>4. CASE k = 4
        <5>1. s[k].value = Cmd("20") BY <1>2, <4>4, Cycles
        <5>2. mode' = "confirmErase" BY <4>1, <5>1, IntelDecodes
        <5> QED BY <3>2, <4>1, <4>2, <4>4, <5>2
      <4> QED BY <4>3, <4>4
    <3>3. CASE job.family = "SPI"
      <4>1. SpiWrite(s[k].to, s[k].value) /\ UNCHANGED <<cell, mode, busy, locked>>
        BY <1>14, <3>3 DEF BusWrite
      <4>2. s[k].to \in {Unlock1, Unlock2} BY <1>2, Cycles
      <4>3. spi' = spi
        BY <4>1, <4>2 DEF SpiWrite, Unlock1, Unlock2, Ctl, Opcode, DataReg
      <4> QED BY <1>3, <3>3, <4>1, <4>3
    <3> QED BY <1>9, <3>1, <3>2, <3>3
  <2>2. (Careful => Open /\ Clean(job.start))' /\ BusyInv' BY <1>11, <2>1
  <2>3. CASE k < 4
    <3>1. k + 1 \in 1..4 BY <2>3
    <3>2. Entering(k + 1)' BY <1>3, <1>8, <1>14, <2>1, <2>3, <3>1 DEF Entering
    <3> QED BY <1>8, <2>2, <3>1, <3>2 DEF InBypass
  <2>4. CASE k = 4
    <3>1. todo' = <<>> BY <1>5, <1>14, <2>4
    <3>2. Settled' BY <1>3, <1>8, <1>9, <2>1, <2>4 DEF Settled
    <3>3. (Careful => Written(job.start))'
      <4>1. \A w \in Words : ~(InArea(w)' /\ w < job.start)
        BY <1>8, <1>10, Total DEF InArea
      <4> QED BY <1>8, <4>1 DEF Written
    <3>4. AtLoad' BY <1>8, <1>10, <2>2, <3>1, <3>2, <3>3 DEF AtLoad
    <3> QED BY <2>2, <3>4
  <2> QED BY <2>3, <2>4
<1> QED BY <1>7, <1>12, <1>13, <1>14
-----------------------------------------------------------------------------
(* The serial chip: what a step makes of its controller's registers.          *)
LEMMA OpcodeWritten ==
  ASSUME SpiShape(spi), ~spi.sending, NEW v, SpiWrite(Opcode, v)
  PROVE  /\ SpiShape(spi') /\ ~spi'.sending /\ spi'.opcode = v /\ spi'.ctl = spi.ctl
         /\ spi'.data = spi.data /\ spi'.latch = spi.latch
<1>1. spi' = [spi EXCEPT !.opcode = v] BY DEF SpiWrite, Opcode, DataReg, Ctl
<1> QED BY <1>1 DEF SpiShape

LEMMA DataWritten ==
  ASSUME SpiShape(spi), ~spi.sending, NEW v, SpiWrite(DataReg, v)
  PROVE  /\ SpiShape(spi') /\ ~spi'.sending /\ spi'.data = v /\ spi'.ctl = spi.ctl
         /\ spi'.opcode = spi.opcode /\ spi'.latch = spi.latch
<1>1. spi' = [spi EXCEPT !.data = v] BY DEF SpiWrite, Opcode, DataReg, Ctl
<1> QED BY <1>1 DEF SpiShape

LEMMA CtlWritten ==
  ASSUME SpiShape(spi), ~spi.sending, NEW v, SpiWrite(Ctl, v)
  PROVE  /\ SpiShape(spi') /\ (spi'.sending <=> v.cmd # "none") /\ spi'.ctl = v
         /\ spi'.data = spi.data /\ spi'.opcode = spi.opcode /\ spi'.latch = spi.latch
<1>1. spi' = [spi EXCEPT !.ctl = v, !.sending = v.cmd # "none"]
  BY DEF SpiWrite, Opcode, DataReg, Ctl
<1> QED BY <1>1 DEF SpiShape

LEMMA Transferred ==
  ASSUME SpiShape(spi), Transfer
  PROVE  /\ SpiShape(spi') /\ spi.sending /\ ~spi'.sending /\ spi'.ctl = spi.ctl
         /\ spi'.opcode = spi.opcode
         /\ spi'.latch <=> spi.latch \/ (Sent = "write_enable" /\ busy = Ready)
         /\ spi'.data = IF Sent = "read_status" THEN <<IF busy = Ready THEN {} ELSE {0}, {}>>
                        ELSE spi.data
         /\ cell' = cell /\ mode' = mode /\ locked' = locked
BY DEF Transfer, SpiShape

LEMMA Shapes ==
  ASSUME SpiShape(spi), \/ UNCHANGED spi \/ Complete \/ Transfer \/ \E a, v : SpiWrite(a, v)
  PROVE  SpiShape(spi')
<1>1. CASE Complete BY <1>1, Completes DEF Complete, SpiShape
<1>2. CASE Transfer BY <1>2, Transferred
<1>3. CASE \E a, v : SpiWrite(a, v)
  BY <1>3 DEF SpiWrite, SpiShape
<1> QED BY <1>1, <1>2, <1>3 DEF SpiShape

(* What a command x may be.                                                   *)
Command(x) == \/ x.op = "erase" /\ x = Erase(x.at)
              \/ x.op = "program" /\ x = Program(x.at, x.halves)
Starts(x) == busy = Ready /\ busy' = x /\ cell' = cell /\ locked' = locked /\ Before(x)
Quiet == busy' = busy /\ cell' = cell /\ locked' = locked

Stages == {"calm", "enabling", "enable", "armed", "filled", "aimed", "command", "begun", "asking",
           "ask", "told"}

LEMMA QuietKeeps ==
  ASSUME job' = job, Quiet
  PROVE  \A x : Effect(x)' = Effect(x) /\ Before(x)' = Before(x)
<1>1. After' = After /\ locked' = locked BY AfterKept DEF Quiet
<1> QED BY <1>1, ProgressKept

LEMMA StageKept ==
  ASSUME job' = job, UNCHANGED chipVars, NEW x, NEW g \in Stages, Stage(g, x)
  PROVE  Stage(g, x)'
<1>1. Quiet /\ spi' = spi BY DEF chipVars, Quiet
<1>2. Effect(x)' = Effect(x) /\ Before(x)' = Before(x) BY <1>1, QuietKeeps
<1>3. Broadcom' = Broadcom BY JobKept
<1>4. Sent' = Sent BY <1>1 DEF Sent
<1> QED
  BY <1>1, <1>2, <1>3, <1>4
  DEF Quiet, Stage, Calm, Set, Armed, Filled, Begun, Asking, Told

(* The chip completes what the command has begun.                             *)
LEMMA StageCompletes ==
  ASSUME job' = job, cell \in [Cells -> Half], SpiShape(spi), Complete, NEW x, NEW g \in Stages,
         Stage(g, x)
  PROVE  Stage(g, x)'
<1>1. After' = After /\ locked' = locked BY Completes
<1>2. Effect(x)' = Effect(x) BY <1>1, ProgressKept
<1>3. /\ busy' = Ready /\ busy # Ready /\ spi'.sending = spi.sending /\ spi'.opcode = spi.opcode
      /\ spi'.ctl = spi.ctl /\ spi'.data = spi.data
  BY Completes
<1>4. Broadcom' = Broadcom BY JobKept
<1>5. Sent' = Sent BY <1>3 DEF Sent
<1>6. g \in {"command", "begun", "asking", "ask", "told"}
  BY <1>3 DEF Stage, Stages, Calm, Armed
<1>7. Begun(x) => Begun(x)' BY <1>2, <1>3 DEF Begun
<1>8. \A code : Set(code) => Set(code)' BY <1>3, <1>4 DEF Set
<1>9. Told' BY <1>3 DEF Told
<1>10. Asking("read_status") => Asking("read_status")' BY <1>3, <1>5 DEF Asking
<1> QED BY <1>2, <1>3, <1>6, <1>7, <1>8, <1>9, <1>10 DEF Stage

LEMMA StageTransfers ==
  ASSUME job' = job, SpiShape(spi), Transfer, NEW x, Command(x), NEW g \in Stages, Stage(g, x),
         Starts(x) => Effect(x)'
  PROVE  Stage(g, x)' /\ (Quiet \/ Starts(x))
<1>1. /\ spi.sending /\ ~spi'.sending /\ spi'.ctl = spi.ctl /\ spi'.opcode = spi.opcode
      /\ spi'.latch <=> spi.latch \/ (Sent = "write_enable" /\ busy = Ready)
      /\ spi'.data = IF Sent = "read_status" THEN <<IF busy = Ready THEN {} ELSE {0}, {}>>
                     ELSE spi.data
      /\ cell' = cell /\ mode' = mode /\ locked' = locked
  BY Transferred
<1>2. busy' = CASE Sent = "erase" /\ busy = Ready /\ spi.latch -> Erase(spi.opcode.at)
                [] Sent = "program" /\ busy = Ready /\ spi.latch -> Program(spi.opcode.at, spi.data)
                [] OTHER -> busy
  BY DEF Transfer
<1>3. Broadcom' = Broadcom BY JobKept
<1>4. CASE g = "enable"
  <2>1. Asking("write_enable") /\ busy = Ready /\ Before(x) /\ (Broadcom => spi.ctl.bytes = {})
    BY <1>1, <1>4 DEF Stage, Armed, Calm
  <2>2. Sent = "write_enable" BY <2>1 DEF Asking
  <2>3. busy' = busy BY <1>2, <2>2
  <2>4. Quiet BY <1>1, <2>3 DEF Quiet
  <2>5. Before(x)' = Before(x) BY <2>4, QuietKeeps
  <2>6. Armed(x)' BY <1>1, <1>3, <2>1, <2>2, <2>3, <2>5 DEF Armed, Calm
  <2> QED BY <1>4, <2>4, <2>6 DEF Stage
<1>5. CASE g = "command"
  <2>1. /\ Asking(x.op) /\ busy = Ready /\ Before(x) /\ spi.latch
        /\ Filled(x) /\ spi.opcode.at = x.at
    BY <1>1, <1>5 DEF Stage, Begun
  <2>2. Sent = x.op BY <2>1 DEF Asking
  <2>3. busy' = x
    <3>1. CASE x.op = "erase" /\ x = Erase(x.at)
      <4>1. busy' = Erase(spi.opcode.at) BY <1>2, <2>1, <2>2, <3>1
      <4> QED BY <4>1, <3>1, <2>1
    <3>2. CASE x.op = "program" /\ x = Program(x.at, x.halves)
      <4>1. busy' = Program(spi.opcode.at, spi.data) BY <1>2, <2>1, <2>2, <3>2
      <4>2. spi.data = x.halves BY <2>1, <3>2 DEF Filled
      <4> QED BY <4>1, <4>2, <3>2, <2>1
    <3> QED BY <3>1, <3>2 DEF Command
  <2>4. Starts(x) BY <1>1, <2>1, <2>3 DEF Starts
  <2>5. Begun(x)' BY <1>1, <2>3, <2>4 DEF Begun
  <2> QED BY <1>5, <2>4, <2>5 DEF Stage
<1>6. CASE g = "ask"
  <2>1. Asking("read_status") /\ busy \in {Ready, x} /\ Effect(x)
    BY <1>1, <1>6 DEF Stage, Begun
  <2>2. Sent = "read_status" BY <2>1 DEF Asking
  <2>3. busy' = busy BY <1>2, <2>2
  <2>4. Quiet BY <1>1, <2>3 DEF Quiet
  <2>5. Effect(x)' = Effect(x) BY <2>4, QuietKeeps
  <2>6. Told'
    <3>1. spi'.data[1] = IF busy = Ready THEN {} ELSE {0} BY <1>1, <2>2
    <3> QED BY <2>3, <3>1 DEF Told
  <2>7. Begun(x)' BY <1>1, <2>1, <2>3, <2>5 DEF Begun
  <2> QED BY <1>6, <2>4, <2>6, <2>7 DEF Stage
<1>7. CASE g \notin {"enable", "command", "ask"}
  BY <1>1, <1>7 DEF Stage, Stages, Calm, Armed, Begun
<1> QED BY <1>4, <1>5, <1>6, <1>7

(* The cycles that lead from one stage to the next.                           *)
WaitLeads(g, h) ==
  \/ g = h /\ g \in {"calm", "enabling", "armed", "begun", "asking"}
  \/ g = "enable" /\ h = "armed"
  \/ g = "command" /\ h = "begun"
  \/ g = "ask" /\ h = "told"
ClearLeads(g, h) ==
  \/ g = "calm" /\ h \in {"calm", "enabling"}
  \/ g = "command" /\ h = "command"
  \/ g = "begun" /\ h = "asking"
OpcodeLeads(v, x, g, h) ==
  \/ v = Serial("write_enable", 0) /\ g = (IF Broadcom THEN "enabling" ELSE "calm") /\ h = "enabling"
  \/ v = Serial(x.op, x.at) /\ g = (IF x.op = "erase" THEN "armed" ELSE "filled") /\ h = "aimed"
  \/ v = Serial("read_status", 0) /\ g = (IF Broadcom THEN "asking" ELSE "begun") /\ h = "asking"
StartLeads(code, x, g, h) ==
  \/ code = "write_enable" /\ g = "enabling" /\ h = "enable"
  \/ code = x.op /\ g = "aimed" /\ h = "command"
  \/ code = "read_status" /\ g = "asking" /\ h = "ask"
Leads(c, x, g, h) ==
  \/ c = SpiWait /\ WaitLeads(g, h)
  \/ c = W(Ctl, Stop) /\ Broadcom /\ ClearLeads(g, h)
  \/ \E v : c = W(Opcode, v) /\ OpcodeLeads(v, x, g, h)
  \/ c = W(DataReg, x.halves) /\ x.op = "program" /\ g = "armed" /\ h = "filled"
  \/ \E code : c = (IF Broadcom THEN bcm_start(code) ELSE Start) /\ StartLeads(code, x, g, h)

LEMMA Waited ==
  ASSUME ~spi.sending, NEW x
  PROVE  /\ Stage("enable", x) => Stage("armed", x)
         /\ Stage("command", x) => Stage("begun", x)
         /\ Stage("ask", x) => Stage("told", x)
BY DEF Stage, Asking

(* The fields of the serial cycles.                                           *)
LEMMA SpiCycles ==
  /\ SpiWait.op = "poll" /\ SpiWait.to = Ctl /\ SpiWait.bit = FALSE
  /\ Start.op = "write" /\ Start.to = Ctl /\ Start.value.cmd = "start" /\ Start.value.bytes = {}
  /\ Stop.cmd = "none" /\ Stop.bytes = {}
  /\ \A code, c : Serial(code, c).cmd = code /\ Serial(code, c).at = c
  /\ \A code : bcm_start(code).op = "start" /\ bcm_start(code).to = Ctl /\ bcm_start(code).code = code
BY Cycles DEF SpiWait, Start, Stop, Serial, bcm_start

LEMMA BytesOf ==
  /\ Bytes["write_enable"] = {} /\ Bytes["read_status"] = {0}
  /\ Bytes["erase"] = {1} /\ Bytes["program"] = {2}
BY DEF Bytes

LEMMA OpcodeTurn ==
  ASSUME job' = job, SpiShape(spi), NEW v, SpiWrite(Opcode, v), Quiet, NEW x, Command(x)
  PROVE  /\ v = Serial("write_enable", 0) =>
              (Stage(IF Broadcom THEN "enabling" ELSE "calm", x) => Stage("enabling", x)')
         /\ v = Serial(x.op, x.at) =>
              (Stage(IF x.op = "erase" THEN "armed" ELSE "filled", x) => Stage("aimed", x)')
         /\ v = Serial("read_status", 0) =>
              (Stage(IF Broadcom THEN "asking" ELSE "begun", x) => Stage("asking", x)')
<1>1. /\ \A y : Effect(y)' = Effect(y) /\ Before(y)' = Before(y)
      /\ busy' = busy /\ Broadcom' = Broadcom
  BY QuietKeeps, JobKept DEF Quiet
<1>2. ~spi.sending => /\ SpiShape(spi') /\ ~spi'.sending /\ spi'.opcode = v /\ spi'.ctl = spi.ctl
                      /\ spi'.data = spi.data /\ spi'.latch = spi.latch
  BY OpcodeWritten
<1>3. \A code, c : Serial(code, c).cmd = code /\ Serial(code, c).at = c BY SpiCycles
<1>4. ASSUME v = Serial("write_enable", 0), Stage(IF Broadcom THEN "enabling" ELSE "calm", x)
      PROVE  Stage("enabling", x)'
  <2>1. Calm(x) /\ (Broadcom => Set("write_enable")) BY <1>4 DEF Stage
  <2>2. Calm(x)' BY <1>1, <1>2, <2>1 DEF Calm
  <2>3. Set("write_enable")' BY <1>1, <1>2, <1>3, <1>4, <2>1 DEF Set, Calm
  <2> QED BY <2>2, <2>3 DEF Stage
<1>5. ASSUME v = Serial(x.op, x.at), Stage(IF x.op = "erase" THEN "armed" ELSE "filled", x)
      PROVE  Stage("aimed", x)'
  <2>1. Armed(x) /\ Filled(x)
    <3>1. x.op # "program" => Filled(x) BY DEF Filled
    <3> QED BY <1>5, <3>1 DEF Stage, Command
  <2>2. Armed(x)' BY <1>1, <1>2, <2>1 DEF Armed, Calm
  <2>3. Filled(x)' BY <1>2, <2>1 DEF Filled, Armed, Calm
  <2>4. spi'.opcode = Serial(x.op, x.at) BY <1>2, <1>5, <2>1 DEF Armed, Calm
  <2>5. spi'.opcode.at = x.at /\ spi'.opcode.cmd = x.op BY <2>4, SpiCycles
  <2> QED BY <2>2, <2>3, <2>5 DEF Stage
<1>6. ASSUME v = Serial("read_status", 0), Stage(IF Broadcom THEN "asking" ELSE "begun", x)
      PROVE  Stage("asking", x)'
  <2>1. Begun(x) /\ (Broadcom => Set("read_status")) BY <1>6 DEF Stage
  <2>2. Begun(x)' BY <1>1, <1>2, <2>1 DEF Begun
  <2>3. Set("read_status")' BY <1>1, <1>2, <1>3, <1>6, <2>1 DEF Set, Begun
  <2> QED BY <2>2, <2>3 DEF Stage
<1> QED BY <1>4, <1>5, <1>6

LEMMA DataTurn ==
  ASSUME job' = job, SpiShape(spi), NEW x, SpiWrite(DataReg, x.halves), Quiet, Stage("armed", x)
  PROVE  Stage("filled", x)'
<1>1. /\ Before(x)' = Before(x) /\ busy' = busy /\ Broadcom' = Broadcom
  BY QuietKeeps, JobKept DEF Quiet
<1>2. Armed(x) BY DEF Stage
<1>3. /\ SpiShape(spi') /\ ~spi'.sending /\ spi'.data = x.halves /\ spi'.ctl = spi.ctl
      /\ spi'.opcode = spi.opcode /\ spi'.latch = spi.latch
  BY <1>2, DataWritten DEF Armed, Calm
<1>4. Armed(x)' BY <1>1, <1>2, <1>3 DEF Armed, Calm
<1>5. Filled(x)' BY <1>3 DEF Filled
<1> QED BY <1>4, <1>5 DEF Stage

LEMMA ClearTurn ==
  ASSUME job' = job, SpiShape(spi), SpiWrite(Ctl, Stop), Quiet, Broadcom, NEW x
  PROVE  /\ Stage("calm", x) => Stage("calm", x)' /\ Stage("enabling", x)'
         /\ Stage("command", x) => Stage("command", x)'
         /\ Stage("begun", x) => Stage("asking", x)'
<1>1. /\ Before(x)' = Before(x) /\ Effect(x)' = Effect(x) /\ busy' = busy /\ Broadcom'
  BY QuietKeeps, JobKept DEF Quiet
<1>2. Stop.cmd = "none" /\ Stop.bytes = {} BY SpiCycles
<1>3. ~spi.sending => /\ ~spi'.sending /\ spi'.ctl = Stop
  BY <1>2, CtlWritten
<1>4. spi.sending => spi' = spi BY DEF SpiWrite
<1>5. Calm(x) => Calm(x)' BY <1>1, <1>3 DEF Calm
<1>6. ~spi.sending => \A code : Set(code)' BY <1>1, <1>2, <1>3 DEF Set
<1>7. Begun(x) => Begun(x)' BY <1>1, <1>3 DEF Begun
<1>8. ~spi.sending => (Stage("command", x) => Stage("command", x)')
  BY <1>7 DEF Stage, Asking
<1>9. ASSUME spi.sending, Stage("command", x) PROVE Stage("command", x)'
  <2>1. /\ Asking(x.op) /\ busy = Ready /\ Before(x) /\ spi.latch
        /\ Filled(x) /\ spi.opcode.at = x.at
    BY <1>9 DEF Stage, Begun
  <2>2. Asking(x.op)' BY <1>4, <1>9, <2>1 DEF Asking, Sent
  <2>3. Filled(x)' BY <1>4, <1>9, <2>1 DEF Filled
  <2> QED BY <1>1, <1>4, <1>9, <2>1, <2>2, <2>3 DEF Stage
<1> QED BY <1>5, <1>6, <1>7, <1>8, <1>9 DEF Stage, Calm, Begun

(* The start of a command, code beside the address or in the register.        *)
LEMMA StartTurn ==
  ASSUME job' = job, SpiShape(spi), Quiet, NEW x, Command(x), NEW code, NEW v, SpiWrite(Ctl, v),
         IF Broadcom THEN v.cmd = code /\ v.bytes = spi.ctl.bytes \cup Bytes[code]
         ELSE v.cmd = "start"
  PROVE  /\ code = "write_enable" /\ Stage("enabling", x) => Stage("enable", x)'
         /\ code = x.op /\ Stage("aimed", x) => Stage("command", x)'
         /\ code = "read_status" /\ Stage("asking", x) => Stage("ask", x)'
<1>1. /\ Before(x)' = Before(x) /\ Effect(x)' = Effect(x) /\ busy' = busy /\ Broadcom' = Broadcom
  BY QuietKeeps, JobKept DEF Quiet
<1>2. SUFFICES ASSUME ~spi.sending, code \in {"write_enable", "read_status", "erase", "program"},
                      IF Broadcom THEN spi.ctl.bytes = {} ELSE spi.opcode.cmd = code
               PROVE  /\ code = "write_enable" /\ Calm(x) => Stage("enable", x)'
                      /\ code = x.op /\ Stage("aimed", x) => Stage("command", x)'
                      /\ code = "read_status" /\ Begun(x) => Stage("ask", x)'
  BY DEF Stage, Set, Calm, Begun, Armed, Command
<1>3. /\ spi'.sending <=> v.cmd # "none"
      /\ spi'.ctl = v /\ spi'.data = spi.data /\ spi'.opcode = spi.opcode /\ spi'.latch = spi.latch
  BY <1>2, CtlWritten
<1>4. spi'.sending BY <1>2, <1>3
<1>5. Sent' = code BY <1>2, <1>3 DEF Sent
<1>6. Asking(code)' BY <1>4, <1>5 DEF Asking
<1>7. ASSUME code = "write_enable", Calm(x) PROVE Stage("enable", x)'
  <2>1. Broadcom => spi'.ctl.bytes = {} BY <1>2, <1>3, <1>7, BytesOf
  <2> QED BY <1>1, <1>6, <1>7, <2>1 DEF Stage, Calm
<1>8. ASSUME code = x.op, Stage("aimed", x) PROVE Stage("command", x)'
  <2>1. Armed(x) /\ Filled(x) /\ spi.opcode.at = x.at BY <1>8 DEF Stage
  <2>2. Filled(x)' BY <1>3, <2>1 DEF Filled
  <2> QED BY <1>1, <1>3, <1>6, <1>8, <2>1, <2>2 DEF Stage, Armed, Calm
<1>9. ASSUME code = "read_status", Begun(x) PROVE Stage("ask", x)'
  BY <1>1, <1>6, <1>9 DEF Stage, Begun
<1> QED BY <1>7, <1>8, <1>9

(* So a cycle that leads from one stage to another does.                      *)
LEMMA CycleLeads ==
  ASSUME ~Parallel, job' = job, SpiShape(spi), NEW x, Command(x), NEW c, NEW g \in Stages, NEW h,
         Stage(g, x), Leads(c, x, g, h),
         \/ c.op = "write" /\ BusWrite(job.family, c.to, c.value)
         \/ /\ c.op = "start" /\ UNCHANGED <<cell, mode, busy, locked>>
            /\ SpiWrite(Ctl, [cmd |-> c.code, bytes |-> spi.ctl.bytes \cup Bytes[c.code]])
         \/ c.op = "poll" /\ UNCHANGED chipVars /\ (7 \in BusRead(job.family, c.to)) = c.bit
  PROVE  Quiet /\ mode' = mode /\ h \in Stages /\ Stage(h, x)'
<1>1. job.family = "SPI" BY DEF Parallel
<1>2. Quiet /\ mode' = mode BY <1>1 DEF BusWrite, Quiet, chipVars
<1>3. c.op = "write" => SpiWrite(c.to, c.value) BY <1>1 DEF BusWrite
<1>4. CASE c = SpiWait /\ WaitLeads(g, h)
  <2>1. c.op = "poll" /\ c.to = Ctl /\ c.bit = FALSE BY <1>4, SpiCycles
  <2>2. UNCHANGED chipVars /\ ~(7 \in BusRead(job.family, Ctl)) BY <2>1
  <2>3. ~spi.sending
    <3>1. BusRead("SPI", Ctl) = IF spi.sending THEN {7} ELSE {}
      <4>1. Ctl \notin Cells BY Total DEF Ctl
      <4>2. Ctl # DataReg BY DEF Ctl, DataReg
      <4> QED BY <4>1, <4>2 DEF BusRead
    <3> QED BY <1>1, <2>2, <3>1
  <2>4. h \in Stages BY <1>4 DEF Stages, WaitLeads
  <2>5. Stage(h, x) BY <1>4, <2>3, Waited DEF WaitLeads
  <2>6. Stage(h, x)' BY <2>2, <2>4, <2>5, StageKept
  <2> QED BY <1>2, <2>4, <2>6
<1>5. CASE c = W(Ctl, Stop) /\ Broadcom /\ ClearLeads(g, h)
  <2>1. SpiWrite(Ctl, Stop) BY <1>3, <1>5, Cycles
  <2>2. h \in Stages BY <1>5 DEF Stages, ClearLeads
  <2>3. Stage(h, x)' BY <1>2, <1>5, <2>1, ClearTurn DEF ClearLeads
  <2> QED BY <1>2, <2>2, <2>3
<1>6. ASSUME NEW v, c = W(Opcode, v), OpcodeLeads(v, x, g, h) PROVE h \in Stages /\ Stage(h, x)'
  <2>1. SpiWrite(Opcode, v) BY <1>3, <1>6, Cycles
  <2>2. h \in Stages BY <1>6 DEF Stages, OpcodeLeads
  <2>3. Stage(h, x)' BY <1>2, <1>6, <2>1, OpcodeTurn DEF OpcodeLeads
  <2> QED BY <2>2, <2>3
<1>7. CASE c = W(DataReg, x.halves) /\ x.op = "program" /\ g = "armed" /\ h = "filled"
  <2>1. SpiWrite(DataReg, x.halves) BY <1>3, <1>7, Cycles
  <2>2. h \in Stages BY <1>7 DEF Stages
  <2>3. Stage(h, x)' BY <1>2, <1>7, <2>1, DataTurn
  <2> QED BY <1>2, <2>2, <2>3
<1>8. ASSUME NEW code, c = (IF Broadcom THEN bcm_start(code) ELSE Start), StartLeads(code, x, g, h)
      PROVE  h \in Stages /\ Stage(h, x)'
  <2>1. h \in Stages BY <1>8 DEF Stages, StartLeads
  <2>2. \E v : /\ SpiWrite(Ctl, v)
               /\ IF Broadcom THEN v.cmd = code /\ v.bytes = spi.ctl.bytes \cup Bytes[code]
                  ELSE v.cmd = "start"
    <3>1. CASE Broadcom
      <4>1. c.op = "start" /\ c.code = code BY <1>8, <3>1, SpiCycles
      <4>2. SpiWrite(Ctl, [cmd |-> code, bytes |-> spi.ctl.bytes \cup Bytes[code]]) BY <4>1
      <4> QED BY <3>1, <4>2
    <3>2. CASE ~Broadcom
      <4>1. c.op = "write" /\ c.to = Ctl /\ c.value.cmd = "start" BY <1>8, <3>2, SpiCycles
      <4> QED BY <1>3, <3>2, <4>1
    <3> QED BY <3>1, <3>2
  <2>3. Stage(h, x)' BY <1>2, <1>8, <2>2, StartTurn DEF StartLeads
  <2> QED BY <2>1, <2>3
<1>9. h \in Stages /\ Stage(h, x)' BY <1>4, <1>5, <1>6, <1>7, <1>8 DEF Leads
<1> QED BY <1>2, <1>9

-----------------------------------------------------------------------------
(* The scripts of the serial routines: what comes before the question for the *)
(* status, and the question, which is asked again while the chip is busy.     *)
LEMMA JoinedRest ==
  ASSUME NEW S, NEW p \in Seq(S), NEW q \in Seq(S), q # <<>>
  PROVE  Rest(p \o q, Len(p) + 1) = q
<1> PICK s : s = p \o q OBVIOUS
<1>1. s \in Seq(S) /\ Len(p) \in Nat /\ Len(q) \in Nat /\ Len(s) = Len(p) + Len(q) OBVIOUS
<1>2. \A n \in 1..Len(q) : s[Len(p) + n] = q[n] OBVIOUS
<1>3. Len(q) # 0 OBVIOUS
<1>4. Rest(s, Len(p) + 1) \in Seq(S) /\ Len(Rest(s, Len(p) + 1)) = Len(q)
  BY <1>1, <1>3 DEF Rest
<1>5. \A n \in 1..Len(q) : Rest(s, Len(p) + 1)[n] = q[n] BY <1>1, <1>2, <1>3, <1>4 DEF Rest
<1>6. Rest(s, Len(p) + 1) = q BY <1>4, <1>5, SameSeq
<1> QED BY <1>6

LEMMA Associative ==
  ASSUME NEW S, NEW a \in Seq(S), NEW b \in Seq(S), NEW c \in Seq(S)
  PROVE  (a \o b) \o c = a \o (b \o c)
<1> DEFINE x == (a \o b) \o c
           y == a \o (b \o c)
<1>1. x \in Seq(S) /\ y \in Seq(S) /\ Len(x) = Len(y) OBVIOUS
<1>2. \A n \in 1..Len(x) : x[n] = y[n] OBVIOUS
<1> HIDE DEF x, y
<1>3. x = y BY <1>1, <1>2, SameSeq
<1> QED BY <1>3 DEF x, y

(* The first part p of the script of the command x.                           *)
Opening(x, p) ==
  /\ \E S : p \in Seq(S)
  /\ Len(p) = IF Broadcom THEN 11 ELSE IF x.op = "erase" THEN 8 ELSE 9
  /\ \A k \in 1..Len(p) : Leads(p[k], x, Course(x)[k], Course(x)[k + 1])

LEMMA SpiEraseFront ==
  ASSUME ~Broadcom, NEW x, x.op = "erase", NEW p,
         p = spiflash_sendcmd("write_enable") \o
             <<SpiWait, W(Opcode, Serial("erase", x.at)), Start, SpiWait>>
  PROVE  Opening(x, p)
<1>1. PICK e1, e2, e3, e4 :
        /\ e1 = SpiWait
        /\ e2 = W(Opcode, Serial("write_enable", 0))
        /\ e3 = Start
        /\ e4 = W(Opcode, Serial("erase", x.at))
  OBVIOUS
<1>2. p = <<e1, e2, e3, e1>> \o <<e1, e4, e3, e1>>
  BY <1>1 DEF spiflash_sendcmd
<1> PICK S : S = {e1, e2, e3, e4} OBVIOUS
<1>3. e1 \in S /\ e2 \in S /\ e3 \in S /\ e4 \in S OBVIOUS
<1> PICK a : a = <<e1, e2, e3, e1>> OBVIOUS
<1> PICK b : b = <<e1, e4, e3, e1>> OBVIOUS
<1>4. /\ a \in Seq(S) /\ Len(a) = 4
      /\ b \in Seq(S) /\ Len(b) = 4
  BY <1>3
<1>5. /\ a[1] = e1 /\ a[2] = e2 /\ a[3] = e3 /\ a[4] = e1
      /\ b[1] = e1 /\ b[2] = e4 /\ b[3] = e3 /\ b[4] = e1
  OBVIOUS
<1>6. p = a \o b BY <1>2
<1>7. /\ p \in Seq(S) /\ Len(p) = 4 + 4
      /\ \A k \in 1..4 : p[k] = a[k]
      /\ \A k \in 1..4 : p[4 + k] = b[k]
  <2>1. a \in Seq(S) /\ b \in Seq(S) BY <1>4
  <2>2. Len(a) = 4 /\ Len(b) = 4 BY <1>4
  <2>3. a \o b \in Seq(S) /\ Len(a \o b) = Len(a) + Len(b) BY ONLY <2>1
  <2>4. \A k \in 1..Len(a) : (a \o b)[k] = a[k] BY ONLY <2>1
  <2>5. \A k \in 1..Len(b) : (a \o b)[Len(a) + k] = b[k] BY ONLY <2>1
  <2> QED BY ONLY <1>6, <2>2, <2>3, <2>4, <2>5
<1>8. /\ Len(p) = 8
      /\ p[1] = e1 /\ p[2] = e2 /\ p[3] = e3 /\ p[4] = e1 /\ p[5] = e1
      /\ p[6] = e4 /\ p[7] = e3 /\ p[8] = e1
  BY ONLY <1>5, <1>7
<1>9. /\ Course(x)[1] = "calm" /\ Course(x)[2] = "calm" /\ Course(x)[3] = "enabling"
      /\ Course(x)[4] = "enable" /\ Course(x)[5] = "armed" /\ Course(x)[6] = "armed"
      /\ Course(x)[7] = "aimed" /\ Course(x)[8] = "command" /\ Course(x)[9] = "begun"
  BY DEF Course
<1>10. /\ Leads(e1, x, "calm", "calm") /\ Leads(e2, x, "calm", "enabling")
       /\ Leads(e3, x, "enabling", "enable") /\ Leads(e1, x, "enable", "armed")
       /\ Leads(e1, x, "armed", "armed") /\ Leads(e4, x, "armed", "aimed")
       /\ Leads(e3, x, "aimed", "command") /\ Leads(e1, x, "command", "begun")
  BY <1>1 DEF Leads, WaitLeads, ClearLeads, OpcodeLeads, StartLeads
<1>11. ASSUME NEW k \in 1..8 PROVE Leads(p[k], x, Course(x)[k], Course(x)[k + 1])
  <2>1. k \in {1, 2, 3, 4, 5, 6, 7, 8} OBVIOUS
  <2>2. CASE k = 1 BY ONLY <1>8, <1>9, <1>10, <2>2
  <2>3. CASE k = 2 BY ONLY <1>8, <1>9, <1>10, <2>3
  <2>4. CASE k = 3 BY ONLY <1>8, <1>9, <1>10, <2>4
  <2>5. CASE k = 4 BY ONLY <1>8, <1>9, <1>10, <2>5
  <2>6. CASE k = 5 BY ONLY <1>8, <1>9, <1>10, <2>6
  <2>7. CASE k = 6 BY ONLY <1>8, <1>9, <1>10, <2>7
  <2>8. CASE k = 7 BY ONLY <1>8, <1>9, <1>10, <2>8
  <2>9. CASE k = 8 BY ONLY <1>8, <1>9, <1>10, <2>9
  <2> QED BY ONLY <2>1, <2>2, <2>3, <2>4, <2>5, <2>6, <2>7, <2>8, <2>9
<1> QED BY <1>7, <1>8, <1>11 DEF Opening

LEMMA SpiWriteFront ==
  ASSUME ~Broadcom, NEW x, x.op = "program", NEW p,
         p = spiflash_sendcmd("write_enable") \o
             <<SpiWait, W(DataReg, x.halves), W(Opcode, Serial("program", x.at)), Start, SpiWait>>
  PROVE  Opening(x, p)
<1>1. PICK e1, e2, e3, e4, e5 :
        /\ e1 = SpiWait
        /\ e2 = W(Opcode, Serial("write_enable", 0))
        /\ e3 = Start
        /\ e4 = W(DataReg, x.halves)
        /\ e5 = W(Opcode, Serial("program", x.at))
  OBVIOUS
<1>2. p = <<e1, e2, e3, e1>> \o <<e1, e4, e5, e3, e1>>
  BY <1>1 DEF spiflash_sendcmd
<1> PICK S : S = {e1, e2, e3, e4, e5} OBVIOUS
<1>3. e1 \in S /\ e2 \in S /\ e3 \in S /\ e4 \in S /\ e5 \in S OBVIOUS
<1> PICK a : a = <<e1, e2, e3, e1>> OBVIOUS
<1> PICK b : b = <<e1, e4, e5, e3, e1>> OBVIOUS
<1>4. /\ a \in Seq(S) /\ Len(a) = 4
      /\ b \in Seq(S) /\ Len(b) = 5
  BY <1>3
<1>5. /\ a[1] = e1 /\ a[2] = e2 /\ a[3] = e3 /\ a[4] = e1
      /\ b[1] = e1 /\ b[2] = e4 /\ b[3] = e5 /\ b[4] = e3 /\ b[5] = e1
  OBVIOUS
<1>6. p = a \o b BY <1>2
<1>7. /\ p \in Seq(S) /\ Len(p) = 4 + 5
      /\ \A k \in 1..4 : p[k] = a[k]
      /\ \A k \in 1..5 : p[4 + k] = b[k]
  <2>1. a \in Seq(S) /\ b \in Seq(S) BY <1>4
  <2>2. Len(a) = 4 /\ Len(b) = 5 BY <1>4
  <2>3. a \o b \in Seq(S) /\ Len(a \o b) = Len(a) + Len(b) BY ONLY <2>1
  <2>4. \A k \in 1..Len(a) : (a \o b)[k] = a[k] BY ONLY <2>1
  <2>5. \A k \in 1..Len(b) : (a \o b)[Len(a) + k] = b[k] BY ONLY <2>1
  <2> QED BY ONLY <1>6, <2>2, <2>3, <2>4, <2>5
<1>8. /\ Len(p) = 9
      /\ p[1] = e1 /\ p[2] = e2 /\ p[3] = e3 /\ p[4] = e1 /\ p[5] = e1
      /\ p[6] = e4 /\ p[7] = e5 /\ p[8] = e3 /\ p[9] = e1
  BY ONLY <1>5, <1>7
<1>9. /\ Course(x)[1] = "calm" /\ Course(x)[2] = "calm" /\ Course(x)[3] = "enabling"
      /\ Course(x)[4] = "enable" /\ Course(x)[5] = "armed" /\ Course(x)[6] = "armed"
      /\ Course(x)[7] = "filled" /\ Course(x)[8] = "aimed" /\ Course(x)[9] = "command"
      /\ Course(x)[10] = "begun"
  BY DEF Course
<1>10. /\ Leads(e1, x, "calm", "calm") /\ Leads(e2, x, "calm", "enabling")
       /\ Leads(e3, x, "enabling", "enable") /\ Leads(e1, x, "enable", "armed")
       /\ Leads(e1, x, "armed", "armed") /\ Leads(e4, x, "armed", "filled")
       /\ Leads(e5, x, "filled", "aimed") /\ Leads(e3, x, "aimed", "command")
       /\ Leads(e1, x, "command", "begun")
  BY <1>1 DEF Leads, WaitLeads, ClearLeads, OpcodeLeads, StartLeads
<1>11. ASSUME NEW k \in 1..9 PROVE Leads(p[k], x, Course(x)[k], Course(x)[k + 1])
  <2>1. k \in {1, 2, 3, 4, 5, 6, 7, 8, 9} OBVIOUS
  <2>2. CASE k = 1 BY ONLY <1>8, <1>9, <1>10, <2>2
  <2>3. CASE k = 2 BY ONLY <1>8, <1>9, <1>10, <2>3
  <2>4. CASE k = 3 BY ONLY <1>8, <1>9, <1>10, <2>4
  <2>5. CASE k = 4 BY ONLY <1>8, <1>9, <1>10, <2>5
  <2>6. CASE k = 5 BY ONLY <1>8, <1>9, <1>10, <2>6
  <2>7. CASE k = 6 BY ONLY <1>8, <1>9, <1>10, <2>7
  <2>8. CASE k = 7 BY ONLY <1>8, <1>9, <1>10, <2>8
  <2>9. CASE k = 8 BY ONLY <1>8, <1>9, <1>10, <2>9
  <2>10. CASE k = 9 BY ONLY <1>8, <1>9, <1>10, <2>10
  <2> QED BY ONLY <2>1, <2>2, <2>3, <2>4, <2>5, <2>6, <2>7, <2>8, <2>9, <2>10
<1> QED BY <1>7, <1>8, <1>11 DEF Opening

LEMMA BcmEraseFront ==
  ASSUME Broadcom, NEW x, x.op = "erase", NEW p,
         p = bcm_clear \o bcm_sendcmd("write_enable") \o
             <<SpiWait, W(Opcode, Serial("erase", x.at)), bcm_start("erase")>> \o bcm_clear \o
             <<SpiWait>>
  PROVE  Opening(x, p)
<1>1. PICK e1, e2, e3, e4, e5, e6 :
        /\ e1 = W(Ctl, Stop)
        /\ e2 = SpiWait
        /\ e3 = W(Opcode, Serial("write_enable", 0))
        /\ e4 = bcm_start("write_enable")
        /\ e5 = W(Opcode, Serial("erase", x.at))
        /\ e6 = bcm_start("erase")
  OBVIOUS
<1>2. p = <<e1>> \o <<e1, e2, e3, e4, e2>> \o <<e2, e5, e6>> \o <<e1>> \o <<e2>>
  BY <1>1 DEF bcm_clear, bcm_sendcmd
<1> PICK S : S = {e1, e2, e3, e4, e5, e6} OBVIOUS
<1>3. e1 \in S /\ e2 \in S /\ e3 \in S /\ e4 \in S /\ e5 \in S /\ e6 \in S OBVIOUS
<1> PICK a : a = <<e1>> OBVIOUS
<1> PICK b : b = <<e1, e2, e3, e4, e2>> OBVIOUS
<1> PICK c : c = <<e2, e5, e6>> OBVIOUS
<1> PICK d : d = <<e1>> OBVIOUS
<1> PICK e : e = <<e2>> OBVIOUS
<1>4. /\ a \in Seq(S) /\ Len(a) = 1
      /\ b \in Seq(S) /\ Len(b) = 5
      /\ c \in Seq(S) /\ Len(c) = 3
      /\ d \in Seq(S) /\ Len(d) = 1
      /\ e \in Seq(S) /\ Len(e) = 1
  BY <1>3
<1>5. /\ a[1] = e1
      /\ b[1] = e1 /\ b[2] = e2 /\ b[3] = e3 /\ b[4] = e4 /\ b[5] = e2
      /\ c[1] = e2 /\ c[2] = e5 /\ c[3] = e6
      /\ d[1] = e1
      /\ e[1] = e2
  OBVIOUS
<1> PICK ab : ab = a \o b OBVIOUS
<1>6. ab = a \o b OBVIOUS
<1>7. /\ ab \in Seq(S) /\ Len(ab) = 1 + 5
      /\ \A k \in 1..1 : ab[k] = a[k]
      /\ \A k \in 1..5 : ab[1 + k] = b[k]
  <2>1. a \in Seq(S) /\ b \in Seq(S) BY <1>4
  <2>2. Len(a) = 1 /\ Len(b) = 5 BY <1>4
  <2>3. a \o b \in Seq(S) /\ Len(a \o b) = Len(a) + Len(b) BY ONLY <2>1
  <2>4. \A k \in 1..Len(a) : (a \o b)[k] = a[k] BY ONLY <2>1
  <2>5. \A k \in 1..Len(b) : (a \o b)[Len(a) + k] = b[k] BY ONLY <2>1
  <2> QED BY ONLY <1>6, <2>2, <2>3, <2>4, <2>5
<1>8. /\ Len(ab) = 6
      /\ ab[1] = e1 /\ ab[2] = e1 /\ ab[3] = e2 /\ ab[4] = e3 /\ ab[5] = e4
      /\ ab[6] = e2
  BY ONLY <1>5, <1>7
<1> PICK abc : abc = ab \o c OBVIOUS
<1>9. abc = ab \o c OBVIOUS
<1>10. /\ abc \in Seq(S) /\ Len(abc) = 6 + 3
       /\ \A k \in 1..6 : abc[k] = ab[k]
       /\ \A k \in 1..3 : abc[6 + k] = c[k]
  <2>1. ab \in Seq(S) /\ c \in Seq(S) BY <1>4, <1>7
  <2>2. Len(ab) = 6 /\ Len(c) = 3 BY <1>4, <1>7
  <2>3. ab \o c \in Seq(S) /\ Len(ab \o c) = Len(ab) + Len(c) BY ONLY <2>1
  <2>4. \A k \in 1..Len(ab) : (ab \o c)[k] = ab[k] BY ONLY <2>1
  <2>5. \A k \in 1..Len(c) : (ab \o c)[Len(ab) + k] = c[k] BY ONLY <2>1
  <2> QED BY ONLY <1>9, <2>2, <2>3, <2>4, <2>5
<1>11. /\ Len(abc) = 9
       /\ abc[1] = e1 /\ abc[2] = e1 /\ abc[3] = e2 /\ abc[4] = e3 /\ abc[5] = e4
       /\ abc[6] = e2 /\ abc[7] = e2 /\ abc[8] = e5 /\ abc[9] = e6
  BY ONLY <1>5, <1>8, <1>10
<1> PICK abcd : abcd = abc \o d OBVIOUS
<1>12. abcd = abc \o d OBVIOUS
<1>13. /\ abcd \in Seq(S) /\ Len(abcd) = 9 + 1
       /\ \A k \in 1..9 : abcd[k] = abc[k]
       /\ \A k \in 1..1 : abcd[9 + k] = d[k]
  <2>1. abc \in Seq(S) /\ d \in Seq(S) BY <1>4, <1>10
  <2>2. Len(abc) = 9 /\ Len(d) = 1 BY <1>4, <1>10
  <2>3. abc \o d \in Seq(S) /\ Len(abc \o d) = Len(abc) + Len(d) BY ONLY <2>1
  <2>4. \A k \in 1..Len(abc) : (abc \o d)[k] = abc[k] BY ONLY <2>1
  <2>5. \A k \in 1..Len(d) : (abc \o d)[Len(abc) + k] = d[k] BY ONLY <2>1
  <2> QED BY ONLY <1>12, <2>2, <2>3, <2>4, <2>5
<1>14. /\ Len(abcd) = 10
       /\ abcd[1] = e1 /\ abcd[2] = e1 /\ abcd[3] = e2 /\ abcd[4] = e3 /\ abcd[5] = e4
       /\ abcd[6] = e2 /\ abcd[7] = e2 /\ abcd[8] = e5 /\ abcd[9] = e6 /\ abcd[10] = e1
  BY ONLY <1>5, <1>11, <1>13
<1>15. p = abcd \o e BY <1>2
<1>16. /\ p \in Seq(S) /\ Len(p) = 10 + 1
       /\ \A k \in 1..10 : p[k] = abcd[k]
       /\ \A k \in 1..1 : p[10 + k] = e[k]
  <2>1. abcd \in Seq(S) /\ e \in Seq(S) BY <1>4, <1>13
  <2>2. Len(abcd) = 10 /\ Len(e) = 1 BY <1>4, <1>13
  <2>3. abcd \o e \in Seq(S) /\ Len(abcd \o e) = Len(abcd) + Len(e) BY ONLY <2>1
  <2>4. \A k \in 1..Len(abcd) : (abcd \o e)[k] = abcd[k] BY ONLY <2>1
  <2>5. \A k \in 1..Len(e) : (abcd \o e)[Len(abcd) + k] = e[k] BY ONLY <2>1
  <2> QED BY ONLY <1>15, <2>2, <2>3, <2>4, <2>5
<1>17. /\ Len(p) = 11
       /\ p[1] = e1 /\ p[2] = e1 /\ p[3] = e2 /\ p[4] = e3 /\ p[5] = e4
       /\ p[6] = e2 /\ p[7] = e2 /\ p[8] = e5 /\ p[9] = e6 /\ p[10] = e1
       /\ p[11] = e2
  BY ONLY <1>5, <1>14, <1>16
<1>18. /\ Course(x)[1] = "calm" /\ Course(x)[2] = "calm" /\ Course(x)[3] = "enabling"
       /\ Course(x)[4] = "enabling" /\ Course(x)[5] = "enabling" /\ Course(x)[6] = "enable"
       /\ Course(x)[7] = "armed" /\ Course(x)[8] = "armed" /\ Course(x)[9] = "aimed"
       /\ Course(x)[10] = "command" /\ Course(x)[11] = "command" /\ Course(x)[12] = "begun"
  BY DEF Course
<1>19. /\ Leads(e1, x, "calm", "calm") /\ Leads(e1, x, "calm", "enabling")
       /\ Leads(e2, x, "enabling", "enabling") /\ Leads(e3, x, "enabling", "enabling")
       /\ Leads(e4, x, "enabling", "enable") /\ Leads(e2, x, "enable", "armed")
       /\ Leads(e2, x, "armed", "armed") /\ Leads(e5, x, "armed", "aimed")
       /\ Leads(e6, x, "aimed", "command") /\ Leads(e1, x, "command", "command")
       /\ Leads(e2, x, "command", "begun")
  BY <1>1 DEF Leads, WaitLeads, ClearLeads, OpcodeLeads, StartLeads
<1>20. ASSUME NEW k \in 1..11 PROVE Leads(p[k], x, Course(x)[k], Course(x)[k + 1])
  <2>1. k \in {1, 2, 3, 4, 5, 6, 7, 8, 9, 10, 11} OBVIOUS
  <2>2. CASE k = 1 BY ONLY <1>17, <1>18, <1>19, <2>2
  <2>3. CASE k = 2 BY ONLY <1>17, <1>18, <1>19, <2>3
  <2>4. CASE k = 3 BY ONLY <1>17, <1>18, <1>19, <2>4
  <2>5. CASE k = 4 BY ONLY <1>17, <1>18, <1>19, <2>5
  <2>6. CASE k = 5 BY ONLY <1>17, <1>18, <1>19, <2>6
  <2>7. CASE k = 6 BY ONLY <1>17, <1>18, <1>19, <2>7
  <2>8. CASE k = 7 BY ONLY <1>17, <1>18, <1>19, <2>8
  <2>9. CASE k = 8 BY ONLY <1>17, <1>18, <1>19, <2>9
  <2>10. CASE k = 9 BY ONLY <1>17, <1>18, <1>19, <2>10
  <2>11. CASE k = 10 BY ONLY <1>17, <1>18, <1>19, <2>11
  <2>12. CASE k = 11 BY ONLY <1>17, <1>18, <1>19, <2>12
  <2> QED BY ONLY <2>1, <2>2, <2>3, <2>4, <2>5, <2>6, <2>7, <2>8, <2>9, <2>10, <2>11, <2>12
<1> QED BY <1>16, <1>17, <1>20 DEF Opening

LEMMA BcmWriteFront ==
  ASSUME Broadcom, NEW x, x.op = "program", NEW p,
         p = bcm_clear \o bcm_sendcmd("write_enable") \o
             <<SpiWait, W(DataReg, x.halves), W(Opcode, Serial("program", x.at)), bcm_start("program"),
               SpiWait>>
  PROVE  Opening(x, p)
<1>1. PICK e1, e2, e3, e4, e5, e6, e7 :
        /\ e1 = W(Ctl, Stop)
        /\ e2 = SpiWait
        /\ e3 = W(Opcode, Serial("write_enable", 0))
        /\ e4 = bcm_start("write_enable")
        /\ e5 = W(DataReg, x.halves)
        /\ e6 = W(Opcode, Serial("program", x.at))
        /\ e7 = bcm_start("program")
  OBVIOUS
<1>2. p = <<e1>> \o <<e1, e2, e3, e4, e2>> \o <<e2, e5, e6, e7, e2>>
  BY <1>1 DEF bcm_clear, bcm_sendcmd
<1> PICK S : S = {e1, e2, e3, e4, e5, e6, e7} OBVIOUS
<1>3. e1 \in S /\ e2 \in S /\ e3 \in S /\ e4 \in S /\ e5 \in S /\ e6 \in S /\ e7 \in S OBVIOUS
<1> PICK a : a = <<e1>> OBVIOUS
<1> PICK b : b = <<e1, e2, e3, e4, e2>> OBVIOUS
<1> PICK c : c = <<e2, e5, e6, e7, e2>> OBVIOUS
<1>4. /\ a \in Seq(S) /\ Len(a) = 1
      /\ b \in Seq(S) /\ Len(b) = 5
      /\ c \in Seq(S) /\ Len(c) = 5
  BY <1>3
<1>5. /\ a[1] = e1
      /\ b[1] = e1 /\ b[2] = e2 /\ b[3] = e3 /\ b[4] = e4 /\ b[5] = e2
      /\ c[1] = e2 /\ c[2] = e5 /\ c[3] = e6 /\ c[4] = e7 /\ c[5] = e2
  OBVIOUS
<1> PICK ab : ab = a \o b OBVIOUS
<1>6. ab = a \o b OBVIOUS
<1>7. /\ ab \in Seq(S) /\ Len(ab) = 1 + 5
      /\ \A k \in 1..1 : ab[k] = a[k]
      /\ \A k \in 1..5 : ab[1 + k] = b[k]
  <2>1. a \in Seq(S) /\ b \in Seq(S) BY <1>4
  <2>2. Len(a) = 1 /\ Len(b) = 5 BY <1>4
  <2>3. a \o b \in Seq(S) /\ Len(a \o b) = Len(a) + Len(b) BY ONLY <2>1
  <2>4. \A k \in 1..Len(a) : (a \o b)[k] = a[k] BY ONLY <2>1
  <2>5. \A k \in 1..Len(b) : (a \o b)[Len(a) + k] = b[k] BY ONLY <2>1
  <2> QED BY ONLY <1>6, <2>2, <2>3, <2>4, <2>5
<1>8. /\ Len(ab) = 6
      /\ ab[1] = e1 /\ ab[2] = e1 /\ ab[3] = e2 /\ ab[4] = e3 /\ ab[5] = e4
      /\ ab[6] = e2
  BY ONLY <1>5, <1>7
<1>9. p = ab \o c BY <1>2
<1>10. /\ p \in Seq(S) /\ Len(p) = 6 + 5
       /\ \A k \in 1..6 : p[k] = ab[k]
       /\ \A k \in 1..5 : p[6 + k] = c[k]
  <2>1. ab \in Seq(S) /\ c \in Seq(S) BY <1>4, <1>7
  <2>2. Len(ab) = 6 /\ Len(c) = 5 BY <1>4, <1>7
  <2>3. ab \o c \in Seq(S) /\ Len(ab \o c) = Len(ab) + Len(c) BY ONLY <2>1
  <2>4. \A k \in 1..Len(ab) : (ab \o c)[k] = ab[k] BY ONLY <2>1
  <2>5. \A k \in 1..Len(c) : (ab \o c)[Len(ab) + k] = c[k] BY ONLY <2>1
  <2> QED BY ONLY <1>9, <2>2, <2>3, <2>4, <2>5
<1>11. /\ Len(p) = 11
       /\ p[1] = e1 /\ p[2] = e1 /\ p[3] = e2 /\ p[4] = e3 /\ p[5] = e4
       /\ p[6] = e2 /\ p[7] = e2 /\ p[8] = e5 /\ p[9] = e6 /\ p[10] = e7
       /\ p[11] = e2
  BY ONLY <1>5, <1>8, <1>10
<1>12. /\ Course(x)[1] = "calm" /\ Course(x)[2] = "calm" /\ Course(x)[3] = "enabling"
       /\ Course(x)[4] = "enabling" /\ Course(x)[5] = "enabling" /\ Course(x)[6] = "enable"
       /\ Course(x)[7] = "armed" /\ Course(x)[8] = "armed" /\ Course(x)[9] = "filled"
       /\ Course(x)[10] = "aimed" /\ Course(x)[11] = "command" /\ Course(x)[12] = "begun"
  BY DEF Course
<1>13. /\ Leads(e1, x, "calm", "calm") /\ Leads(e1, x, "calm", "enabling")
       /\ Leads(e2, x, "enabling", "enabling") /\ Leads(e3, x, "enabling", "enabling")
       /\ Leads(e4, x, "enabling", "enable") /\ Leads(e2, x, "enable", "armed")
       /\ Leads(e2, x, "armed", "armed") /\ Leads(e5, x, "armed", "filled")
       /\ Leads(e6, x, "filled", "aimed") /\ Leads(e7, x, "aimed", "command")
       /\ Leads(e2, x, "command", "begun")
  BY <1>1 DEF Leads, WaitLeads, ClearLeads, OpcodeLeads, StartLeads
<1>14. ASSUME NEW k \in 1..11 PROVE Leads(p[k], x, Course(x)[k], Course(x)[k + 1])
  <2>1. k \in {1, 2, 3, 4, 5, 6, 7, 8, 9, 10, 11} OBVIOUS
  <2>2. CASE k = 1 BY ONLY <1>11, <1>12, <1>13, <2>2
  <2>3. CASE k = 2 BY ONLY <1>11, <1>12, <1>13, <2>3
  <2>4. CASE k = 3 BY ONLY <1>11, <1>12, <1>13, <2>4
  <2>5. CASE k = 4 BY ONLY <1>11, <1>12, <1>13, <2>5
  <2>6. CASE k = 5 BY ONLY <1>11, <1>12, <1>13, <2>6
  <2>7. CASE k = 6 BY ONLY <1>11, <1>12, <1>13, <2>7
  <2>8. CASE k = 7 BY ONLY <1>11, <1>12, <1>13, <2>8
  <2>9. CASE k = 8 BY ONLY <1>11, <1>12, <1>13, <2>9
  <2>10. CASE k = 9 BY ONLY <1>11, <1>12, <1>13, <2>10
  <2>11. CASE k = 10 BY ONLY <1>11, <1>12, <1>13, <2>11
  <2>12. CASE k = 11 BY ONLY <1>11, <1>12, <1>13, <2>12
  <2> QED BY ONLY <2>1, <2>2, <2>3, <2>4, <2>5, <2>6, <2>7, <2>8, <2>9, <2>10, <2>11, <2>12
<1> QED BY <1>10, <1>11, <1>14 DEF Opening

(* The question for the status, from which the script may be gone through     *)
(* again.                                                                     *)
AskCourse == IF Broadcom THEN <<"begun", "asking", "asking", "asking", "ask", "told">>
             ELSE <<"begun", "begun", "asking", "ask", "told">>

LEMMA SpiQuestion ==
  ASSUME ~Broadcom, NEW x, NEW r, r = ReadStatus
  PROVE  /\ \E S : r \in Seq(S)
         /\ Len(r) = 4
         /\ \A k \in 1..4 : Leads(r[k], x, AskCourse[k], AskCourse[k + 1])
<1>1. r = <<SpiWait, W(Opcode, Serial("read_status", 0)), Start, SpiWait>>
  BY DEF ReadStatus, Broadcom, spiflash_sendcmd
<1>2. PICK e1, e2, e3 : e1 = SpiWait /\ e2 = W(Opcode, Serial("read_status", 0)) /\ e3 = Start OBVIOUS
<1>3. r = <<e1, e2, e3, e1>> BY <1>1, <1>2
<1>4. r \in Seq({e1, e2, e3}) /\ Len(r) = 4 BY <1>3
<1>5. r[1] = e1 /\ r[2] = e2 /\ r[3] = e3 /\ r[4] = e1 BY <1>3
<1>6. /\ Leads(e1, x, "begun", "begun") /\ Leads(e2, x, "begun", "asking")
      /\ Leads(e3, x, "asking", "ask") /\ Leads(e1, x, "ask", "told")
  BY <1>2 DEF Leads, WaitLeads, OpcodeLeads, StartLeads
<1>7. /\ AskCourse[1] = "begun" /\ AskCourse[2] = "begun" /\ AskCourse[3] = "asking"
      /\ AskCourse[4] = "ask" /\ AskCourse[5] = "told"
  BY DEF AskCourse
<1>8. ASSUME NEW k \in 1..4 PROVE Leads(r[k], x, AskCourse[k], AskCourse[k + 1])
  <2>1. k \in {1, 2, 3, 4} OBVIOUS
  <2>2. CASE k = 1 BY ONLY <1>5, <1>6, <1>7, <2>2
  <2>3. CASE k = 2 BY ONLY <1>5, <1>6, <1>7, <2>3
  <2>4. CASE k = 3 BY ONLY <1>5, <1>6, <1>7, <2>4
  <2>5. CASE k = 4 BY ONLY <1>5, <1>6, <1>7, <2>5
  <2> QED BY ONLY <2>1, <2>2, <2>3, <2>4, <2>5
<1> QED BY ONLY <1>4, <1>8

LEMMA BcmQuestion ==
  ASSUME Broadcom, NEW x, NEW r, r = ReadStatus
  PROVE  /\ \E S : r \in Seq(S)
         /\ Len(r) = 5
         /\ \A k \in 1..5 : Leads(r[k], x, AskCourse[k], AskCourse[k + 1])
<1>1. r = <<W(Ctl, Stop)>> \o
          <<SpiWait, W(Opcode, Serial("read_status", 0)), bcm_start("read_status"), SpiWait>>
  BY DEF ReadStatus, Broadcom, bcm_sendcmd, bcm_clear
<1>2. PICK e1, e2, e3, e4 : /\ e1 = W(Ctl, Stop) /\ e2 = SpiWait
                            /\ e3 = W(Opcode, Serial("read_status", 0))
                            /\ e4 = bcm_start("read_status")
  OBVIOUS
<1>3. r = <<e1>> \o <<e2, e3, e4, e2>> BY <1>1, <1>2
<1> PICK S : S = {e1, e2, e3, e4} OBVIOUS
<1>4. e1 \in S /\ e2 \in S /\ e3 \in S /\ e4 \in S OBVIOUS
<1>5. /\ r \in Seq(S) /\ Len(r) = 5 /\ r[1] = e1 /\ r[2] = e2 /\ r[3] = e3 /\ r[4] = e4 /\ r[5] = e2
  BY ONLY <1>3, <1>4
<1>6. /\ Leads(e1, x, "begun", "asking") /\ Leads(e2, x, "asking", "asking")
      /\ Leads(e3, x, "asking", "asking") /\ Leads(e4, x, "asking", "ask")
      /\ Leads(e2, x, "ask", "told")
  BY <1>2 DEF Leads, WaitLeads, ClearLeads, OpcodeLeads, StartLeads
<1>7. /\ AskCourse[1] = "begun" /\ AskCourse[2] = "asking" /\ AskCourse[3] = "asking"
      /\ AskCourse[4] = "asking" /\ AskCourse[5] = "ask" /\ AskCourse[6] = "told"
  BY DEF AskCourse
<1>8. ASSUME NEW k \in 1..5 PROVE Leads(r[k], x, AskCourse[k], AskCourse[k + 1])
  <2>1. k \in {1, 2, 3, 4, 5} OBVIOUS
  <2>2. CASE k = 1 BY ONLY <1>5, <1>6, <1>7, <2>2
  <2>3. CASE k = 2 BY ONLY <1>5, <1>6, <1>7, <2>3
  <2>4. CASE k = 3 BY ONLY <1>5, <1>6, <1>7, <2>4
  <2>5. CASE k = 4 BY ONLY <1>5, <1>6, <1>7, <2>5
  <2>6. CASE k = 5 BY ONLY <1>5, <1>6, <1>7, <2>6
  <2> QED BY ONLY <2>1, <2>2, <2>3, <2>4, <2>5, <2>6
<1> QED BY ONLY <1>5, <1>8

(* The script s of the command x, with the question from the n-th cycle on.   *)
Script(x, s, n) ==
  /\ \E S : s \in Seq(S)
  /\ Len(s) \in 13..17 /\ DOMAIN Course(x) = 1..Len(s) /\ n \in 1..Len(s)
  /\ \A k \in 1..Len(s) - 1 : Leads(s[k], x, Course(x)[k], Course(x)[k + 1])
  /\ Course(x)[1] = "calm" /\ Course(x)[n] = "begun" /\ Course(x)[Len(s)] = "told"
  /\ s[Len(s)].op = "status"
  /\ ReadStatus \o Rest(s, Len(s)) = Rest(s, n)

LEMMA ScriptOf ==
  ASSUME NEW x, Command(x), NEW p, Opening(x, p), NEW s, s = (p \o ReadStatus) \o Finish
  PROVE  Script(x, s, Len(p) + 1)
<1> PICK r : r = ReadStatus OBVIOUS
<1> PICK f : f = Finish OBVIOUS
<1> PICK q : q = r \o f OBVIOUS
<1>1. PICK S : p \in Seq(S) /\ r \in Seq(S) /\ f \in Seq(S)
  <2>1. PICK A : p \in Seq(A) BY DEF Opening
  <2>2. PICK B : r \in Seq(B) BY SpiQuestion, BcmQuestion
  <2>3. f = <<[op |-> "status", to |-> DataReg]>> BY DEF Finish
  <2>4. PICK C : f \in Seq(C)
    <3>1. PICK e : e = [op |-> "status", to |-> DataReg] OBVIOUS
    <3>2. f = <<e>> BY <2>3, <3>1
    <3>3. f \in Seq({e}) BY ONLY <3>2
    <3> QED BY <3>3
  <2>5. p \in Seq(A \cup B \cup C) /\ r \in Seq(A \cup B \cup C) /\ f \in Seq(A \cup B \cup C)
    BY ONLY <2>1, <2>2, <2>4, Wider
  <2> QED BY ONLY <2>5
<1>2. /\ f # <<>> /\ Len(f) = 1 /\ f[1].op = "status" BY DEF Finish
<1>3. Len(r) = (IF Broadcom THEN 5 ELSE 4) /\ \A k \in 1..Len(r) : Leads(r[k], x, AskCourse[k], AskCourse[k + 1])
  BY SpiQuestion, BcmQuestion
<1>4. Len(p) = IF Broadcom THEN 11 ELSE IF x.op = "erase" THEN 8 ELSE 9 BY DEF Opening
<1> PICK m : m = Len(p) OBVIOUS
<1> PICK l : l = Len(r) OBVIOUS
<1>5. /\ q \in Seq(S) /\ Len(q) = l + 1
      /\ \A n \in 1..l : q[n] = r[n]
      /\ \A n \in 1..1 : q[l + n] = f[n]
  <2>1. r \in Seq(S) /\ f \in Seq(S) BY <1>1
  <2>2. r \o f \in Seq(S) /\ Len(r \o f) = Len(r) + Len(f) BY ONLY <2>1
  <2>3. \A n \in 1..Len(r) : (r \o f)[n] = r[n] BY ONLY <2>1
  <2>4. \A n \in 1..Len(f) : (r \o f)[Len(r) + n] = f[n] BY ONLY <2>1
  <2> QED BY ONLY <1>2, <2>2, <2>3, <2>4, q = r \o f, l = Len(r)
<1>6. /\ q # <<>> BY <1>1, <1>2, <1>5
<1>7. s = p \o q BY <1>1, Associative
<1>8. /\ s \in Seq(S) /\ Len(s) = m + Len(q)
      /\ \A n \in 1..m : s[n] = p[n]
      /\ \A n \in 1..Len(q) : s[m + n] = q[n]
      /\ Rest(s, m + 1) = q
  <2>1. p \in Seq(S) /\ q \in Seq(S) BY <1>1, <1>5
  <2>2. p \o q \in Seq(S) /\ Len(p \o q) = Len(p) + Len(q) BY ONLY <2>1
  <2>3. \A n \in 1..Len(p) : (p \o q)[n] = p[n] BY ONLY <2>1
  <2>4. \A n \in 1..Len(q) : (p \o q)[Len(p) + n] = q[n] BY ONLY <2>1
  <2>5. Rest(p \o q, Len(p) + 1) = q BY ONLY <1>6, <2>1, JoinedRest
  <2> QED BY ONLY <1>7, <2>2, <2>3, <2>4, <2>5, m = Len(p)
<1>9. /\ m = IF Broadcom THEN 11 ELSE IF x.op = "erase" THEN 8 ELSE 9
      /\ l = (IF Broadcom THEN 5 ELSE 4) /\ Len(s) = m + (l + 1)
  BY ONLY <1>3, <1>4, <1>5, <1>8, m = Len(p), l = Len(r)
<1>10. Rest(s, Len(s)) = f
  <2> PICK t : t = p \o r OBVIOUS
  <2>1. t \in Seq(S) /\ Len(t) = m + l BY <1>1
  <2>2. s = t \o f OBVIOUS
  <2>3. Rest(s, Len(t) + 1) = f BY ONLY <1>1, <1>2, <2>1, <2>2, JoinedRest
  <2>4. Len(s) = Len(t) + 1 BY ONLY <1>9, <2>1
  <2> QED BY ONLY <2>3, <2>4
<1>11. /\ DOMAIN Course(x) = 1..m + (l + 1)
       /\ \A k \in 1..l + 1 : Course(x)[m + k] = AskCourse[k]
       /\ Course(x)[1] = "calm" /\ AskCourse[1] = "begun" /\ AskCourse[l + 1] = "told"
  <2>1. CASE Broadcom /\ x.op = "erase"
    <3>1. m = 11 /\ l = 5 BY ONLY <1>9, <2>1
    <3>2. Course(x) = <<"calm", "calm", "enabling", "enabling", "enabling", "enable", "armed", "armed", "aimed",
                        "command", "command",
                        "begun", "asking", "asking", "asking", "ask", "told">>
      BY ONLY <2>1 DEF Course
    <3>3. AskCourse = <<"begun", "asking", "asking", "asking", "ask", "told">>
      BY ONLY <2>1 DEF AskCourse
    <3>4. \A k \in 1..5 + 1 : k \in {1, 2, 3, 4, 5, 6} OBVIOUS
    <3>5. \A k \in {1, 2, 3, 4, 5, 6} : Course(x)[11 + k] = AskCourse[k] BY ONLY <3>2, <3>3
    <3>6. DOMAIN Course(x) = 1..11 + (5 + 1) BY ONLY <3>2
    <3> QED BY ONLY <3>1, <3>2, <3>3, <3>4, <3>5, <3>6
  <2>2. CASE Broadcom /\ x.op = "program"
    <3>1. m = 11 /\ l = 5 BY ONLY <1>9, <2>2
    <3>2. Course(x) = <<"calm", "calm", "enabling", "enabling", "enabling", "enable", "armed", "armed", "filled",
                        "aimed", "command",
                        "begun", "asking", "asking", "asking", "ask", "told">>
      BY ONLY <2>2 DEF Course
    <3>3. AskCourse = <<"begun", "asking", "asking", "asking", "ask", "told">>
      BY ONLY <2>2 DEF AskCourse
    <3>4. \A k \in 1..5 + 1 : k \in {1, 2, 3, 4, 5, 6} OBVIOUS
    <3>5. \A k \in {1, 2, 3, 4, 5, 6} : Course(x)[11 + k] = AskCourse[k] BY ONLY <3>2, <3>3
    <3>6. DOMAIN Course(x) = 1..11 + (5 + 1) BY ONLY <3>2
    <3> QED BY ONLY <3>1, <3>2, <3>3, <3>4, <3>5, <3>6
  <2>3. CASE ~Broadcom /\ x.op = "erase" BY <1>9, <2>3 DEF Course, AskCourse
  <2>4. CASE ~Broadcom /\ x.op = "program" BY <1>9, <2>4 DEF Course, AskCourse
  <2> QED BY <2>1, <2>2, <2>3, <2>4 DEF Command
<1>12. ASSUME NEW k \in 1..Len(s) - 1 PROVE Leads(s[k], x, Course(x)[k], Course(x)[k + 1])
  <2>1. CASE k \in 1..m BY <1>8, <2>1 DEF Opening
  <2>2. CASE k \notin 1..m
    <3>1. PICK j \in 1..l : k = m + j /\ k + 1 = m + (j + 1) /\ j + 1 \in 1..l + 1
      <4>1. k - m \in 1..l /\ k = m + (k - m) /\ k + 1 = m + ((k - m) + 1)
            /\ (k - m) + 1 \in 1..l + 1
        BY <1>9, <2>2
      <4> QED BY ONLY <4>1
    <3>2. j \in 1..l + 1 /\ j \in 1..Len(q) BY <1>5, <1>9
    <3>3. s[k] = r[j] BY ONLY <1>5, <1>8, <3>1, <3>2
    <3>4. Course(x)[k] = AskCourse[j] /\ Course(x)[k + 1] = AskCourse[j + 1]
      BY ONLY <1>11, <3>1, <3>2
    <3>5. j \in 1..Len(r) OBVIOUS
    <3> QED BY ONLY <1>3, <3>3, <3>4, <3>5
  <2> QED BY <2>1, <2>2
<1>13. Len(s) \in 13..17 /\ m + 1 \in 1..Len(s) /\ Len(s) = m + (l + 1) BY ONLY <1>9
<1>14. s[Len(s)].op = "status"
  <2>1. Len(q) \in 1..Len(q) /\ l + 1 = Len(q) /\ 1 \in 1..1 BY ONLY <1>5, <1>9
  <2> QED BY ONLY <1>2, <1>5, <1>8, <1>13, <2>1
<1>15. Course(x)[m + 1] = "begun" /\ Course(x)[Len(s)] = "told"
  <2>1. 1 \in 1..l + 1 /\ l + 1 \in 1..l + 1 BY ONLY <1>9
  <2> QED BY ONLY <1>11, <1>13, <2>1
<1>16. r \o Rest(s, Len(s)) = Rest(s, m + 1) BY <1>8, <1>10
<1> QED BY <1>8, <1>11, <1>12, <1>13, <1>14, <1>15, <1>16 DEF Script

LEMMA SerialScripts ==
  ASSUME ~Parallel
  PROVE  /\ \A b : /\ Command(EraseOf(b))
                   /\ \E n : Script(EraseOf(b), sflash_erase_block(b), n)
         /\ \A w, word : /\ Command(Program(2 * w, word))
                         /\ \E n : Script(Program(2 * w, word), sflash_write_word(w, word), n)
<1>1. job.family = "SPI" BY DEF Parallel
<1>2. ASSUME NEW b PROVE Command(EraseOf(b)) /\ \E n : Script(EraseOf(b), sflash_erase_block(b), n)
  <2> PICK x : x = EraseOf(b) OBVIOUS
  <2> PICK s : s = sflash_erase_block(b) OBVIOUS
  <2>1. x.op = "erase" /\ x.at = 2 * Base[b] /\ Command(x) BY Kinds DEF EraseOf, Command
  <2>2. CASE Broadcom
    <3> PICK p : p = bcm_clear \o bcm_sendcmd("write_enable") \o
                     <<SpiWait, W(Opcode, Serial("erase", x.at)), bcm_start("erase")>> \o bcm_clear \o
                     <<SpiWait>>
      OBVIOUS
    <3>1. Opening(x, p) BY <2>1, <2>2, BcmEraseFront
    <3>2. s = bcm_erase_block(b) BY <1>1, <2>2 DEF sflash_erase_block, Broadcom
    <3>3. ReadStatus = bcm_sendcmd("read_status") BY <2>2 DEF ReadStatus, Broadcom
    <3>4. s = (p \o ReadStatus) \o Finish BY <2>1, <3>2, <3>3 DEF bcm_erase_block
    <3> QED BY <2>1, <3>1, <3>4, ScriptOf
  <2>3. CASE ~Broadcom
    <3> PICK p : p = spiflash_sendcmd("write_enable") \o
                     <<SpiWait, W(Opcode, Serial("erase", x.at)), Start, SpiWait>>
      OBVIOUS
    <3>1. Opening(x, p) BY <2>1, <2>3, SpiEraseFront
    <3>2. s = spiflash_erase_block(b) BY <1>1, <2>3 DEF sflash_erase_block, Broadcom
    <3>3. ReadStatus = spiflash_sendcmd("read_status") BY <2>3 DEF ReadStatus, Broadcom
    <3>4. s = (p \o ReadStatus) \o Finish BY <2>1, <3>2, <3>3 DEF spiflash_erase_block
    <3> QED BY <2>1, <3>1, <3>4, ScriptOf
  <2> QED BY <2>1, <2>2, <2>3
<1>3. ASSUME NEW w, NEW word
      PROVE  /\ Command(Program(2 * w, word))
             /\ \E n : Script(Program(2 * w, word), sflash_write_word(w, word), n)
  <2> PICK x : x = Program(2 * w, word) OBVIOUS
  <2> PICK s : s = sflash_write_word(w, word) OBVIOUS
  <2>1. x.op = "program" /\ x.at = 2 * w /\ x.halves = word /\ Command(x) BY Kinds DEF Command
  <2>2. CASE Broadcom
    <3> PICK p : p = bcm_clear \o bcm_sendcmd("write_enable") \o
                     <<SpiWait, W(DataReg, x.halves), W(Opcode, Serial("program", x.at)),
                       bcm_start("program"), SpiWait>>
      OBVIOUS
    <3>1. Opening(x, p) BY <2>1, <2>2, BcmWriteFront
    <3>2. s = bcm_write_word(w, word) BY <1>1, <2>2 DEF sflash_write_word, Broadcom
    <3>3. ReadStatus = bcm_sendcmd("read_status") BY <2>2 DEF ReadStatus, Broadcom
    <3>4. s = (p \o ReadStatus) \o Finish BY <2>1, <3>2, <3>3 DEF bcm_write_word
    <3> QED BY <2>1, <3>1, <3>4, ScriptOf
  <2>3. CASE ~Broadcom
    <3> PICK p : p = spiflash_sendcmd("write_enable") \o
                     <<SpiWait, W(DataReg, x.halves), W(Opcode, Serial("program", x.at)), Start,
                       SpiWait>>
      OBVIOUS
    <3>1. Opening(x, p) BY <2>1, <2>3, SpiWriteFront
    <3>2. s = spiflash_write_word(w, word) BY <1>1, <2>3 DEF sflash_write_word, Broadcom
    <3>3. ReadStatus = spiflash_sendcmd("read_status") BY <2>3 DEF ReadStatus, Broadcom
    <3>4. s = (p \o ReadStatus) \o Finish BY <2>1, <3>2, <3>3 DEF spiflash_write_word
    <3> QED BY <2>1, <3>1, <3>4, ScriptOf
  <2> QED BY <2>1, <2>2, <2>3
<1> QED BY <1>2, <1>3

(* A step while the command x is on its way.                                  *)
LEMMA SerialMoves ==
  ASSUME ChipInv, [Next]_vars, ~Checked, NEW x, Command(x), NEW s, NEW n, Script(x, s, n),
         NEW k, Sending(x, s, k), Starts(x) => Effect(x)'
  PROVE  /\ Stays /\ mode' = "read" /\ locked' = {}
         /\ Quiet \/ Complete \/ Starts(x)
         /\ \/ \E j \in 1..17 : Sending(x, s, j)'
            \/ todo' = <<>> /\ busy' = Ready /\ ~spi'.sending /\ Effect(x)'
<1> DEFINE g == Course(x)[k]
<1>1. /\ ~Parallel /\ mode = "read" /\ todo = Rest(s, k) /\ k \in DOMAIN Course(x) /\ Stage(g, x)
  BY DEF Sending
<1>2. /\ \E S : s \in Seq(S)
      /\ Len(s) \in 13..17 /\ DOMAIN Course(x) = 1..Len(s) /\ n \in 1..Len(s)
      /\ \A j \in 1..Len(s) - 1 : Leads(s[j], x, Course(x)[j], Course(x)[j + 1])
      /\ Course(x)[1] = "calm" /\ Course(x)[n] = "begun" /\ Course(x)[Len(s)] = "told"
      /\ s[Len(s)].op = "status"
      /\ ReadStatus \o Rest(s, Len(s)) = Rest(s, n)
  BY DEF Script
<1>3. /\ job.family = "SPI" /\ locked = {} /\ SpiShape(spi) /\ cell \in [Cells -> Half]
      /\ job.family # "Intel"
  BY <1>1 DEF ChipInv, Parallel
<1>4. k \in 1..Len(s) BY <1>1, <1>2
<1>5. todo # <<>> /\ Head(todo) = s[k] /\ Tail(todo) = Rest(s, k + 1) BY <1>1, <1>2, <1>4, Rests
<1>6. g \in Stages
  <2>1. k = Len(s) => g = "told" BY <1>2
  <2>2. k # Len(s) => \E c, h : Leads(c, x, g, h)
    <3>1. k # Len(s) => k \in 1..Len(s) - 1 BY <1>2, <1>4
    <3> QED BY <1>2, <3>1
  <2>3. \A c, h : Leads(c, x, g, h) => g \in Stages
    BY DEF Leads, WaitLeads, ClearLeads, OpcodeLeads, StartLeads, Stages
  <2>4. "told" \in Stages BY DEF Stages
  <2> QED BY <2>1, <2>2, <2>3, <2>4
<1>7. s[k].op \in {"write", "start", "poll", "status"}
  <2>1. CASE k = Len(s) BY <1>2, <2>1
  <2>2. CASE k # Len(s)
    <3>1. k \in 1..Len(s) - 1 BY <1>2, <1>4, <2>2
    <3>2. Leads(s[k], x, g, Course(x)[k + 1]) BY <1>2, <3>1
    <3>3. \A c, h : Leads(c, x, g, h) => c.op \in {"write", "start", "poll"}
      BY Cycles, SpiCycles DEF Leads
    <3> QED BY <3>2, <3>3
  <2> QED BY <2>1, <2>2
<1> PICK c : c = s[k] OBVIOUS
<1> PICK r : r = Rest(s, k + 1) OBVIOUS
<1>8. /\ Stays
      /\ \/ c.op = "write" /\ BusWrite(job.family, c.to, c.value) /\ todo' = r
         \/ /\ c.op = "start" /\ todo' = r /\ UNCHANGED <<cell, mode, busy, locked>>
            /\ SpiWrite(Ctl, [cmd |-> c.code, bytes |-> spi.ctl.bytes \cup Bytes[c.code]])
         \/ /\ c.op = "poll" /\ UNCHANGED chipVars
            /\ todo' = IF (7 \in BusRead(job.family, c.to)) = c.bit THEN r ELSE todo
         \/ /\ c.op = "status" /\ UNCHANGED chipVars
            /\ todo' = IF 0 \in BusRead(job.family, DataReg) THEN ReadStatus \o todo ELSE r
         \/ Complete /\ todo' = todo
         \/ Transfer /\ todo' = todo
         \/ UNCHANGED <<chipVars, todo>>
  BY <1>5, <1>7, Moves
<1>9. job' = job /\ Course(x)' = Course(x) /\ ~Parallel'
  BY <1>1, <1>8, JobKept, ScriptsKept DEF Stays
(* The next cycle, or the same one, finds the stage it needs.                 *)
<1>10. ASSUME NEW j \in 1..Len(s), todo' = Rest(s, j), mode' = "read", Stage(Course(x)[j], x)'
       PROVE  \E i \in 1..17 : Sending(x, s, i)'
  <2>1. j \in 1..17
    <3> PICK l : l = Len(s) OBVIOUS
    <3>1. l \in 13..17 BY DEF Script
    <3>2. j \in 1..l OBVIOUS
    <3> QED BY ONLY <3>1, <3>2
  <2>2. Sending(x, s, j)' BY <1>1, <1>2, <1>9, <1>10 DEF Sending
  <2> QED BY <2>1, <2>2
<1>11. CASE UNCHANGED chipVars /\ todo' = todo
  <2>1. Stage(g, x)' BY <1>6, <1>1, <1>9, <1>11, StageKept
  <2> QED BY <1>1, <1>3, <1>4, <1>8, <1>10, <1>11, <2>1 DEF chipVars, Quiet
<1>12. CASE Complete /\ todo' = todo
  <2>1. Stage(g, x)' BY <1>1, <1>3, <1>6, <1>9, <1>12, StageCompletes
  <2>2. mode' = mode /\ locked' = locked BY <1>12 DEF Complete
  <2> QED BY <1>1, <1>3, <1>4, <1>8, <1>10, <1>12, <2>1, <2>2
<1>13. CASE Transfer /\ todo' = todo
  <2>1. Stage(g, x)' /\ (Quiet \/ Starts(x)) BY <1>1, <1>3, <1>6, <1>9, <1>13, StageTransfers
  <2>2. mode' = mode /\ locked' = locked BY <1>13 DEF Transfer
  <2> QED BY <1>1, <1>3, <1>4, <1>8, <1>10, <1>13, <2>1, <2>2
<1>14. CASE /\ k # Len(s) /\ todo' = r
            /\ \/ c.op = "write" /\ BusWrite(job.family, c.to, c.value)
               \/ /\ c.op = "start" /\ UNCHANGED <<cell, mode, busy, locked>>
                  /\ SpiWrite(Ctl, [cmd |-> c.code, bytes |-> spi.ctl.bytes \cup Bytes[c.code]])
               \/ /\ c.op = "poll" /\ UNCHANGED chipVars
                  /\ (7 \in BusRead(job.family, c.to)) = c.bit
  <2>1. k \in 1..Len(s) - 1 /\ k + 1 \in 1..Len(s) BY <1>2, <1>4, <1>14
  <2>2. Leads(c, x, g, Course(x)[k + 1]) BY <1>2, <2>1
  <2>3. Quiet /\ mode' = mode /\ Stage(Course(x)[k + 1], x)'
    BY <1>1, <1>3, <1>6, <1>9, <1>14, <2>2, CycleLeads
  <2> QED BY <1>1, <1>3, <1>8, <1>10, <1>14, <2>1, <2>3 DEF Quiet
<1>15. CASE c.op = "status" /\ UNCHANGED chipVars
            /\ todo' = IF 0 \in BusRead(job.family, DataReg) THEN ReadStatus \o todo ELSE r
  <2>1. k = Len(s)
    <3>1. \A d, h : Leads(d, x, g, h) => d.op \in {"write", "start", "poll"}
      BY Cycles, SpiCycles DEF Leads
    <3>2. k # Len(s) => k \in 1..Len(s) - 1 BY <1>2, <1>4
    <3> QED BY <1>2, <1>15, <3>1, <3>2
  <2>2. Stage("told", x) /\ Begun(x) /\ Told BY <1>1, <1>2, <2>1 DEF Stage
  <2>3. BusRead(job.family, DataReg) = spi.data[1]
    <3>1. DataReg \notin Cells /\ DataReg # Ctl BY Total DEF DataReg, Ctl
    <3> QED BY <1>3, <3>1 DEF BusRead
  <2>4. /\ Effect(x)' = Effect(x) /\ busy' = busy /\ spi' = spi /\ mode' = mode /\ locked' = locked
        /\ Quiet
    BY <1>9, <1>15, QuietKeeps DEF chipVars, Quiet
  <2>5. CASE 0 \in spi.data[1]
    <3>1. todo' = Rest(s, n) BY <1>1, <1>2, <1>15, <2>1, <2>3, <2>5
    <3>2. Stage("begun", x)' BY <2>2, <2>4 DEF Stage, Begun
    <3>3. Stage(Course(x)[n], x)' /\ n \in 1..Len(s) BY <1>2, <1>9, <3>2
    <3>4. mode' = "read" BY <1>1, <2>4
    <3>5. \E j \in 1..17 : Sending(x, s, j)' BY <1>10, <3>1, <3>3, <3>4
    <3> QED BY <1>3, <1>8, <2>4, <3>4, <3>5
  <2>6. CASE 0 \notin spi.data[1]
    <3>1. todo' = <<>> BY <1>2, <1>15, <2>1, <2>3, <2>6, Whole
    <3>2. busy' = Ready /\ ~spi'.sending /\ Effect(x)' BY <2>2, <2>4, <2>6 DEF Begun, Told
    <3> QED BY <1>1, <1>3, <1>8, <2>4, <3>1, <3>2
  <2> QED BY <2>5, <2>6
<1>16. k = Len(s) => c.op = "status" BY <1>2
<1> QED BY <1>8, <1>11, <1>12, <1>13, <1>14, <1>15, <1>16 DEF chipVars
-----------------------------------------------------------------------------
(* A block of a serial chip is erased, a word of it written.                  *)
LEMMA JobStays == [Next]_vars => job' = job
<1> SUFFICES ASSUME [Next]_vars PROVE job' = job OBVIOUS
<1>1. CASE HostStep
  BY <1>1 DEF HostStep, sflash_erase_area, EnterBypass, LoadWord, Reset, SaveWord, LoadMemory,
              WriteCycle, StartCycle, CheckCycle, PollCycle, StatusCycle
<1>2. CASE ChipStep \/ ControllerStep BY <1>2 DEF ChipStep, ControllerStep, hostVars
<1>3. CASE Finished \/ UNCHANGED vars BY <1>3 DEF Finished, vars, hostVars
<1> QED BY <1>1, <1>2, <1>3 DEF Next

LEMMA SerialEraseStep ==
  ASSUME ChipInv, BusyInv, [Next]_vars, ~Checked, job.op \in {"flash", "erase"},
         NEW b \in Blocks, ToErase(b), pc = "erase", at = b + 1, ErasedUpTo(b),
         NEW k \in 1..17, Sending(EraseOf(b), sflash_erase_block(b), k)
  PROVE  BlockErased' /\ BusyInv'
<1> PICK x : x = EraseOf(b) OBVIOUS
<1> PICK s : s = sflash_erase_block(b) OBVIOUS
<1>1. /\ ~Parallel /\ job' = job /\ locked = {} /\ cell \in [Cells -> Half] /\ SpiShape(spi)
  BY JobStays DEF ChipInv, Sending, Parallel
<1>2. PICK n : Command(x) /\ Script(x, s, n) BY <1>1, SerialScripts
<1>3. Starts(x) => ErasedUpTo(b)' /\ Effect(x)'
  <2> SUFFICES ASSUME Starts(x) PROVE ErasedUpTo(b)' /\ Effect(EraseOf(b))' OBVIOUS
  <2> QED BY <1>1, EraseBegun DEF Starts
<1>4. /\ Stays /\ mode' = "read" /\ locked' = {}
      /\ Quiet \/ Complete \/ Starts(x)
      /\ \/ \E j \in 1..17 : Sending(x, s, j)'
         \/ todo' = <<>> /\ busy' = Ready /\ ~spi'.sending /\ Effect(x)'
  BY <1>2, <1>3, SerialMoves
<1>5. ErasedUpTo(b)' /\ BusyInv'
  <2>1. CASE Quiet
    <3>1. After' = After BY <2>1, AfterKept DEF Quiet
    <3> QED BY <1>1, <1>4, <2>1, <3>1, ProgressKept, BusyKept DEF Quiet
  <2>2. CASE Complete
    <3>1. After' = After /\ busy' = Ready BY <1>1, <2>2, Completes
    <3> QED BY <1>1, <1>4, <3>1, ProgressKept, BusyKept
  <2>3. CASE Starts(x) BY <1>1, <1>3, <2>3, EraseBusy DEF Starts
  <2> QED BY <1>4, <2>1, <2>2, <2>3
<1>6. CASE \E j \in 1..17 : Sending(x, s, j)'
  <2>1. at' \in Nat /\ at' - 1 = b /\ pc' = "erase"
    <3>1. b \in Nat BY SizesFacts
    <3> QED BY <1>4, <3>1 DEF Stays
  <2>2. ToErase(b)' BY <1>1, JobKept
  <2>3. s = sflash_erase_block(b)' /\ x = EraseOf(b)' BY <1>1, ScriptsKept
  <2>4. InErase' BY <1>5, <1>6, <2>1, <2>2, <2>3 DEF InErase
  <2> QED BY <1>5, <2>4 DEF BlockErased
<1>7. CASE todo' = <<>> /\ busy' = Ready /\ ~spi'.sending /\ Effect(x)'
  <2>1. Effect(EraseOf(b))' /\ b \notin locked' BY <1>4, <1>7
  <2> QED BY <1>4, <1>5, <1>7, <2>1, ErasedNow
<1> QED BY <1>4, <1>6, <1>7

LEMMA SerialWordStep ==
  ASSUME ChipInv, BusyInv, [Next]_vars, ~Checked, NEW w, NEW word, Loads(w, word),
         NEW k \in 1..17, Sending(Program(2 * w, word), sflash_write_word(w, word), k)
  PROVE  WordLoaded' /\ BusyInv'
<1> PICK x : x = Program(2 * w, word) OBVIOUS
<1> PICK s : s = sflash_write_word(w, word) OBVIOUS
<1>1. /\ ~Parallel /\ job' = job /\ locked = {} /\ cell \in [Cells -> Half] /\ SpiShape(spi)
      /\ job \in Jobs /\ job.family = "SPI" /\ ~Crossed
  BY JobStays DEF ChipInv, Sending, Parallel, Crossed
<1>2. PICK n : Command(x) /\ Script(x, s, n) BY <1>1, SerialScripts
<1>3. /\ job.op = "flash" /\ pc = "load" /\ at = w + 1 /\ w \in Words /\ InArea(w)
      /\ word \in AreaWord(w) /\ word \in Half \X Half
      /\ Careful => Open /\ Clean(w + 1) /\ Written(w)
  BY DEF Loads
<1>4. Starts(x) => (Careful => (Open /\ Clean(w + 1) /\ Written(w))') /\ Effect(x)'
  <2> SUFFICES ASSUME Starts(x)
               PROVE  (Careful => (Open /\ Clean(w + 1) /\ Written(w))') /\ Effect(Program(2 * w, word))'
    OBVIOUS
  <2>1. /\ busy = Ready /\ cell' = cell /\ locked' = locked /\ busy' = Program(2 * w, word)
        /\ Before(Program(2 * w, word))
    BY DEF Starts
  <2> QED BY <1>1, <1>3, <2>1, WordBegun
<1>5. /\ Stays /\ mode' = "read" /\ locked' = {}
      /\ Quiet \/ Complete \/ Starts(x)
      /\ \/ \E j \in 1..17 : Sending(x, s, j)'
         \/ todo' = <<>> /\ busy' = Ready /\ ~spi'.sending /\ Effect(x)'
  BY <1>2, <1>4, SerialMoves
<1>6. Loads(w, word)' /\ BusyInv'
  <2>1. CASE Quiet
    <3>1. After' = After BY <2>1, AfterKept DEF Quiet
    <3> QED BY <1>1, <1>5, <2>1, <3>1, LoadsKept, BusyKept DEF Quiet
  <2>2. CASE Complete
    <3>1. After' = After /\ busy' = Ready BY <1>1, <2>2, Completes
    <3> QED BY <1>1, <1>5, <3>1, LoadsKept, BusyKept
  <2>3. CASE Starts(x)
    <3>1. Loads(w, word)' BY <1>1, <1>3, <1>4, <1>5, <2>3, JobKept DEF Loads, Stays
    <3>2. /\ busy = Ready /\ cell' = cell /\ busy' = Program(2 * w, word)
          /\ Before(Program(2 * w, word))
      BY <2>3 DEF Starts
    <3> QED BY <1>1, <1>3, <3>1, <3>2, WordBusy
  <2> QED BY <1>5, <2>1, <2>2, <2>3
<1>7. CASE \E j \in 1..17 : Sending(x, s, j)'
  <2>1. w \in Nat /\ w + 1 \in job.start + 1..job.start + job.length BY <1>1, <1>3, AreaBounds
  <2>2. at' - 1 = w /\ pc' = "load" /\ at' = w + 1 BY <1>3, <1>5, <2>1 DEF Stays
  <2>3. s = sflash_write_word(w, word)' /\ x = Program(2 * w, word)' BY <1>1, ScriptsKept
  <2>4. /\ word \in AreaWord(w)' /\ (Careful => Open /\ Clean(w + 1) /\ Written(w))'
    BY <1>6 DEF Loads
  <2>5. InLoad' BY <1>1, <1>7, <2>1, <2>2, <2>3, <2>4 DEF InLoad
  <2> QED BY <1>6, <2>5 DEF WordLoaded
<1>8. CASE todo' = <<>> /\ busy' = Ready /\ ~spi'.sending /\ Effect(x)'
  <2>1. (Careful => Written(w))' /\ Effect(Program(2 * w, word))' /\ ~Crossed'
        /\ word \in AreaWord(w)'
    BY <1>1, <1>6, <1>8 DEF Loads, Crossed
  <2>2. (Careful => Written(w + 1))'
    <3>1. DOMAIN word = {1, 2} BY <1>3
    <3>2. Careful' => \A i \in {1, 2} : After'[2 * w + i - 1] = word[i] BY <2>1, <3>1, Kinds DEF Effect
    <3>3. CellOf(w, 1)' = 2 * w + 1 - 1 /\ CellOf(w, 2)' = 2 * w + 2 - 1 BY <1>1, <1>3, JobKept, Places
    <3>4. \A v \in Words : v < w + 1 => v < w \/ v = w BY <1>3, Total
    <3>5. <<word[1], word[2]>> = word BY <1>3
    <3> QED BY <2>1, <3>2, <3>3, <3>4, <3>5 DEF Written
  <2>3. Settled' BY <1>1, <1>5, <1>8 DEF Settled
  <2> QED BY <1>1, <1>5, <1>6, <1>8, <2>2, <2>3, LoadedNow
<1> QED BY <1>5, <1>7, <1>8

-----------------------------------------------------------------------------
(* The turns of the loops: what begins with nothing left to do.               *)
Turns == \/ sflash_erase_area \/ EnterBypass \/ LoadWord \/ Reset \/ SaveWord \/ LoadMemory

LEMMA Begins ==
  ASSUME [Next]_vars, todo = <<>>
  PROVE  \/ Turns
         \/ Stays /\ todo' = todo /\ again' = again /\ (Complete \/ Transfer \/ UNCHANGED chipVars)
<1>1. CASE HostStep
  BY <1>1 DEF HostStep, WriteCycle, StartCycle, CheckCycle, PollCycle, StatusCycle, Turns
<1>2. CASE ChipStep \/ ControllerStep BY <1>2 DEF ChipStep, ControllerStep, hostVars, Stays
<1>3. CASE Finished \/ UNCHANGED vars BY <1>3 DEF Finished, vars, hostVars, Stays
<1> QED BY <1>1, <1>2, <1>3 DEF Next

(* Between two turns the chip is quiet, or completes.                         *)
LEMMA AtRest ==
  ASSUME ChipInv, BusyInv, [Next]_vars, todo = <<>>, ~spi.sending, ~Turns
  PROVE  /\ Stays /\ todo' = <<>> /\ After' = After /\ locked' = locked /\ mode' = mode
         /\ spi'.sending = spi.sending /\ BusyInv'
         /\ busy' = busy \/ busy' = Ready
<1>1. cell \in [Cells -> Half] /\ SpiShape(spi) /\ job' = job BY JobStays DEF ChipInv
<1>2. Stays /\ todo' = todo /\ (Complete \/ UNCHANGED chipVars) BY Begins DEF Transfer
<1>3. CASE Complete BY <1>1, <1>2, <1>3, Completes, BusyKept
<1>4. CASE UNCHANGED chipVars
  <2>1. cell' = cell /\ busy' = busy /\ locked' = locked /\ mode' = mode /\ spi' = spi
    BY <1>4 DEF chipVars
  <2>2. After' = After BY <2>1, AfterKept
  <2> QED BY <1>1, <1>2, <2>1, <2>2, BusyKept
<1> QED BY <1>2, <1>3, <1>4

(* A turn touches nothing of the chip.                                        *)
LEMMA TurnKeeps ==
  ASSUME Turns, BusyInv
  PROVE  /\ job' = job /\ UNCHANGED chipVars /\ cell' = cell /\ busy' = busy /\ locked' = locked
         /\ mode' = mode /\ spi' = spi /\ After' = After /\ BusyInv'
<1>1. job' = job /\ UNCHANGED chipVars
  BY DEF Turns, sflash_erase_area, EnterBypass, LoadWord, Reset, SaveWord, LoadMemory
<1>2. cell' = cell /\ busy' = busy /\ locked' = locked /\ mode' = mode /\ spi' = spi
  BY <1>1 DEF chipVars
<1>3. After' = After BY <1>2, AfterKept
<1> QED BY <1>1, <1>2, <1>3, BusyKept

LEMMA JobFacts ==
  ASSUME job \in Jobs
  PROVE  /\ job.start \in Nat /\ job.length \in Nat /\ job.start \in Words
         /\ job.start + job.length \in job.start..job.start + job.length
         /\ job.start \in job.start..job.start + job.length
         /\ job.start + job.length - 1 \in Words
         /\ job.family \in {"AMD", "SST", "Intel", "SPI"}
         /\ job.op \in {"flash", "erase", "backup", "load"}
         /\ Len(job.image) \in Nat
<1> DEFINE s == job.start
           l == job.length
<1>1. /\ s \in Words /\ l \in Nat /\ s + l - 1 \in Words
      /\ job.family \in {"AMD", "SST", "Intel", "SPI"}
      /\ job.op \in {"flash", "erase", "backup", "load"}
  BY JobsAssumption
<1>4. Len(job.image) \in Nat
  <2>1. job.image \in Seq(Half \X Half) BY JobsAssumption
  <2> QED BY <2>1
<1>2. s \in Nat BY <1>1, Total
<1>3. s + l \in s..s + l /\ s \in s..s + l
  <2> HIDE DEF s, l
  <2> QED BY <1>1, <1>2
<1> QED BY <1>1, <1>2, <1>3, <1>4

LEMMA EraseTurn ==
  ASSUME ChipInv, BusyInv, [Next]_vars, ~Checked, job.op \in {"flash", "erase"}, AtErase
  PROVE  (BlockErased \/ (job.op = "flash" /\ AtBypass) \/ AtReset)' /\ BusyInv'
<1>1. /\ pc = "erase" /\ todo = <<>> /\ at \in 1..Len(Sizes) + 1
      /\ mode = "read" /\ busy = Ready /\ ~spi.sending /\ ErasedUpTo(at)
  BY DEF AtErase
<1>2. job' = job /\ job \in Jobs BY JobStays DEF ChipInv
<1>3. CASE ~Turns
  <2>1. /\ Stays /\ todo' = <<>> /\ After' = After /\ locked' = locked /\ mode' = mode
        /\ spi'.sending = spi.sending /\ BusyInv' /\ busy' = Ready
    BY <1>1, <1>3, AtRest
  <2>2. ErasedUpTo(at)' BY <1>1, <1>2, <2>1, ProgressKept DEF Stays
  <2>3. AtErase' BY <1>1, <2>1, <2>2 DEF AtErase, Stays
  <2> QED BY <2>1, <2>3 DEF BlockErased
<1>4. CASE Turns
  <2>1. sflash_erase_area
    BY <1>1, <1>4 DEF Turns, EnterBypass, LoadWord, Reset, SaveWord, LoadMemory
  <2>2. /\ cell' = cell /\ busy' = Ready /\ locked' = locked /\ mode' = "read" /\ spi' = spi
        /\ After' = After /\ BusyInv'
    BY <1>1, <1>4, TurnKeeps
  <2>3. CASE at \in Blocks /\ ToErase(at)
    <3> PICK b \in Blocks : b = at BY <2>3
    <3> PICK s : s = sflash_erase_block(b) OBVIOUS
    <3>1. /\ todo' = s /\ at' = b + 1 /\ pc' = "erase" /\ ToErase(b)
      BY <1>1, <2>1, <2>3 DEF sflash_erase_area
    <3>2. at' \in Nat /\ at' - 1 = b
      <4>1. b \in Nat BY SizesFacts
      <4> QED BY <3>1, <4>1
    <3>3. ErasedUpTo(b)' /\ ToErase(b)' BY <1>1, <1>2, <2>2, <3>1, JobKept, ProgressKept
    <3>4. s = sflash_erase_block(b)' /\ (Parallel' <=> Parallel) /\ EraseCourse' = EraseCourse
          /\ Course(EraseOf(b))' = Course(EraseOf(b))
      BY <1>2, ScriptsKept, JobKept
    <3>5. CASE Parallel
      <4>1. \E S : s \in Seq(S)
        <5>1. CASE job.family = "Intel" BY <5>1, IntelEraseScript DEF IntelErases
        <5>2. CASE job.family \in {"AMD", "SST"} BY <5>2, AmdEraseScript DEF AmdErases
        <5> QED BY <3>5, <1>2, <5>1, <5>2, JobFacts DEF Parallel
      <4>2. s = Rest(s, 1) BY <4>1, Whole
      <4>3. 1 \in DOMAIN EraseCourse /\ EraseCourse[1] = "read" BY DEF EraseCourse
      <4>4. ~EraseStarted(1)' /\ ~(1 >= 4) BY DEF EraseStarted
      <4>5. Erasing(b, 1)' BY <2>2, <3>1, <3>4, <3>5, <4>2, <4>3, <4>4 DEF Erasing
      <4>6. InErase' BY <3>1, <3>2, <3>3, <4>5 DEF InErase
      <4> QED BY <2>2, <4>6 DEF BlockErased
    <3>6. CASE ~Parallel
      <4> PICK x : x = EraseOf(b) OBVIOUS
      <4>1. PICK n : Script(x, s, n) BY <3>6, SerialScripts
      <4>2. s = Rest(s, 1) BY <4>1, Whole DEF Script
      <4>3. 1 \in DOMAIN Course(x) /\ Course(x)[1] = "calm" BY <4>1 DEF Script
      <4>4. Before(x)' BY Kinds DEF Before, EraseOf
      <4>5. Stage("calm", x)' BY <1>1, <2>2, <4>4 DEF Stage, Calm
      <4>6. Sending(x, s, 1)' BY <2>2, <3>1, <3>4, <3>6, <4>2, <4>3, <4>5 DEF Sending
      <4>7. InErase' BY <3>1, <3>2, <3>3, <3>4, <4>6 DEF InErase
      <4> QED BY <2>2, <4>7 DEF BlockErased
    <3> QED BY <3>5, <3>6
  <2>4. CASE at \in Blocks /\ ~ToErase(at)
    <3> PICK m : m = at + 1 OBVIOUS
    <3>1. /\ todo' = <<>> /\ at' = m /\ pc' = "erase"
      BY <1>1, <2>1, <2>4 DEF sflash_erase_area
    <3>2. ErasedUpTo(m) BY <1>1, <2>4, EraseDone
    <3>3. m \in 1..Len(Sizes) + 1 BY <2>4, SizesFacts
    <3>4. ErasedUpTo(m)' BY <1>2, <2>2, <3>2, ProgressKept
    <3>5. AtErase' BY <1>1, <2>2, <3>1, <3>3, <3>4 DEF AtErase
    <3> QED BY <2>2, <3>5 DEF BlockErased
  <2>5. CASE at \notin Blocks
    <3>1. /\ todo' = <<>> /\ at' = at
          /\ pc' = IF job.op = "erase" THEN "reset" ELSE "bypass"
      BY <1>1, <2>1, <2>5 DEF sflash_erase_area
    <3>2. at = Len(Sizes) + 1 BY <1>1, <2>5, SizesFacts
    <3>3. (Careful' <=> Careful) /\ (Bypassed' <=> Bypassed) BY <1>2, JobKept
    <3>4. CASE job.op = "erase"
      <4>1. Through' BY <3>3, <3>4 DEF Careful, Through
      <4>2. Settled' BY <1>1, <1>2, <2>2, <3>3, <3>4, JobFacts DEF Settled, Bypassed
      <4>3. AtReset' BY <3>1, <3>4, <4>1, <4>2 DEF AtReset
      <4> QED BY <2>2, <4>3
    <3>5. CASE job.op # "erase"
      <4>1. Careful => Open /\ Clean(job.start)
        BY <1>1, <1>2, <3>2, AreaErased DEF Careful
      <4>2. (Careful => Open /\ Clean(job.start))' BY <1>2, <2>2, <3>3, <4>1, ProgressKept
      <4>3. AtBypass' BY <1>1, <2>2, <3>1, <3>5, <4>2 DEF AtBypass
      <4> QED BY <1>2, <2>2, <3>5, <4>3
    <3> QED BY <3>4, <3>5
  <2> QED BY <2>3, <2>4, <2>5
<1> QED BY <1>3, <1>4

-----------------------------------------------------------------------------
LEMMA BypassTurn ==
  ASSUME ChipInv, BusyInv, [Next]_vars, ~Checked, job.op = "flash", AtBypass
  PROVE  (AtBypass \/ InBypass \/ AtLoad)' /\ BusyInv'
<1>1. /\ pc = "bypass" /\ todo = <<>> /\ mode = "read" /\ busy = Ready /\ ~spi.sending
      /\ Careful => Open /\ Clean(job.start)
  BY DEF AtBypass
<1>2. job' = job /\ job \in Jobs BY JobStays DEF ChipInv
<1>3. (Careful' <=> Careful) /\ (Bypassed' <=> Bypassed) BY <1>2, JobKept
<1>4. CASE ~Turns
  <2>1. /\ Stays /\ todo' = <<>> /\ After' = After /\ locked' = locked /\ mode' = mode
        /\ spi'.sending = spi.sending /\ BusyInv' /\ busy' = Ready
    BY <1>1, <1>4, AtRest
  <2>2. (Careful => Open /\ Clean(job.start))' BY <1>1, <1>2, <1>3, <2>1, ProgressKept
  <2>3. AtBypass' BY <1>1, <2>1, <2>2 DEF AtBypass, Stays
  <2> QED BY <2>1, <2>3
<1>5. CASE Turns
  <2>1. EnterBypass
    BY <1>1, <1>5 DEF Turns, sflash_erase_area, LoadWord, Reset, SaveWord, LoadMemory
  <2>2. /\ cell' = cell /\ busy' = Ready /\ locked' = locked /\ mode' = "read" /\ spi' = spi
        /\ After' = After /\ BusyInv'
    BY <1>1, <1>5, TurnKeeps
  <2>3. /\ todo' = IF job.cl_bypass THEN unlock_bypass ELSE <<>>
        /\ pc' = "load" /\ at' = job.start
    BY <2>1 DEF EnterBypass
  <2>4. (Careful => Open /\ Clean(job.start))' BY <1>1, <1>2, <1>3, <2>2, ProgressKept
  <2>5. CASE job.cl_bypass
    <3>1. unlock_bypass = Rest(unlock_bypass, 1) BY BypassScript, Whole
    <3>2. Entering(1)' BY <1>1, <1>2, <2>2, <2>3, <2>5, <3>1 DEF Entering
    <3>3. InBypass' BY <1>2, <2>3, <2>4, <2>5, <3>2 DEF InBypass, Bypassed
    <3> QED BY <2>2, <3>3
  <2>6. CASE ~job.cl_bypass
    <3>1. Settled' BY <1>1, <1>2, <1>3, <2>2, <2>6, JobFacts DEF Settled, Bypassed
    <3>2. job.start \in Nat /\ job.start \in job.start..job.start + job.length BY <1>2, JobFacts
    <3>3. (Careful => Written(job.start))'
      <4>1. \A w \in Words : ~(InArea(w)' /\ w < job.start)
        BY <1>2, <3>2, Total DEF InArea
      <4> QED BY <1>2, <4>1 DEF Written
    <3>4. AtLoad' BY <1>2, <2>3, <2>4, <2>6, <3>1, <3>2, <3>3 DEF AtLoad
    <3> QED BY <2>2, <3>4
  <2> QED BY <2>5, <2>6
<1> QED BY <1>4, <1>5

(* Where the loop over the area stands.                                       *)
LEMMA AreaPlace ==
  ASSUME job \in Jobs, NEW a \in job.start..job.start + job.length
  PROVE  /\ a \in Nat
         /\ InArea(a) => a \in Words /\ a + 1 \in job.start + 1..job.start + job.length
                         /\ a + 1 \in job.start..job.start + job.length
         /\ ~InArea(a) => a = job.start + job.length
<1> DEFINE s == job.start
           l == job.length
<1>1. s \in Nat /\ l \in Nat /\ s + l - 1 \in Words BY JobFacts
<1>2. \A v \in Nat : v <= s + l - 1 => v \in Words
  <2> HIDE DEF s, l
  <2>1. Base[Len(Sizes) + 1] \in Nat BY Total
  <2> QED BY <1>1, <2>1 DEF Words
<1>3. InArea(a) <=> s <= a /\ a < s + l BY DEF InArea
<1> HIDE DEF s, l
<1>4. a \in s..s + l BY DEF s, l
<1>5. a \in Nat /\ (InArea(a) => a <= s + l - 1 /\ a + 1 \in s + 1..s + l /\ a + 1 \in s..s + l)
      /\ (~InArea(a) => a = s + l)
  BY <1>1, <1>3, <1>4
<1> QED BY <1>2, <1>5 DEF s, l

LEMMA LoadTurn ==
  ASSUME ChipInv, BusyInv, [Next]_vars, ~Checked, job.op = "flash", AtLoad
  PROVE  (WordLoaded \/ AtReset)' /\ BusyInv'
<1>1. /\ pc = "load" /\ todo = <<>> /\ at \in job.start..job.start + job.length /\ Settled
      /\ Careful => Open /\ Clean(at) /\ Written(at)
  BY DEF AtLoad
<1>2. /\ job' = job /\ job \in Jobs /\ job.family \in {"AMD", "SST", "Intel", "SPI"}
      /\ locked \subseteq locked
  BY JobStays, JobFacts DEF ChipInv
<1>3. /\ (Careful' <=> Careful) /\ (Bypassed' <=> Bypassed) /\ (Waits' <=> Waits)
      /\ (Parallel' <=> Parallel)
  BY <1>2, JobKept
<1>4. ~spi.sending /\ (busy = Ready \/ Unpolled) BY <1>1 DEF Settled
<1>5. ASSUME mode' = mode, spi'.sending = spi.sending, busy' = busy \/ busy' = Ready PROVE Settled'
  BY <1>1, <1>2, <1>3, <1>5 DEF Settled, Unpolled
<1>6. CASE ~Turns
  <2>1. /\ Stays /\ todo' = <<>> /\ After' = After /\ locked' = locked /\ mode' = mode
        /\ spi'.sending = spi.sending /\ BusyInv' /\ (busy' = busy \/ busy' = Ready)
    BY <1>1, <1>4, <1>6, AtRest
  <2>2. (Careful => Open /\ Clean(at) /\ Written(at))'
    <3> PICK a : a = at OBVIOUS
    <3>1. (Careful => Open /\ Clean(a) /\ Written(a))' BY <1>1, <1>2, <1>3, <2>1, ProgressKept
    <3> QED BY <2>1, <3>1 DEF Stays
  <2>3. AtLoad' BY <1>1, <1>5, <2>1, <2>2 DEF AtLoad, Stays
  <2> QED BY <2>1, <2>3 DEF WordLoaded
<1>7. CASE Turns
  <2>1. LoadWord
    BY <1>1, <1>7 DEF Turns, sflash_erase_area, EnterBypass, Reset, SaveWord, LoadMemory
  <2>2. /\ cell' = cell /\ busy' = busy /\ locked' = locked /\ mode' = mode /\ spi' = spi
        /\ After' = After /\ BusyInv'
    BY <1>7, TurnKeeps
  <2>3. Settled' BY <1>5, <2>2
  <2> PICK w : w = at OBVIOUS
  <2>4. CASE ~InArea(w)
    <3>1. pc' = "reset" /\ at' = at /\ todo' = <<>> BY <1>1, <2>1, <2>4 DEF LoadWord
    <3>2. w = job.start + job.length BY <1>1, <1>2, <2>4, AreaPlace
    <3>3. (Careful => Written(w))' BY <1>1, <1>2, <1>3, <2>2, ProgressKept
    <3>4. Through' BY <1>2, <3>2, <3>3 DEF Through
    <3>5. AtReset' BY <2>3, <3>1, <3>4 DEF AtReset
    <3> QED BY <2>2, <3>5
  <2>5. CASE InArea(w)
    <3>1. /\ w \in Words /\ w + 1 \in job.start + 1..job.start + job.length /\ w \in Nat
          /\ w + 1 \in job.start..job.start + job.length
      BY <1>1, <1>2, <2>5, AreaPlace
    <3>2. PICK word \in AreaWord(w) :
            /\ todo' = IF job.issue_erase /\ word = FFWord THEN <<>> ELSE sflash_write_word(w, word)
            /\ at' = w + 1 /\ pc' = "load"
      BY <1>1, <2>1, <2>5 DEF LoadWord
    <3>3. word \in Half \X Half BY <1>2, <2>5, <3>1, <3>2, WordsTyped
    <3>4. /\ Careful => Clean(w + 1)
          /\ Halves(w, word, 0)
          /\ Before(Program(2 * w, word))
      BY <1>1, <2>5, <3>1, <3>3, WordClean
    <3>5. CASE job.issue_erase /\ word = FFWord
      <4> PICK v : v = w + 1 OBVIOUS
      <4>1. Careful => Open /\ Clean(v) /\ Written(v)
        BY <1>1, <2>5, <3>1, <3>2, <3>4, <3>5, WordSkipped
      <4>2. (Careful => Open /\ Clean(v) /\ Written(v))' BY <1>2, <1>3, <2>2, <4>1, ProgressKept
      <4>3. AtLoad' BY <1>2, <2>3, <3>1, <3>2, <3>5, <4>2 DEF AtLoad
      <4> QED BY <2>2, <4>3 DEF WordLoaded
    <3>6. CASE ~(job.issue_erase /\ word = FFWord)
      <4> PICK s : s = sflash_write_word(w, word) OBVIOUS
      <4>1. todo' = s /\ at' - 1 = w BY <3>1, <3>2, <3>6
      <4>2. Careful => Open /\ Clean(w + 1) /\ Written(w) BY <1>1, <3>4
      <4>3. (Careful => Open /\ Clean(w + 1) /\ Written(w))' BY <1>2, <1>3, <2>2, <4>2, ProgressKept
      <4>4. word \in AreaWord(w)' BY <1>2, <3>2, JobKept
      <4>5. /\ Halves(w, word, 0)' /\ Before(Program(2 * w, word))'
        BY <1>2, <2>2, <3>4, ProgressKept
      <4>6. s = sflash_write_word(w, word)' /\ \A h : WriteHalf(w, word, h)' = WriteHalf(w, word, h)
        BY <1>2, ScriptsKept
      <4>7. CASE Parallel
        <5>1. s = WriteHalf(w, word, 1) \o WriteHalf(w, word, 2)
          BY <4>7 DEF sflash_write_word, Parallel
        <5>2. WriteHalf(w, word, 1) = Rest(WriteHalf(w, word, 1), 1)
          <6>1. \E S : WriteHalf(w, word, 1) \in Seq(S) BY <1>2, <3>1, <3>3, <4>7, HalfScript
          <6> QED BY <6>1, Whole
        <5>3. /\ Len(HalfCourse) \in {2, 4, 5} /\ DOMAIN HalfCourse = 1..Len(HalfCourse)
              /\ ~HalfStarted(1)
              /\ HalfCourse[1] = CASE job.family = "Intel" -> {"read", "status", "confirmErase"}
                                   [] job.family \in {"AMD", "SST"} /\ Bypassed -> {"bypass"}
                                   [] OTHER -> {"read"}
          BY <1>2, <4>7, HalfCourses
        <5>4. HalfCourse' = HalfCourse /\ ~HalfStarted(1)' BY <1>2, <5>3, ScriptsKept
        <5>5. mode' \in HalfCourse[1] BY <1>1, <2>2, <5>3 DEF Settled
        <5>6. 1 \in DOMAIN HalfCourse BY <5>3
        <5>9. busy' = Ready \/ Unpolled' BY <1>3, <1>4, <2>2 DEF Unpolled
        <5>7. Writing(w, word, 1, 1)'
          <6>1. Parallel' /\ 1 \in (DOMAIN HalfCourse)' /\ mode' \in HalfCourse[1]'
            BY <1>3, <4>7, <5>4, <5>5, <5>6
          <6>2. s = Rest(WriteHalf(w, word, 1), 1) \o WriteHalf(w, word, 2) BY <5>1, <5>2
          <6>3. todo' = Rest(WriteHalf(w, word, 1), 1)' \o WriteHalf(w, word, 2)'
            <7> PICK u, v : u = WriteHalf(w, word, 1) /\ v = WriteHalf(w, word, 2) OBVIOUS
            <7>1. WriteHalf(w, word, 1)' = u /\ WriteHalf(w, word, 2)' = v BY <4>6
            <7>2. Rest(WriteHalf(w, word, 1), 1)' = Rest(u, 1) BY <7>1 DEF Rest
            <7> QED BY <4>1, <6>2, <7>1, <7>2
          <6>4. Halves(w, word, 0)' /\ ~HalfStarted(1)' BY <4>5, <5>4
          <6> QED BY <5>9, <6>1, <6>3, <6>4 DEF Writing
        <5>8. InLoad' BY <1>2, <3>1, <3>2, <4>1, <4>3, <4>4, <5>7 DEF InLoad
        <5> QED BY <2>2, <5>8 DEF WordLoaded
      <4>8. CASE ~Parallel
        <5> PICK x : x = Program(2 * w, word) OBVIOUS
        <5>1. PICK n : Script(x, s, n) BY <4>8, SerialScripts
        <5>2. s = Rest(s, 1) BY <5>1, Whole DEF Script
        <5>3. 1 \in DOMAIN Course(x) /\ Course(x)[1] = "calm" /\ Course(x)' = Course(x)
          BY <1>2, <5>1, ScriptsKept DEF Script
        <5>4. mode = "read" /\ busy = Ready BY <1>1, <4>8 DEF Settled, Parallel, Unpolled, Waits
        <5>5. Stage("calm", x)' BY <1>4, <2>2, <4>5, <5>4 DEF Stage, Calm
        <5>6. Sending(x, s, 1)' BY <1>3, <2>2, <4>1, <4>8, <5>2, <5>3, <5>4, <5>5 DEF Sending
        <5>7. InLoad' BY <1>2, <3>1, <3>2, <4>1, <4>3, <4>4, <4>6, <5>6 DEF InLoad
        <5> QED BY <2>2, <5>7 DEF WordLoaded
      <4> QED BY <4>7, <4>8
    <3> QED BY <3>5, <3>6
  <2> QED BY <2>4, <2>5
<1> QED BY <1>6, <1>7

-----------------------------------------------------------------------------
(* The chip is reset, and the program ends. *)
LEMMA ResetScript ==
  ASSUME job \in Jobs, NEW s, s = sflash_reset
  PROVE  /\ \E S : s \in Seq(S)
         /\ job.family = "SPI" => s = <<>>
         /\ job.family = "Intel" => Len(s) = 2 /\ s[1] = W(0, Cmd("50")) /\ s[2] = W(0, Cmd("FF"))
         /\ job.family \in {"AMD", "SST"} => Len(s) = 1 /\ s[1] = W(0, Cmd("F0"))
<1>1. job.family \in {"AMD", "SST", "Intel", "SPI"} BY JobFacts
<1>2. PICK e1, e2, e3 : e1 = W(0, Cmd("50")) /\ e2 = W(0, Cmd("FF")) /\ e3 = W(0, Cmd("F0"))
  OBVIOUS
<1>3. CASE job.family = "SPI"
  <2>1. s = <<>> BY <1>3 DEF sflash_reset
  <2>2. s \in Seq({}) BY <2>1
  <2> QED BY <1>3, <2>1, <2>2
<1>4. CASE job.family = "Intel"
  <2>1. s = <<e1, e2>> BY <1>2, <1>4 DEF sflash_reset
  <2>2. s \in Seq({e1, e2}) /\ Len(s) = 2 /\ s[1] = e1 /\ s[2] = e2 BY ONLY <2>1
  <2> QED BY <1>2, <1>4, <2>2
<1>5. CASE job.family \in {"AMD", "SST"}
  <2>1. s = <<e3>> BY <1>2, <1>5 DEF sflash_reset
  <2>2. s \in Seq({e3}) /\ Len(s) = 1 /\ s[1] = e3 BY ONLY <2>1
  <2> QED BY <1>2, <1>5, <2>2
<1> QED BY <1>1, <1>3, <1>4, <1>5

Leaving == AtReset \/ InReset \/ AtEnd

LEMMA ThroughKept ==
  ASSUME job' = job, After' = After, locked' = locked, Through
  PROVE  Through'
<1>1. (Careful' <=> Careful) /\ \A n : Written(n)' = Written(n) BY JobKept, ProgressKept
<1> QED BY <1>1 DEF Through

LEMMA ResetTurn ==
  ASSUME ChipInv, BusyInv, [Next]_vars, ~Checked, AtReset
  PROVE  Leaving' /\ BusyInv'
<1>1. pc = "reset" /\ todo = <<>> /\ Settled /\ Through BY DEF AtReset
<1>2. /\ job' = job /\ job \in Jobs /\ job.family \in {"AMD", "SST", "Intel", "SPI"}
  BY JobStays, JobFacts DEF ChipInv
<1>3. (Bypassed' <=> Bypassed) /\ (Waits' <=> Waits) /\ (Parallel' <=> Parallel) BY <1>2, JobKept
<1>4. ~spi.sending /\ (busy = Ready \/ Unpolled) BY <1>1 DEF Settled
<1>5. ASSUME mode' = mode, spi'.sending = spi.sending, busy' = busy \/ busy' = Ready PROVE Settled'
  BY <1>1, <1>2, <1>3, <1>5 DEF Settled, Unpolled
<1>6. CASE ~Turns
  <2>1. /\ Stays /\ todo' = <<>> /\ After' = After /\ locked' = locked /\ mode' = mode
        /\ spi'.sending = spi.sending /\ BusyInv' /\ (busy' = busy \/ busy' = Ready)
    BY <1>1, <1>4, <1>6, AtRest
  <2>2. AtReset' BY <1>1, <1>2, <1>5, <2>1, ThroughKept DEF AtReset, Stays
  <2> QED BY <2>1, <2>2 DEF Leaving
<1>7. CASE Turns
  <2>1. Reset
    BY <1>1, <1>7 DEF Turns, sflash_erase_area, EnterBypass, LoadWord, SaveWord, LoadMemory
  <2>2. /\ cell' = cell /\ busy' = busy /\ locked' = locked /\ mode' = mode /\ spi' = spi
        /\ After' = After /\ BusyInv'
    BY <1>7, TurnKeeps
  <2>3. Settled' /\ Through' BY <1>1, <1>2, <1>5, <2>2, ThroughKept
  <2> PICK s : s = sflash_reset OBVIOUS
  <2>4. todo' = s /\ pc' = "done" BY <2>1 DEF Reset
  <2>5. CASE Parallel
    <3>1. (\E S : s \in Seq(S)) /\ Len(s) \in {1, 2}
      BY <1>2, <2>5, ResetScript DEF Parallel
    <3>2. s = Rest(s, 1) BY <3>1, Whole
    <3>3. 1 \in DOMAIN s
      <4>1. DOMAIN s = 1..Len(s) BY <3>1
      <4> QED BY <3>1, <4>1
    <3>4. sflash_reset' = s BY <1>2, ScriptsKept
    <3>5. Resetting(1)' BY <1>3, <1>4, <2>2, <2>3, <2>4, <2>5, <3>2, <3>3, <3>4 DEF Resetting
    <3>6. InReset' BY <2>3, <2>4, <3>5 DEF InReset
    <3> QED BY <2>2, <3>6 DEF Leaving
  <2>6. CASE ~Parallel
    <3>1. job.family = "SPI" BY <2>6 DEF Parallel
    <3>2. s = <<>> BY <1>2, <3>1, ResetScript
    <3>3. mode = "read" /\ busy = Ready BY <1>1, <3>1 DEF Settled, Unpolled, Waits
    <3>4. AtEnd' BY <1>4, <2>2, <2>3, <2>4, <3>2, <3>3 DEF AtEnd
    <3> QED BY <2>2, <3>4 DEF Leaving
  <2> QED BY <2>5, <2>6
<1> QED BY <1>6, <1>7

LEMMA ResetStep ==
  ASSUME ChipInv, BusyInv, [Next]_vars, ~Checked, InReset
  PROVE  Leaving' /\ BusyInv'
<1> PICK s : s = sflash_reset OBVIOUS
<1> PICK e : e = IF job.family = "SST" THEN "50" ELSE "30" OBVIOUS
<1>1. PICK k \in {1, 2} : Resetting(k) BY DEF InReset
<1>2. /\ Parallel /\ ~spi.sending /\ k \in DOMAIN s /\ todo = Rest(s, k)
      /\ IF k = 1 THEN Settled ELSE busy = Ready /\ mode \in {"read", "status"}
  BY <1>1 DEF Resetting
<1>3. /\ job' = job /\ job \in Jobs /\ job.family \in {"AMD", "SST", "Intel"}
      /\ cell \in [Cells -> Half] /\ SpiShape(spi) /\ pc = "done" /\ Through
  BY <1>2, JobStays, JobFacts DEF ChipInv, Parallel, InReset
<1>4. /\ \E S : s \in Seq(S)
      /\ job.family = "Intel" => Len(s) = 2 /\ s[1] = W(0, Cmd("50")) /\ s[2] = W(0, Cmd("FF"))
      /\ job.family \in {"AMD", "SST"} => Len(s) = 1 /\ s[1] = W(0, Cmd("F0"))
  BY <1>3, ResetScript
<1>5. k \in 1..Len(s) BY <1>2, <1>4
<1>6. s[k].op = "write" BY <1>3, <1>4, <1>5, Cycles
<1>7. todo # <<>> /\ Head(todo) = s[k] /\ Tail(todo) = Rest(s, k + 1) BY <1>2, <1>4, <1>5, Rests
<1>8. /\ Stays
      /\ \/ /\ job.family = "AMD" /\ job.cl_bypass => busy.op # "program"
            /\ BusWrite(job.family, s[k].to, s[k].value) /\ todo' = Rest(s, k + 1)
         \/ Complete /\ todo' = todo
         \/ Transfer /\ todo' = todo
         \/ UNCHANGED <<chipVars, todo>>
  BY <1>6, <1>7, Moves
<1>9. /\ (Bypassed' <=> Bypassed) /\ (Waits' <=> Waits) /\ (Parallel' <=> Parallel)
      /\ sflash_reset' = s
  BY <1>3, JobKept, ScriptsKept
<1>10. busy = Ready \/ Unpolled BY <1>2 DEF Settled
<1>11. CASE Complete /\ todo' = todo
  <2>1. /\ After' = After /\ busy' = Ready /\ busy # Ready /\ mode' = mode /\ locked' = locked
        /\ spi'.sending = spi.sending
    BY <1>3, <1>11, Completes
  <2>2. Settled => Settled' BY <1>3, <1>9, <2>1 DEF Settled, Unpolled
  <2>3. Resetting(k)' BY <1>2, <1>9, <1>11, <2>1, <2>2 DEF Resetting
  <2>4. InReset' BY <1>3, <1>8, <2>1, <2>3, ThroughKept DEF InReset, Stays
  <2> QED BY <1>3, <2>1, <2>4, BusyKept DEF Leaving
<1>12. CASE Transfer /\ todo' = todo BY <1>2, <1>12 DEF Transfer
<1>13. CASE UNCHANGED <<chipVars, todo>>
  <2>1. /\ After' = After /\ busy' = busy /\ mode' = mode /\ locked' = locked
        /\ spi' = spi /\ cell' = cell
    BY <1>13, AfterKept DEF chipVars
  <2>2. Settled => Settled' BY <1>3, <1>9, <2>1 DEF Settled, Unpolled
  <2>3. Resetting(k)' BY <1>2, <1>9, <1>13, <2>1, <2>2 DEF Resetting
  <2>4. InReset' BY <1>3, <1>8, <2>1, <2>3, ThroughKept DEF InReset, Stays
  <2> QED BY <1>3, <2>1, <2>4, BusyKept DEF Leaving
<1>14. CASE /\ job.family = "AMD" /\ job.cl_bypass => busy.op # "program"
            /\ BusWrite(job.family, s[k].to, s[k].value) /\ todo' = Rest(s, k + 1)
  <2>1. busy = Ready BY <1>10, <1>14 DEF Unpolled, Waits, Bypassed
  <2>2. CASE job.family = "Intel"
    <3>1. /\ cell' = cell /\ spi' = spi
          /\ mode' = IntelNext(s[k].to, s[k].value) /\ busy' = IntelStarts(s[k].to, s[k].value)
          /\ locked' = IF mode = "confirmUnlock" /\ s[k].value.cmd = "D0"
                       THEN locked \ {BlockOf(s[k].to)} ELSE locked
      BY <1>2, <1>14, <2>1, <2>2, Wires
    <3>2. CASE k = 1
      <4>1. s[k].value = Cmd("50") /\ Len(s) = 2 BY <1>4, <2>2, <3>2, Cycles
      <4>2. mode \in {"read", "status", "confirmErase"} BY <1>2, <2>2, <3>2 DEF Settled
      <4>3. mode' \in {"read", "status"} /\ busy' = Ready /\ locked' = locked
        <5>1. s[k].value.cmd = "50" BY <4>1, Cycles
        <5>2. CASE mode = "confirmErase" BY <3>1, <5>1, <5>2, IntelDecodes
        <5>3. CASE mode # "confirmErase" BY <3>1, <4>2, <5>1, <5>3, IntelDecodes
        <5> QED BY <5>2, <5>3
      <4>4. After' = After BY <2>1, <3>1, <4>3, AfterKept
      <4>5. 2 \in DOMAIN s BY <1>4, <4>1
      <4>6. Resetting(2)' BY <1>2, <1>9, <1>14, <3>1, <3>2, <4>3, <4>5 DEF Resetting
      <4>7. InReset' BY <1>3, <1>8, <4>3, <4>4, <4>6, ThroughKept DEF InReset, Stays
      <4> QED BY <1>3, <3>1, <4>3, <4>7, BusyKept DEF Leaving
    <3>3. CASE k = 2
      <4>1. s[2].value = Cmd("FF") /\ Len(s) = 2 BY <1>4, <2>2, Cycles
      <4>2. mode \in {"read", "status"} BY <1>2, <3>3
      <4>3. mode' = "read" /\ busy' = Ready /\ locked' = locked
        BY <3>1, <3>3, <4>1, <4>2, Cycles, IntelDecodes
      <4>4. After' = After BY <2>1, <3>1, <4>3, AfterKept
      <4>5. todo' = <<>> BY <1>4, <1>14, <3>3, <4>1, Whole
      <4>6. AtEnd' BY <1>2, <1>3, <1>8, <3>1, <4>3, <4>4, <4>5, ThroughKept DEF AtEnd, Stays
      <4> QED BY <1>3, <3>1, <4>3, <4>6, BusyKept DEF Leaving
    <3> QED BY <3>2, <3>3
  <2>3. CASE job.family \in {"AMD", "SST"}
    <3>1. /\ cell' = cell /\ spi' = spi /\ locked' = locked
          /\ mode' = AmdNext(s[k].to, s[k].value, e) /\ busy' = AmdStarts(s[k].to, s[k].value, e)
      BY <1>2, <1>14, <2>1, <2>3, Wires
    <3>2. /\ k = 1 /\ s[k].to = 0 /\ s[k].value = Cmd("F0") /\ Len(s) + 1 = k + 1
      <4>1. Len(s) = 1 /\ s[1] = W(0, Cmd("F0")) BY <1>4, <2>3
      <4>2. k = 1 BY <1>5, <4>1
      <4>3. s[1].to = 0 /\ s[1].value = Cmd("F0") BY <4>1, Cycles
      <4> QED BY <4>1, <4>2, <4>3
    <3>3. /\ mode \in {"read", "bypass"} /\ (mode = "bypass" => job.cl_bypass)
      BY <1>2, <2>3, <3>2 DEF Settled, Bypassed
    <3>4. mode' = mode /\ busy' = Ready
      <4>1. CASE mode = "read" BY <3>1, <3>2, <4>1, AmdDecodes
      <4>2. CASE mode = "bypass"
        <5>1. 0 \in Cells
          <6>1. 1 \in Blocks /\ Base[1] = 0 BY SizesFacts, BaseTypes
          <6> QED BY <6>1, FirstOf
        <5>2. Cmd("F0").cmd # "A0" BY Cycles
        <5> QED BY <3>1, <3>2, <4>2, <5>1, <5>2, AmdBegins
      <4> QED BY <3>3, <4>1, <4>2
    <3>5. After' = After BY <2>1, <3>1, <3>4, AfterKept
    <3>6. todo' = <<>> BY <1>4, <1>14, <3>2, Whole
    <3>7. AtEnd' BY <1>2, <1>3, <1>8, <3>1, <3>3, <3>4, <3>5, <3>6, ThroughKept DEF AtEnd, Stays
    <3> QED BY <1>3, <3>1, <3>4, <3>7, BusyKept DEF Leaving
  <2> QED BY <1>3, <2>2, <2>3
<1> QED BY <1>8, <1>11, <1>12, <1>13, <1>14

LEMMA EndStep ==
  ASSUME ChipInv, BusyInv, [Next]_vars, AtEnd
  PROVE  Leaving' /\ BusyInv'
<1>1. /\ pc = "done" /\ todo = <<>> /\ busy = Ready /\ ~spi.sending /\ Through
      /\ mode = "read" \/ (mode = "bypass" /\ job.cl_bypass)
  BY DEF AtEnd
<1>2. ~Turns
  BY <1>1 DEF Turns, sflash_erase_area, EnterBypass, LoadWord, Reset, SaveWord, LoadMemory
<1>3. /\ Stays /\ todo' = <<>> /\ After' = After /\ locked' = locked /\ mode' = mode
      /\ spi'.sending = spi.sending /\ BusyInv' /\ busy' = Ready
  BY <1>1, <1>2, AtRest
<1>4. job' = job /\ pc' = "done" BY <1>1, <1>3 DEF Stays
<1>5. AtEnd' BY <1>1, <1>3, <1>4, ThroughKept DEF AtEnd
<1> QED BY <1>3, <1>5 DEF Leaving

-----------------------------------------------------------------------------
(* What InErase and InLoad say of the block or the word in work.              *)
LEMMA EraseInWork ==
  ASSUME InErase
  PROVE  \E b \in Blocks : /\ pc = "erase" /\ at = b + 1 /\ ToErase(b) /\ ErasedUpTo(b)
                           /\ \E k \in 1..17 : \/ Erasing(b, k)
                                               \/ Sending(EraseOf(b), sflash_erase_block(b), k)
<1> PICK b : b = at - 1 OBVIOUS
<1>1. /\ b \in Blocks /\ at \in Nat /\ pc = "erase" /\ ToErase(b) /\ ErasedUpTo(b)
      /\ \E k \in 1..17 : Erasing(b, k) \/ Sending(EraseOf(b), sflash_erase_block(b), k)
  BY DEF InErase
<1>2. b \in Int BY <1>1, SizesFacts
<1>3. at = b + 1 BY <1>1, <1>2
<1> QED BY <1>1, <1>3

LEMMA WordInWork ==
  ASSUME job \in Jobs, job.op = "flash", InLoad
  PROVE  \E w, word : /\ Loads(w, word)
                      /\ \/ \E h \in {1, 2}, j \in 1..5 : Writing(w, word, h, j)
                         \/ \E k \in 1..17 :
                              Sending(Program(2 * w, word), sflash_write_word(w, word), k)
<1> PICK w : w = at - 1 OBVIOUS
<1>1. /\ pc = "load" /\ at \in job.start + 1..job.start + job.length
      /\ Careful => Open /\ Clean(at) /\ Written(w)
      /\ \E word \in AreaWord(w) :
           \/ \E h \in {1, 2}, j \in 1..5 : Writing(w, word, h, j)
           \/ \E k \in 1..17 : Sending(Program(2 * w, word), sflash_write_word(w, word), k)
  BY DEF InLoad
<1>2. at = w + 1 /\ w \in Words /\ InArea(w)
  <2> DEFINE s == job.start
             l == job.length
  <2>1. s \in Nat /\ l \in Nat /\ s + l - 1 \in Words BY JobFacts
  <2>2. \A v \in Nat : v <= s + l - 1 => v \in Words
    <3> HIDE DEF s, l
    <3>1. Base[Len(Sizes) + 1] \in Nat BY Total
    <3> QED BY <2>1, <3>1 DEF Words
  <2>3. at \in s + 1..s + l BY <1>1
  <2>4. at = w + 1 /\ w \in Nat /\ s <= w /\ w < s + l /\ w <= s + l - 1
    <3> HIDE DEF s, l
    <3> QED BY <2>1, <2>3
  <2> QED BY <2>2, <2>4 DEF InArea
<1>3. AreaWord(w) \subseteq Half \X Half BY <1>2, WordsTyped
<1> QED BY <1>1, <1>2, <1>3 DEF Loads

(* The program goes on with what it does, whatever step is next.              *)
LEMMA PhaseStep ==
  ASSUME job \in Jobs, SavedInv, ChipInv, BusyInv, PhaseInv, [Next]_vars, ~Checked,
         job.op \in {"flash", "erase"}
  PROVE  PhaseInv' /\ BusyInv'
<1>1. job' = job BY JobStays
<1>2. AtErase \/ InErase \/ (job.op = "flash" /\ (AtBypass \/ InBypass \/ AtLoad \/ InLoad)) \/ Leaving
  BY DEF PhaseInv, FlashPhase, Leaving
<1>3. FlashPhase' \/ Leaving' => PhaseInv' BY <1>1 DEF PhaseInv, Leaving
<1>4. CASE AtErase BY <1>3, <1>4, EraseTurn DEF BlockErased, FlashPhase, Leaving
<1>5. CASE InErase
  <2>1. PICK b \in Blocks : /\ pc = "erase" /\ at = b + 1 /\ ToErase(b) /\ ErasedUpTo(b)
                            /\ \E k \in 1..17 : \/ Erasing(b, k)
                                                \/ Sending(EraseOf(b), sflash_erase_block(b), k)
    BY <1>5, EraseInWork
  <2>2. PICK k \in 1..17 : Erasing(b, k) \/ Sending(EraseOf(b), sflash_erase_block(b), k) BY <2>1
  <2>3. CASE Erasing(b, k)
    <3>1. job.family \in {"AMD", "SST", "Intel"} BY <2>3, JobFacts DEF Erasing, Parallel
    <3>2. BlockErased' /\ BusyInv' BY <2>1, <2>3, <3>1, AmdEraseStep, IntelEraseStep
    <3> QED BY <1>3, <3>2 DEF BlockErased, FlashPhase
  <2>4. CASE Sending(EraseOf(b), sflash_erase_block(b), k)
    <3>1. BlockErased' /\ BusyInv' BY <2>1, <2>4, SerialEraseStep
    <3> QED BY <1>3, <3>1 DEF BlockErased, FlashPhase
  <2> QED BY <2>2, <2>3, <2>4
<1>6. CASE job.op = "flash" /\ AtBypass BY <1>3, <1>6, BypassTurn, <1>1 DEF FlashPhase, WordLoaded
<1>7. CASE job.op = "flash" /\ InBypass BY <1>1, <1>3, <1>7, BypassStep DEF FlashPhase, WordLoaded
<1>8. CASE job.op = "flash" /\ AtLoad
  BY <1>1, <1>3, <1>8, LoadTurn DEF FlashPhase, WordLoaded, Leaving
<1>9. CASE job.op = "flash" /\ InLoad
  <2>1. PICK w, word : /\ Loads(w, word)
                       /\ \/ \E h \in {1, 2}, j \in 1..5 : Writing(w, word, h, j)
                          \/ \E k \in 1..17 :
                               Sending(Program(2 * w, word), sflash_write_word(w, word), k)
    BY <1>9, WordInWork
  <2>2. WordLoaded' /\ BusyInv' BY <2>1, HalfStep, SerialWordStep
  <2> QED BY <1>1, <1>3, <1>9, <2>2 DEF WordLoaded, FlashPhase
<1>10. CASE Leaving BY <1>3, <1>10, ResetTurn, ResetStep, EndStep DEF Leaving
<1> QED BY <1>2, <1>4, <1>5, <1>6, <1>7, <1>8, <1>9, <1>10

(* The memory is filled, the chip is only reset.                              *)
LEMMA MemoryStep ==
  ASSUME job \in Jobs, SavedInv, ChipInv, BusyInv, PhaseInv, [Next]_vars, ~Checked,
         job.op = "load"
  PROVE  PhaseInv' /\ BusyInv'
<1>1. job' = job BY JobStays
<1>2. (pc = "ram" /\ todo = <<>> /\ mode = "read" /\ busy = Ready /\ ~spi.sending) \/ Leaving
  BY DEF PhaseInv, Leaving, SavedInv
<1>3. CASE Leaving BY <1>1, <1>3, ResetTurn, ResetStep, EndStep DEF Leaving, PhaseInv
<1>4. CASE pc = "ram" /\ todo = <<>> /\ mode = "read" /\ busy = Ready /\ ~spi.sending
  <2>1. CASE ~Turns
    <3>1. pc' = "ram" /\ BusyInv' BY <1>4, <2>1, AtRest DEF Stays
    <3> QED BY <1>1, <3>1 DEF PhaseInv
  <2>2. CASE Turns
    <3>1. LoadMemory
      BY <1>4, <2>2 DEF Turns, sflash_erase_area, EnterBypass, LoadWord, Reset, SaveWord
    <3>2. busy' = Ready /\ mode' = "read" /\ spi' = spi /\ BusyInv' BY <1>4, <2>2, TurnKeeps
    <3>3. CASE pc' = "ram" BY <1>1, <3>2, <3>3 DEF PhaseInv
    <3>4. CASE pc' # "ram"
      <4>1. pc' = "reset" /\ todo' = <<>> BY <1>4, <3>1, <3>4 DEF LoadMemory
      <4>2. ~Bypassed' /\ ~Careful' BY <1>1 DEF Bypassed, Careful
      <4>3. Settled' /\ Through'
        BY <1>1, <1>4, <3>2, <4>2, JobFacts DEF Settled, Through
      <4> QED BY <3>2, <4>1, <4>3 DEF PhaseInv, AtReset
    <3> QED BY <3>3, <3>4
  <2> QED BY <2>1, <2>2
<1> QED BY <1>2, <1>3, <1>4

(* Turning twice is turning back. *)
LEMMA TurnTwice ==
  ASSUME NEW h \in Half PROVE Turn(Turn(h)) = h
<1>1. h \subseteq {0, 7} BY DEF Half
<1> PICK g : g = Turn(h) OBVIOUS
<1>2. \A b : b \in g <=> \E a \in h : b = a + 8 /\ a \in {0, 7} BY <1>1 DEF Turn
<1>3. \A b : b \in Turn(g) <=> \E a \in h : b = a /\ a \in {0, 7}
  <2>1. \A b : b \in Turn(g) <=> \E a \in g : b = IF a < 8 THEN a + 8 ELSE a - 8 BY DEF Turn
  <2>2. \A a \in h : a + 8 \in g /\ a \in {0, 7} BY <1>1, <1>2
  <2>3. \A a \in {0, 7} : (IF a + 8 < 8 THEN (a + 8) + 8 ELSE (a + 8) - 8) = a OBVIOUS
  <2> QED BY <1>2, <2>1, <2>2, <2>3
<1>4. \A b : b \in Turn(g) <=> b \in h BY <1>1, <1>3
<1> QED BY <1>4

(* What run_backup makes of a word is what the board stores. *)
LEMMA SavedRight ==
  ASSUME job \in Jobs, mode = "read", busy = Ready, cell \in [Cells -> Half], Righted,
         NEW w \in Words
  PROVE  (IF job.swap_endian THEN byteSwap_32(BusWord(w)) ELSE BusWord(w)) = Stored(w)
<1>1. ASSUME NEW c \in Cells PROVE BusRead(job.family, c) = cell[c]
  <2>1. Ctl \notin Cells /\ DataReg \notin Cells BY Total DEF Ctl, DataReg
  <2>2. job.family \in {"AMD", "SST", "Intel", "SPI"} BY JobFacts
  <2>3. c # Ctl /\ c # DataReg BY <2>1
  <2>4. CASE job.family = "SPI" BY <2>3, <2>4 DEF BusRead
  <2>5. CASE job.family = "Intel" BY <2>5 DEF BusRead
  <2>6. CASE job.family \in {"AMD", "SST"}
    <3>1. BusRead(job.family, c) = CASE busy = Ready -> cell[c]
              [] busy.op = "program" -> IF 7 \in busy.halves[1] THEN {} ELSE {7}
              [] busy.op = "erase" -> {}
      BY <2>6 DEF BusRead
    <3> QED BY <3>1, Kinds
  <2> QED BY <2>2, <2>4, <2>5, <2>6
<1> PICK a, b : a = 2 * w /\ b = 2 * w + 1 OBVIOUS
<1> PICK f, g : f = cell[a] /\ g = cell[b] OBVIOUS
<1>2. a \in Cells /\ b \in Cells BY CellsOf
<1>3. BusRead(job.family, a) = f /\ BusRead(job.family, b) = g BY <1>1, <1>2
<1>4. f \in Half /\ g \in Half BY <1>2
<1>5. BusWord(w) = CASE job.board = "plain" -> <<f, g>>
                     [] job.board = "crossed" -> <<g, f>>
                     [] job.board = "turned" -> byteSwap_32(<<f, g>>)
  BY <1>3 DEF BusWord
<1>6. Stored(w) = IF job.board = "crossed" THEN <<g, f>> ELSE <<f, g>> BY DEF Stored
<1>7. job.board \in {"plain", "crossed", "turned"} /\ job.swap_endian \in BOOLEAN
  BY JobsAssumption
<1>8. byteSwap_32(byteSwap_32(<<f, g>>)) = <<f, g>>
  <2>1. byteSwap_32(<<f, g>>) = <<Turn(g), Turn(f)>> BY DEF byteSwap_32
  <2> PICK x, y : x = Turn(g) /\ y = Turn(f) OBVIOUS
  <2>2. byteSwap_32(<<x, y>>) = <<Turn(y), Turn(x)>> BY DEF byteSwap_32
  <2>3. Turn(y) = f /\ Turn(x) = g BY <1>4, TurnTwice
  <2> QED BY <2>1, <2>2, <2>3
<1>9. CASE job.board = "plain" BY <1>5, <1>6, <1>9 DEF Righted
<1>10. CASE job.board = "crossed" BY <1>5, <1>6, <1>10 DEF Righted
<1>11. CASE job.board = "turned" BY <1>5, <1>6, <1>8, <1>11 DEF Righted
<1> QED BY <1>7, <1>9, <1>10, <1>11

(* The chip is only read.                                                     *)
LEMMA BackupStep ==
  ASSUME job \in Jobs, SavedInv, [Next]_vars, job.op = "backup"
  PROVE  UNCHANGED chipVars /\ SavedInv' /\ (BusyInv => BusyInv') /\ PhaseInv'
<1>1. job' = job /\ PhaseInv' BY JobStays DEF PhaseInv
<1>2. /\ todo = <<>> /\ mode = "read" /\ busy = Ready /\ ~spi.sending
      /\ pc \in {"save", "done"} /\ at \in job.start..job.start + job.length
      /\ pc = "done" => at = job.start + job.length
      /\ cell \in [Cells -> Half]
      /\ Righted => saved = [n \in 1..(at - job.start) |-> Stored(job.start + n - 1)]
  BY DEF SavedInv
<1>5. Righted' = Righted BY <1>1 DEF Righted
<1>3. CASE ~Turns
  <2>1. Stays /\ todo' = todo /\ UNCHANGED chipVars
    BY <1>2, <1>3, Begins DEF Complete, Transfer
  <2>2. cell' = cell /\ mode' = mode /\ busy' = busy /\ spi' = spi BY <2>1 DEF chipVars
  <2>3. \A v : Stored(v)' = Stored(v) BY <1>1, <2>2 DEF Stored
  <2>4. SavedInv' BY <1>1, <1>2, <1>5, <2>1, <2>2, <2>3 DEF SavedInv, Stays
  <2> QED BY <1>1, <1>2, <2>1, <2>2, <2>4, BusyKept
<1>4. CASE Turns
  <2>1. SaveWord
    BY <1>2, <1>4 DEF Turns, sflash_erase_area, EnterBypass, LoadWord, Reset, LoadMemory
  <2>2. UNCHANGED chipVars /\ todo' = todo BY <2>1 DEF SaveWord
  <2>3. cell' = cell /\ mode' = mode /\ busy' = busy /\ spi' = spi BY <2>2 DEF chipVars
  <2>4. \A v : Stored(v)' = Stored(v) BY <1>1, <2>3 DEF Stored
  <2>5. CASE ~InArea(at)
    <3>1. pc' = "done" /\ at' = at /\ saved' = saved BY <2>1, <2>5 DEF SaveWord
    <3>2. at = job.start + job.length BY <1>2, <2>5, AreaPlace
    <3>3. SavedInv' BY <1>1, <1>2, <1>5, <2>2, <2>3, <2>4, <3>1, <3>2 DEF SavedInv
    <3> QED BY <1>1, <1>2, <2>2, <2>3, <3>3, BusyKept
  <2>6. CASE InArea(at)
    <3> PICK a : a = at OBVIOUS
    <3> PICK s : s = job.start OBVIOUS
    <3> PICK t : t = saved OBVIOUS
    <3>1. /\ a \in Words /\ a + 1 \in s..s + job.length /\ a \in Nat /\ s \in Nat /\ s <= a
      BY <1>2, <2>6, AreaPlace, JobFacts DEF InArea
    <3>2. \E v : saved' = Append(t, v) /\ (Righted => v = Stored(a))
      <4>1. Righted => (IF job.swap_endian THEN byteSwap_32(BusWord(a)) ELSE BusWord(a)) = Stored(a)
        BY <1>2, <3>1, SavedRight
      <4> PICK v : v = IF job.swap_endian THEN byteSwap_32(BusWord(a)) ELSE BusWord(a) OBVIOUS
      <4>2. saved' = Append(t, v) BY <2>1, <2>6 DEF SaveWord
      <4> QED BY <4>1, <4>2
    <3>4. at' = a + 1 /\ pc' = pc BY <2>1, <2>6 DEF SaveWord
    <3> PICK m : m = a - s OBVIOUS
    <3>5. m \in Nat /\ s + (m + 1) - 1 = a /\ (a + 1) - s = m + 1 BY <3>1
    <3>6. Righted => t = [n \in 1..m |-> Stored(s + n - 1)] BY <1>2
    <3>7. Righted => Append(t, Stored(a)) = [n \in 1..m + 1 |-> Stored(s + n - 1)]
      <4> DEFINE F(n) == Stored(s + n - 1)
      <4>1. F(m + 1) = Stored(a) BY <3>5
      <4> HIDE DEF F
      <4>2. Append([n \in 1..m |-> F(n)], F(m + 1)) = [n \in 1..m + 1 |-> F(n)]
        <5>1. Len([n \in 1..m |-> F(n)]) = m BY <3>5
        <5> QED BY <3>5, <5>1
      <4> QED BY <3>6, <4>1, <4>2 DEF F
    <3>8. pc = "save" BY <2>1 DEF SaveWord
    <3>10. Righted => saved' = [n \in 1..m + 1 |-> Stored(s + n - 1)] BY <3>2, <3>7
    <3>11. (a + 1) - s = m + 1 /\ s' = s BY <1>1, <3>5
    <3>9. SavedInv'
      BY <1>1, <1>2, <1>5, <2>2, <2>3, <2>4, <3>1, <3>4, <3>8, <3>10, <3>11 DEF SavedInv
    <3> QED BY <1>1, <1>2, <2>2, <2>3, <3>9, BusyKept
  <2> QED BY <2>5, <2>6
<1> QED BY <1>3, <1>4

-----------------------------------------------------------------------------
(* What is filled into memory. *)
LEMMA SavedStep ==
  ASSUME job \in Jobs, SavedInv, [Next]_vars
  PROVE  SavedInv'
<1>1. job' = job BY JobStays
<1>2. CASE job.op = "backup" BY <1>2, BackupStep
<1>3. CASE job.op \notin {"backup", "load"} BY <1>1, <1>3 DEF SavedInv
<1>4. CASE job.op = "load"
  <2>1. /\ pc \in {"ram", "reset", "done"} /\ at \in 1..Len(job.image) + 1
        /\ pc # "ram" => at = Len(job.image) + 1
        /\ saved \in Seq(Half \X Half) /\ Len(saved) = at - 1
        /\ \A n \in 1..(at - 1) : saved[n] \in FileWord(n)
        /\ pc = "ram" => todo = <<>> /\ mode = "read" /\ busy = Ready /\ ~spi.sending
    BY <1>4 DEF SavedInv
  <2>2. \A n : FileWord(n)' = FileWord(n) BY <1>1, JobKept
  <2>3. CASE pc # "ram"
    <3>1. at' = at /\ saved' = saved /\ pc' \in {"reset", "done"}
      <4>1. CASE HostStep
        BY <2>1, <2>3, <4>1 DEF HostStep, sflash_erase_area, EnterBypass, LoadWord, Reset, SaveWord,
           LoadMemory, WriteCycle, StartCycle, CheckCycle, PollCycle, StatusCycle
      <4>2. CASE ~HostStep
        BY <2>1, <2>3, <4>2 DEF Next, ChipStep, ControllerStep, Finished, vars, hostVars
      <4> QED BY <4>1, <4>2
    <3> QED BY <1>1, <1>4, <2>1, <2>2, <2>3, <3>1 DEF SavedInv
  <2>4. CASE pc = "ram" /\ ~Turns
    <3>1. Stays /\ todo' = todo /\ UNCHANGED chipVars
      BY <2>1, <2>4, Begins DEF Complete, Transfer
    <3>2. mode' = mode /\ busy' = busy /\ spi' = spi BY <3>1 DEF chipVars
    <3> QED BY <1>1, <1>4, <2>1, <2>2, <3>1, <3>2 DEF SavedInv, Stays
  <2>5. CASE pc = "ram" /\ Turns
    <3>1. LoadMemory
      BY <2>5 DEF Turns, sflash_erase_area, EnterBypass, LoadWord, Reset, SaveWord
    <3>2. UNCHANGED chipVars /\ todo' = todo BY <3>1 DEF LoadMemory
    <3>3. mode' = mode /\ busy' = busy /\ spi' = spi BY <3>2 DEF chipVars
    <3> PICK a : a = at OBVIOUS
    <3> PICK l : l = Len(job.image) OBVIOUS
    <3> PICK t : t = saved OBVIOUS
    <3>4. /\ l \in Nat /\ DOMAIN job.image = 1..l /\ a \in 1..l + 1 /\ t \in Seq(Half \X Half)
          /\ Len(t) = a - 1 /\ \A n \in 1..(a - 1) : t[n] \in FileWord(n)
      <4>1. job.image \in Seq(Half \X Half) BY JobsAssumption
      <4> QED BY <2>1, <4>1
    <3>5. CASE a \in DOMAIN job.image
      <4>1. PICK word \in FileWord(a) : saved' = Append(t, word) BY <3>1, <3>5 DEF LoadMemory
      <4>2. at' = a + 1 /\ pc' = "ram" BY <2>5, <3>1, <3>5 DEF LoadMemory
      <4>3. a \in Nat \ {0} /\ a + 1 \in 1..l + 1 /\ (a + 1) - 1 = a BY <3>4, <3>5
      <4>4. word \in Half \X Half BY <4>1, <4>3, WordsTyped
      <4>5. /\ saved' \in Seq(Half \X Half) /\ Len(saved') = a
            /\ \A n \in 1..a : saved'[n] = IF n = a THEN word ELSE t[n]
        <5>1. Len(t) + 1 = a BY <3>4, <4>3
        <5> QED BY ONLY <3>4, <4>1, <4>3, <4>4, <5>1
      <4>6. \A n \in 1..a : saved'[n] \in FileWord(n)
        <5>1. \A n \in 1..a : n # a => n \in 1..(a - 1) BY <4>3
        <5> QED BY <3>4, <4>1, <4>5, <5>1
      <4> QED BY <1>1, <1>4, <2>1, <2>2, <3>2, <3>3, <4>2, <4>3, <4>5, <4>6 DEF SavedInv
    <3>6. CASE a \notin DOMAIN job.image
      <4>1. pc' = "reset" /\ at' = at /\ saved' = saved BY <3>1, <3>6 DEF LoadMemory
      <4>2. at = l + 1 BY <3>4, <3>6
      <4> QED BY <1>1, <1>4, <2>1, <2>2, <4>1, <4>2 DEF SavedInv
    <3> QED BY <3>5, <3>6
  <2> QED BY <2>3, <2>4, <2>5
<1> QED BY <1>2, <1>3, <1>4

(* Only what is written by the controller of a serial chip is started.        *)
LEMMA Heads ==
  ASSUME job \in Jobs, SavedInv, PhaseInv, ~Checked, Parallel, todo # <<>>
  PROVE  Head(todo).op \in {"write", "poll"}
<1>1. job.family \in {"AMD", "SST", "Intel"} BY JobFacts DEF Parallel
<1>2. CASE InErase
  <2>1. PICK b \in Blocks, k \in 1..17 : Erasing(b, k)
    BY <1>2, EraseInWork DEF Sending
  <2> PICK s : s = sflash_erase_block(b) OBVIOUS
  <2>2. k \in DOMAIN EraseCourse /\ todo = Rest(s, k) BY <2>1 DEF Erasing
  <2>3. CASE job.family = "Intel"
    <3>1. /\ \E S : s \in Seq(S)
          /\ Len(s) = 12 /\ \A n \in 1..12 : s[n].op \in {"write", "poll"}
      <4>1. \A n \in 1..12 : n \in {1, 2, 3, 4, 5, 6, 7, 8, 9, 10, 11, 12} OBVIOUS
      <4>2. IntelErases(s, 2 * Base[b]) BY <2>3, IntelEraseScript
      <4> QED BY ONLY <4>1, <4>2, Cycles DEF IntelErases
    <3>2. k \in 1..12 BY <2>2, <2>3 DEF EraseCourse
    <3>3. Head(todo) = s[k] BY <2>2, <3>1, <3>2, Rests
    <3> QED BY <3>1, <3>2, <3>3
  <2>4. CASE job.family \in {"AMD", "SST"}
    <3>1. /\ \E S : s \in Seq(S)
          /\ Len(s) = 8 /\ \A n \in 1..8 : s[n].op \in {"write", "poll"}
      <4>1. \A n \in 1..8 : n \in {1, 2, 3, 4, 5, 6, 7, 8} OBVIOUS
      <4> PICK e : e = IF job.family = "SST" THEN "50" ELSE "30" OBVIOUS
      <4>2. AmdErases(s, 2 * Base[b], e) BY <2>4, AmdEraseScript
      <4> QED BY ONLY <4>1, <4>2, Cycles DEF AmdErases
    <3>2. k \in 1..8 BY <2>2, <2>4 DEF EraseCourse
    <3>3. Head(todo) = s[k] BY <2>2, <3>1, <3>2, Rests
    <3> QED BY <3>1, <3>2, <3>3
  <2> QED BY <1>1, <2>3, <2>4
<1>3. CASE job.op = "flash" /\ InLoad
  <2>0. PICK w, word : /\ Loads(w, word)
                       /\ \/ \E h \in {1, 2}, j \in 1..5 : Writing(w, word, h, j)
                          \/ \E k \in 1..17 :
                               Sending(Program(2 * w, word), sflash_write_word(w, word), k)
    BY <1>3, WordInWork
  <2>1. PICK h \in {1, 2}, j \in 1..5 : Loads(w, word) /\ Writing(w, word, h, j)
    BY <2>0 DEF Sending
  <2> PICK s : s = WriteHalf(w, word, h) OBVIOUS
  <2> PICK a : a = CellOf(w, h) OBVIOUS
  <2> PICK q : q = IF h = 1 THEN WriteHalf(w, word, 2) ELSE <<>> OBVIOUS
  <2>2. w \in Words /\ word \in Half \X Half /\ InArea(w) BY <2>1 DEF Loads
  <2>3. j \in DOMAIN HalfCourse /\ todo = Rest(s, j) \o q BY <2>1 DEF Writing
  <2>4. /\ \E S : s \in Seq(S)
        /\ j \in 1..Len(s) /\ \A n \in 1..Len(s) : s[n].op \in {"write", "poll"}
    <3>1. j \in 1..Len(HalfCourse) BY <2>3, HalfCourses
    <3>2. /\ \E S : s \in Seq(S)
          /\ Len(s) = Len(HalfCourse)
          /\ job.family = "Intel" =>
               /\ Len(s) = 4 /\ s[1] = W(a, Cmd("50")) /\ s[2] = W(a, Cmd("40"))
               /\ s[3] = W(a, Data(word[h])) /\ s[4] = Poll(a, word[h])
          /\ job.family = "AMD" /\ Bypassed =>
               Len(s) = 2 /\ s[1] = W(Unlock1, Cmd("A0")) /\ s[2] = W(a, Data(word[h]))
          /\ job.family = "SST" \/ (job.family = "AMD" /\ ~Bypassed) =>
               /\ Len(s) = 5 /\ s[1] = W(Unlock1, Cmd("AA")) /\ s[2] = W(Unlock2, Cmd("55"))
               /\ s[3] = W(Unlock1, Cmd("A0")) /\ s[4] = W(a, Data(word[h]))
               /\ s[5] = Poll(2 * w + h - 1, word[h])
      BY <1>3, <2>2, HalfScript
    <3>3. Len(s) \in {2, 4, 5} /\ \A n \in 1..Len(s) : s[n].op \in {"write", "poll"}
      <4>1. /\ \A n \in 1..2 : n \in {1, 2}
            /\ \A n \in 1..4 : n \in {1, 2, 3, 4}
            /\ \A n \in 1..5 : n \in {1, 2, 3, 4, 5}
        OBVIOUS
      <4>2. CASE job.family = "Intel" BY ONLY <3>2, <4>1, <4>2, Cycles
      <4>3. CASE job.family = "AMD" /\ Bypassed BY ONLY <3>2, <4>1, <4>3, Cycles
      <4>4. CASE job.family = "SST" \/ (job.family = "AMD" /\ ~Bypassed)
        BY ONLY <3>2, <4>1, <4>4, Cycles
      <4> QED BY ONLY <1>1, <4>2, <4>3, <4>4
    <3> QED BY ONLY <3>1, <3>2, <3>3
  <2>5. \E S : q \in Seq(S)
    <3>1. \E S : WriteHalf(w, word, 2) \in Seq(S) BY <1>3, <2>2, HalfScript
    <3>2. <<>> \in Seq({}) OBVIOUS
    <3> QED BY <3>1, <3>2
  <2>6. Head(todo) = s[j] BY <2>3, <2>4, <2>5, Pieces
  <2> QED BY <2>4, <2>6
<1>4. CASE InBypass
  <2>1. PICK k \in 1..4 : todo = Rest(unlock_bypass, k) BY <1>4 DEF InBypass, Entering
  <2>2. \A n \in 1..4 : n \in {1, 2, 3, 4} OBVIOUS
  <2>3. unlock_bypass[k].op = "write" BY <2>2, BypassScript, Cycles
  <2> QED BY <2>1, <2>3, BypassScript, Rests
<1>5. CASE InReset
  <2> PICK s : s = sflash_reset OBVIOUS
  <2>1. PICK k \in {1, 2} : k \in DOMAIN s /\ todo = Rest(s, k) BY <1>5 DEF InReset, Resetting
  <2>2. /\ \E S : s \in Seq(S)
        /\ k \in 1..Len(s) /\ s[k].op = "write"
    BY <1>1, <2>1, ResetScript, Cycles
  <2> QED BY <2>1, <2>2, Rests
<1> QED
  BY <1>2, <1>3, <1>4, <1>5
  DEF PhaseInv, FlashPhase, AtErase, AtBypass, AtLoad, AtReset, AtEnd, SavedInv

LEMMA ChipStays ==
  ASSUME job \in Jobs, SavedInv, PhaseInv, ~Checked, ChipInv, [Next]_vars
  PROVE  ChipInv'
<1>1. /\ job' = job /\ cell \in [Cells -> Half] /\ SpiShape(spi)
      /\ job.family # "Intel" => locked = {}
      /\ job.family # "SPI" => ~spi.sending
  BY JobStays DEF ChipInv
<1>2. CASE UNCHANGED chipVars
  <2>1. cell' = cell /\ spi' = spi /\ locked' = locked BY <1>2 DEF chipVars
  <2> QED BY <1>1, <2>1 DEF ChipInv, SpiShape
<1>3. CASE Complete BY <1>1, <1>3, Completes DEF ChipInv
<1>4. CASE Transfer BY <1>1, <1>4, Transferred DEF ChipInv
<1>5. CASE StartCycle
  <2>1. todo # <<>> /\ Head(todo).op = "start" /\ cell' = cell /\ locked' = locked
        /\ \E a, v : SpiWrite(a, v)
    BY <1>5 DEF StartCycle
  <2>2. job.family = "SPI" BY <2>1, Heads DEF Parallel
  <2> QED BY <1>1, <2>1, <2>2, Shapes DEF ChipInv
<1>6. CASE WriteCycle
  <2>1. PICK a, v : BusWrite(job.family, a, v) BY <1>6 DEF WriteCycle
  <2>2. CASE job.family = "SPI"
    <3>1. SpiWrite(a, v) /\ cell' = cell /\ locked' = locked BY <2>1, <2>2 DEF BusWrite
    <3> QED BY <1>1, <2>2, <3>1, Shapes DEF ChipInv
  <2>3. CASE job.family # "SPI"
    <3>1. cell' = cell /\ spi' = spi /\ (job.family # "Intel" => locked' = locked)
      BY <2>1, <2>3 DEF BusWrite, chipVars
    <3> QED BY <1>1, <2>3, <3>1 DEF ChipInv, SpiShape
  <2> QED BY <2>2, <2>3
<1>7. CASE HostStep
  <2>1. WriteCycle \/ StartCycle \/ UNCHANGED chipVars
    BY <1>7 DEF HostStep, sflash_erase_area, EnterBypass, LoadWord, Reset, SaveWord, LoadMemory,
                CheckCycle, PollCycle, StatusCycle
  <2> QED BY <1>2, <1>5, <1>6, <2>1
<1>8. CASE Finished \/ UNCHANGED vars BY <1>2, <1>8 DEF Finished, vars
<1> QED BY <1>3, <1>4, <1>7, <1>8 DEF Next, ChipStep, ControllerStep

-----------------------------------------------------------------------------
(* The theorems. *)
LEMMA FlashInit == Init => FlashInv
<1> SUFFICES ASSUME Init PROVE FlashInv OBVIOUS
<1>1. /\ job \in Jobs /\ cell \in [Cells -> Half] /\ mode = "read" /\ busy = Ready
      /\ locked = (IF job.family = "Intel" THEN Blocks ELSE {})
      /\ spi = SpiIdle
      /\ pc = (IF job.op = "backup" THEN "save" ELSE IF job.op = "load" THEN "ram"
               ELSE IF job.op = "erase" \/ job.issue_erase THEN "erase" ELSE "bypass")
      /\ at = (IF job.op = "backup" THEN job.start ELSE 1)
      /\ saved = <<>> /\ todo = <<>>
  BY JobsAssumption DEF Init
<1>2. SpiShape(spi) /\ ~spi.sending BY <1>1 DEF SpiIdle, SpiShape
<1>3. ChipInv BY <1>1, <1>2 DEF ChipInv
<1>4. BusyInv BY <1>1 DEF BusyInv
<1>5. SavedInv
  <2>1. CASE job.op = "backup"
    <3>1. job.start \in Nat /\ job.start \in job.start..job.start + job.length BY <1>1, JobFacts
    <3> PICK m : m = job.start OBVIOUS
    <3>2. 1..(m - m) = {} BY <3>1
    <3>3. saved = [n \in 1..(at - job.start) |-> Stored(job.start + n - 1)]
      BY <1>1, <2>1, <3>2
    <3> QED BY <1>1, <1>2, <2>1, <3>1, <3>3 DEF SavedInv
  <2>2. CASE job.op = "load"
    <3>1. Len(job.image) \in Nat BY <1>1, JobFacts
    <3>2. 1 \in 1..Len(job.image) + 1 BY <3>1
    <3>3. saved \in Seq(Half \X Half) /\ Len(saved) = 1 - 1 /\ 1..(1 - 1) = {} BY <1>1
    <3> QED BY <1>1, <1>2, <2>2, <3>2, <3>3 DEF SavedInv
  <2>3. CASE job.op \notin {"backup", "load"} BY <2>3 DEF SavedInv
  <2> QED BY <2>1, <2>2, <2>3
<1>6. PhaseInv
  <2>1. CASE job.op \in {"backup", "load"} BY <1>1, <2>1 DEF PhaseInv
  <2>2. CASE pc = "erase" /\ job.op \in {"flash", "erase"}
    <3>1. at \in 1..Len(Sizes) + 1 /\ \A b \in Blocks : ~(b < at) BY <1>1, <2>2, SizesFacts
    <3>2. AtErase BY <1>1, <1>2, <2>2, <3>1 DEF AtErase, ErasedUpTo
    <3> QED BY <2>2, <3>2 DEF PhaseInv, FlashPhase
  <2>3. CASE pc = "bypass" /\ job.op = "flash" /\ ~job.issue_erase
    <3>1. AtBypass BY <1>1, <1>2, <2>3 DEF AtBypass, Careful, Sound
    <3> QED BY <2>3, <3>1 DEF PhaseInv, FlashPhase
  <2> QED BY <1>1, <2>1, <2>2, <2>3, JobFacts
<1> QED BY <1>1, <1>3, <1>4, <1>5, <1>6 DEF FlashInv

LEMMA FlashNext == FlashInv /\ [Next]_vars => FlashInv'
<1> SUFFICES ASSUME FlashInv, [Next]_vars PROVE FlashInv' OBVIOUS
<1>1. job' = job /\ job \in Jobs /\ SavedInv /\ SavedInv' /\ (Checked' <=> Checked)
  BY JobStays, SavedStep, JobKept DEF FlashInv
<1>2. ASSUME ~Checked PROVE ChipInv' /\ BusyInv' /\ PhaseInv'
  <2>1. ChipInv /\ BusyInv /\ PhaseInv BY <1>2 DEF FlashInv
  <2>2. ChipInv' BY <1>1, <1>2, <2>1, ChipStays
  <2>3. PhaseInv' /\ BusyInv'
    <3>1. CASE job.op \in {"flash", "erase"} BY <1>1, <1>2, <2>1, <3>1, PhaseStep
    <3>2. CASE job.op = "load" BY <1>1, <1>2, <2>1, <3>2, MemoryStep
    <3>3. CASE job.op = "backup" BY <1>1, <2>1, <3>3, BackupStep
    <3> QED BY <1>1, <3>1, <3>2, <3>3, JobFacts
  <2> QED BY <2>2, <2>3
<1> QED BY <1>1, <1>2 DEF FlashInv

(* FlashInvariant: whatever the chip, the area, the file and the options, the *)
(* chip's decoder or the serial controller is where the next bus cycle of the *)
(* running routine needs it, an operation that runs is one of the area's, and *)
(* what has been done will stand when it is over.                             *)
THEOREM FlashInvariant == Spec => []FlashInv
<1>1. Init => FlashInv BY FlashInit
<1>2. FlashInv /\ [Next]_vars => FlashInv' BY FlashNext
<1> QED BY <1>1, <1>2, PTL DEF Spec

(* A serial chip worked with /check: the lines of the controller are written  *)
(* twice where they do not read back, so what is stored is up to it.          *)
SerialCheck == Checked /\ job.family = "SPI"

(* ImageHeld: when run_flash says that the file is loaded OK the area holds   *)
(* it, unless it is a serial chip's written with /check; and what run_backup  *)
(* or run_load says it has saved or loaded is so.                             *)
THEOREM ImageHeld == Spec => []((job.op = "flash" => ~SerialCheck) => FlashedHoldsImage)
<1>1. FlashInv /\ (job.op = "flash" => ~SerialCheck) => FlashedHoldsImage
  <2> SUFFICES ASSUME FlashInv, Idle, job.op = "flash" => ~SerialCheck PROVE FlashedHoldsImage
    BY DEF FlashedHoldsImage
  <2>1. pc = "done" /\ todo = <<>> /\ job \in Jobs /\ SavedInv BY DEF Idle, FlashInv
  <2>2. ASSUME job.op = "flash", Sound, RightHalves, NEW w \in Words, InArea(w)
        PROVE  Stored(w) \in AreaWord(w)
    <3>1. PhaseInv /\ Careful BY <2>2 DEF FlashInv, Sound, Careful, HeardOnce, SerialCheck
    <3>2. ~InReset
      <4>1. ASSUME NEW k \in {1, 2}, Resetting(k) PROVE FALSE
        <5> PICK s : s = sflash_reset OBVIOUS
        <5>1. k \in DOMAIN s /\ todo = Rest(s, k) BY <4>1 DEF Resetting
        <5>2. (\E S : s \in Seq(S)) /\ k \in 1..Len(s) BY <2>1, <5>1, ResetScript
        <5> QED BY <2>1, <5>1, <5>2, Rests
      <4> QED BY <4>1 DEF InReset
    <3>3. AtEnd
      BY <2>1, <2>2, <3>1, <3>2
      DEF PhaseInv, FlashPhase, AtErase, InErase, AtBypass, InBypass, AtLoad, InLoad, AtReset
    <3>4. busy = Ready /\ Written(job.start + job.length) BY <3>1, <3>3 DEF AtEnd, Through
    <3>5. w < job.start + job.length BY <2>2 DEF InArea
    <3>6. After = cell BY <3>4 DEF After
    <3>7. <<cell[CellOf(w, 1)], cell[CellOf(w, 2)]>> \in AreaWord(w)
      BY <2>2, <3>4, <3>5, <3>6 DEF Written
    <3>8. Stored(w) = <<cell[CellOf(w, 1)], cell[CellOf(w, 2)]>>
      <4>1. w \in Nat BY CellsOf
      <4>2. CASE Crossed
        <5>1. CellOf(w, 1) = 2 * w + 1 /\ CellOf(w, 2) = 2 * w BY <4>1, <4>2 DEF CellOf
        <5> QED BY <2>2, <4>2, <5>1 DEF Stored, RightHalves
      <4>3. CASE ~Crossed
        <5>1. CellOf(w, 1) = 2 * w /\ CellOf(w, 2) = 2 * w + 1 BY <4>1, <4>3 DEF CellOf
        <5> QED BY <2>2, <4>3, <5>1 DEF Stored, RightHalves
      <4> QED BY <4>2, <4>3
    <3> QED BY <3>7, <3>8
  <2>3. ASSUME job.op = "backup", Righted
        PROVE  saved = [n \in 1..job.length |-> Stored(job.start + n - 1)]
    <3> DEFINE s == job.start
               l == job.length
    <3>1. s \in Nat /\ l \in Nat BY <2>1, JobFacts
    <3>2. at = s + l /\ saved = [n \in 1..(at - s) |-> Stored(s + n - 1)] BY <2>1, <2>3 DEF SavedInv
    <3> HIDE DEF s, l
    <3>3. at - s = l BY <3>1, <3>2
    <3>4. saved = [n \in 1..l |-> Stored(s + n - 1)] BY <3>2, <3>3
    <3> QED BY <3>4 DEF s, l
  <2>4. ASSUME job.op = "load"
        PROVE  Len(saved) = Len(job.image) /\ \A n \in DOMAIN saved : saved[n] \in FileWord(n)
    <3>1. /\ at = Len(job.image) + 1 /\ saved \in Seq(Half \X Half) /\ Len(saved) = at - 1
          /\ \A n \in 1..(at - 1) : saved[n] \in FileWord(n)
      BY <2>1, <2>4 DEF SavedInv
    <3>2. Len(job.image) \in Nat BY <2>1, JobFacts
    <3>3. Len(saved) = Len(job.image) BY <3>1, <3>2
    <3>4. DOMAIN saved = 1..(at - 1) BY <3>1
    <3> QED BY <3>1, <3>3, <3>4
  <2> QED BY <2>2, <2>3, <2>4 DEF FlashedHoldsImage, Righted
<1> QED BY <1>1, FlashInvariant, PTL

(* ProgramsErased: a halfword that is being programmed is an erased one, of   *)
(* every chip but a serial one worked with /check.                            *)
THEOREM ProgramsErased == Spec => [](~SerialCheck => NeverOverprogrammed)
<1>1. FlashInv /\ ~SerialCheck => NeverOverprogrammed
  <2> SUFFICES ASSUME FlashInv, ~SerialCheck, Sound, busy.op = "program"
               PROVE  \A c \in Programmed : cell[c] = Erased
    BY DEF NeverOverprogrammed
  <2>1. BusyInv /\ busy # Ready BY Kinds DEF FlashInv, Sound, HeardOnce, SerialCheck
  <2>2. \A b : busy # EraseOf(b) BY Kinds DEF EraseOf
  <2>3. job.op = "flash" /\ (Careful => \A c \in Programmed : cell[c] = Erased)
    BY <2>1, <2>2 DEF BusyInv
  <2> QED BY <2>3 DEF Careful
<1> QED BY <1>1, FlashInvariant, PTL
-----------------------------------------------------------------------------
(* Under /check.  Every cycle is written at least twice, as no command reads  *)
(* back equal: an AMD chip hears nothing it would obey, an Intel chip starts  *)
(* what the doubled codes make of the routine, a halfword of command bits     *)
(* among it, but never outside the area, and never without a poll to come.    *)
Intel == job.family = "Intel"
AreaCell(a) == a \in Cells /\ InArea(a \div 2)

(* What every routine's cycles are like. *)
LegalWrite(s, n) ==
  /\ s[n].value.cmd = "D0" =>
       job.op \in {"flash", "erase"} /\ \E b \in Blocks : ToErase(b) /\ s[n].to = 2 * Base[b]
  /\ s[n].value.cmd = "40" => n < Len(s) /\ s[n + 1].op = "write" /\ s[n + 1].value.cmd = "data"
  /\ s[n].value.cmd \in {"40", "data"} =>
       job.op = "flash" /\ AreaCell(s[n].to) /\ s[n].value.half \in Half
  /\ s[n].value.cmd \in {"D0", "40", "data"} =>
       \E m \in 1..Len(s) : n < m /\ s[m].op = "poll"
LegalCycle(s, n) ==
  /\ s[n].op \in {"write", "poll"}
  /\ s[n].op = "write" => s[n] = W(s[n].to, s[n].value)
  /\ Intel => /\ s[n].op = "poll" => s[n].bit = TRUE
              /\ s[n].op = "write" => LegalWrite(s, n)
Legal(s) == (\E S : s \in Seq(S)) /\ \A n \in 1..Len(s) : LegalCycle(s, n)

(* Where the program is in such a routine: before its k-th cycle, or about to *)
(* read it back.                                                              *)
Checking(c) == [c EXCEPT !.op = "check"]
Looking == todo # <<>> /\ Head(todo).op = "check"
Ahead(s, k) ==
  \/ todo = Rest(s, k)
  \/ s[k].op = "write" /\ todo = <<Checking(s[k])>> \o Rest(s, k + 1)

AmdAt(c) ==
  /\ busy = Ready
  /\ \/ mode = "read"
     \/ mode = "unlock1" /\ (c.op = "write" /\ c.value.cmd = "55" => ~Looking /\ again = Retries)
     \/ /\ mode = "unlock2" /\ c.op = "write" /\ c.value.cmd = "55"
        /\ again = IF Looking THEN Retries ELSE Retries - 1
Work(x) ==
  \/ job.op \in {"flash", "erase"} /\ \E b \in Blocks : ToErase(b) /\ x = EraseOf(b)
  \/ job.op = "flash" /\ \E a \in Cells, h \in Half : AreaCell(a) /\ x = Program(a, <<h>>)
IntelModes == {"read", "status", "program", "confirmErase", "confirmUnlock"}
IntelAt(s, k) ==
  /\ mode \in IntelModes
  /\ busy = Ready \/ (mode = "status" /\ Work(busy) /\ \E m \in k..Len(s) : s[m].op = "poll")
  /\ mode = "program" => /\ s[k].op = "write" /\ s[k].value.cmd \in {"40", "data"}
                         /\ s[k].value.cmd = "data" => ~Looking
Closing(s, k) ==
  /\ s = sflash_reset
  /\ IF Intel THEN /\ k = 1 /\ Looking => mode \in {"read", "status"}
                   /\ k = 2 => mode \in {"read", "status"} /\ (Looking => mode = "read")
     ELSE Looking => mode = "read"
Between ==
  /\ todo = <<>> /\ busy = Ready /\ again = Retries
  /\ mode \in IF Intel THEN IntelModes \ {"program"} ELSE {"read", "unlock1"}
  /\ pc = "done" => mode = "read"
Amid(s, k) ==
  /\ Legal(s) /\ k \in 1..Len(s) /\ Ahead(s, k)
  /\ s[k].op = "poll" => again = Retries
  /\ IF Intel THEN IntelAt(s, k) ELSE AmdAt(s[k])
  /\ pc = "done" => Closing(s, k)
PlaceInv ==
  /\ pc = "erase" => job.op \in {"flash", "erase"}
  /\ pc \in {"bypass", "load"} => job.op = "flash"
  /\ pc = "save" => job.op = "backup"
  /\ pc = "load" => at \in Nat

-----------------------------------------------------------------------------
(* The routines' cycles are legal. *)
LEMMA LegalJoined ==
  ASSUME NEW p, NEW q, Legal(p), Legal(q)
  PROVE  Legal(p \o q)
<1>1. PICK A, B : p \in Seq(A) /\ q \in Seq(B) BY DEF Legal
<1> PICK s : s = p \o q OBVIOUS
<1>0. s = p \o q OBVIOUS
<1>2. /\ \E S : s \in Seq(S)
      /\ Len(p) \in Nat /\ Len(q) \in Nat /\ Len(s) = Len(p) + Len(q)
      /\ \A n \in 1..Len(p) : s[n] = p[n]
      /\ \A n \in 1..Len(q) : s[Len(p) + n] = q[n]
  <2> PICK S : S = A \cup B OBVIOUS
  <2>1. p \in Seq(S) /\ q \in Seq(S) BY <1>1, Wider
  <2>2. /\ s \in Seq(S)
        /\ Len(p) \in Nat /\ Len(q) \in Nat /\ Len(s) = Len(p) + Len(q)
        /\ \A n \in 1..Len(p) : s[n] = p[n]
        /\ \A n \in 1..Len(q) : s[Len(p) + n] = q[n]
    BY ONLY <1>0, <2>1
  <2> QED BY <2>2
<1> PICK l : l = Len(p) OBVIOUS
<1>3. ASSUME NEW n \in 1..l PROVE LegalCycle(s, n)
  <2>1. LegalCycle(p, n) /\ s[n] = p[n] BY <1>2, <1>3 DEF Legal
  <2>2. ASSUME LegalWrite(p, n) PROVE LegalWrite(s, n)
    <3>1. n < l => n + 1 \in 1..l /\ s[n + 1] = p[n + 1] /\ n < Len(s) BY <1>2
    <3>2. \A m \in 1..l : m \in 1..Len(s) /\ s[m] = p[m] BY <1>2
    <3> QED BY <2>1, <2>2, <3>1, <3>2 DEF LegalWrite
  <2> QED BY <2>1, <2>2 DEF LegalCycle
<1>4. ASSUME NEW n \in 1..Len(q) PROVE LegalCycle(s, l + n)
  <2>1. LegalCycle(q, n) /\ s[l + n] = q[n] BY <1>2, <1>4 DEF Legal
  <2>2. ASSUME LegalWrite(q, n) PROVE LegalWrite(s, l + n)
    <3>1. n < Len(q) => /\ n + 1 \in 1..Len(q) /\ s[l + (n + 1)] = q[n + 1] /\ l + n < Len(s)
                        /\ l + (n + 1) = (l + n) + 1
      BY <1>2
    <3>2. \A m \in 1..Len(q) : /\ l + m \in 1..Len(s) /\ s[l + m] = q[m]
                               /\ n < m => l + n < l + m
      BY <1>2
    <3> QED BY <2>1, <2>2, <3>1, <3>2 DEF LegalWrite
  <2> QED BY <2>1, <2>2 DEF LegalCycle
<1>5. \A n \in 1..Len(s) : n \in 1..l \/ (n - l \in 1..Len(q) /\ n = l + (n - l)) BY <1>2
<1>6. \A n \in 1..Len(s) : LegalCycle(s, n) BY <1>3, <1>4, <1>5
<1> QED BY <1>2, <1>6 DEF Legal

LEMMA LegalEnd == Legal(<<>>)
<1>1. <<>> \in Seq({}) /\ Len(<<>>) = 0 OBVIOUS
<1> QED BY <1>1 DEF Legal

LEMMA CommandIsLegal ==
  ASSUME NEW s, NEW n, NEW a, NEW k, s[n] = W(a, Cmd(k)), k \notin {"D0", "40", "data"}
  PROVE  LegalCycle(s, n)
<1>1. s[n].op = "write" /\ s[n].to = a /\ s[n].value = Cmd(k) /\ s[n].value.cmd = k BY Cycles
<1> QED BY <1>1 DEF LegalCycle, LegalWrite

LEMMA PollIsLegal ==
  ASSUME NEW s, NEW n, NEW a, NEW h, s[n] = Poll(a, h)
  PROVE  LegalCycle(s, n)
<1>1. s[n].op = "poll" BY Cycles
<1>2. ASSUME Intel PROVE s[n].bit = TRUE
  <2>1. (job.family = "Intel" \/ 7 \in h) = TRUE BY <1>2 DEF Intel
  <2> PICK p : p = IF job.family = "Intel" THEN 0 ELSE a OBVIOUS
  <2>2. s[n] = [op |-> "poll", to |-> p, bit |-> TRUE] BY <2>1 DEF Poll
  <2> QED BY ONLY <2>2
<1> QED BY <1>1, <1>2 DEF LegalCycle

LEMMA LegalErase ==
  ASSUME job \in Jobs, Parallel, job.op \in {"flash", "erase"}, NEW b \in Blocks, ToErase(b)
  PROVE  Legal(sflash_erase_block(b))
<1> PICK s : s = sflash_erase_block(b) OBVIOUS
<1> PICK c : c = 2 * Base[b] OBVIOUS
<1>1. CASE job.family \in {"AMD", "SST"}
  <2> PICK k : k = IF job.family = "SST" THEN "50" ELSE "30" OBVIOUS
  <2>1. k \notin {"D0", "40", "data"} OBVIOUS
  <2>2. /\ \E S : s \in Seq(S)
        /\ Len(s) = 8
        /\ s[1] = W(Unlock1, Cmd("AA")) /\ s[2] = W(Unlock2, Cmd("55")) /\ s[3] = W(Unlock1, Cmd("80"))
        /\ s[4] = W(Unlock1, Cmd("AA")) /\ s[5] = W(Unlock2, Cmd("55")) /\ s[6] = W(c, Cmd(k))
        /\ s[7] = Poll(c, Erased) /\ s[8] = W(0, Cmd("F0"))
    <3>1. AmdErases(s, c, k) BY <1>1, AmdEraseScript
    <3> QED BY ONLY <3>1 DEF AmdErases
  <2>3. \A n \in {1, 2, 3, 4, 5, 6, 8} : LegalCycle(s, n)
    <3>1. LegalCycle(s, 1) /\ LegalCycle(s, 2) /\ LegalCycle(s, 3) /\ LegalCycle(s, 4)
      BY <2>2, CommandIsLegal
    <3>2. LegalCycle(s, 5) /\ LegalCycle(s, 6) /\ LegalCycle(s, 8)
      BY <2>1, <2>2, CommandIsLegal
    <3> QED BY <3>1, <3>2
  <2>4. LegalCycle(s, 7) BY <2>2, PollIsLegal
  <2>5. \A n \in 1..8 : n \in {1, 2, 3, 4, 5, 6, 7, 8} OBVIOUS
  <2> QED BY <2>2, <2>3, <2>4, <2>5 DEF Legal
<1>2. CASE Intel
  <2>1. /\ \E S : s \in Seq(S)
        /\ Len(s) = 12
        /\ s[1] = W(c, Cmd("50")) /\ s[2] = W(c, Cmd("60")) /\ s[3] = W(c, Cmd("D0"))
        /\ s[4] = W(c, Cmd("70")) /\ s[5] = Poll(c, Erased)
        /\ s[6] = W(c, Cmd("50")) /\ s[7] = W(c, Cmd("20")) /\ s[8] = W(c, Cmd("D0"))
        /\ s[9] = W(c, Cmd("70")) /\ s[10] = Poll(c, Erased)
        /\ s[11] = W(0, Cmd("50")) /\ s[12] = W(0, Cmd("FF"))
    <3>1. IntelErases(s, c) BY <1>2, IntelEraseScript DEF Intel
    <3> QED BY ONLY <3>1 DEF IntelErases
  <2>2. LegalCycle(s, 1) /\ LegalCycle(s, 2) /\ LegalCycle(s, 4) /\ LegalCycle(s, 6)
    <3>1. LegalCycle(s, 1) /\ LegalCycle(s, 2) BY <2>1, CommandIsLegal
    <3>2. s[4] = W(c, Cmd("70")) /\ s[6] = W(c, Cmd("50")) BY ONLY <2>1
    <3>3. LegalCycle(s, 4) /\ LegalCycle(s, 6) BY ONLY <3>2, CommandIsLegal
    <3> QED BY <3>1, <3>3
  <2>3. LegalCycle(s, 7) /\ LegalCycle(s, 9) /\ LegalCycle(s, 11) /\ LegalCycle(s, 12)
    <3>1. s[7] = W(c, Cmd("20")) /\ s[9] = W(c, Cmd("70")) BY ONLY <2>1
    <3>2. s[11] = W(0, Cmd("50")) /\ s[12] = W(0, Cmd("FF")) BY ONLY <2>1
    <3>3. LegalCycle(s, 7) /\ LegalCycle(s, 9) BY ONLY <3>1, CommandIsLegal
    <3>4. LegalCycle(s, 11) /\ LegalCycle(s, 12) BY ONLY <3>2, CommandIsLegal
    <3> QED BY <3>3, <3>4
  <2>4. LegalCycle(s, 5) /\ LegalCycle(s, 10) BY <2>1, PollIsLegal
  <2>5. \A n \in {3, 8} : LegalCycle(s, n)
    <3> SUFFICES ASSUME NEW n \in {3, 8} PROVE LegalCycle(s, n) OBVIOUS
    <3>1. s[n].op = "write" /\ s[n].to = c /\ s[n].value = Cmd("D0") /\ s[n].value.cmd = "D0"
          /\ s[10].op = "poll"
      BY <2>1, Cycles
    <3>2. 10 \in 1..Len(s) /\ n < 10 BY <2>1
    <3> QED BY <2>1, <3>1, <3>2 DEF LegalCycle, LegalWrite
  <2>6. \A n \in 1..12 : n \in {1, 2, 3, 4, 5, 6, 7, 8, 9, 10, 11, 12} OBVIOUS
  <2> QED BY <2>1, <2>2, <2>3, <2>4, <2>5, <2>6 DEF Legal
<1> QED BY <1>1, <1>2, JobFacts DEF Parallel, Intel

LEMMA LegalBypass == Legal(unlock_bypass)
<1> PICK s : s = unlock_bypass OBVIOUS
<1>1. /\ \E S : s \in Seq(S)
      /\ Len(s) = 4 /\ s[1] = W(Unlock1, Cmd("90")) /\ s[2] = W(Unlock1, Cmd("AA"))
      /\ s[3] = W(Unlock2, Cmd("55")) /\ s[4] = W(Unlock1, Cmd("20"))
  BY BypassScript
<1>2. LegalCycle(s, 1) /\ LegalCycle(s, 2) /\ LegalCycle(s, 3) /\ LegalCycle(s, 4)
  BY <1>1, CommandIsLegal
<1>3. \A n \in 1..4 : n \in {1, 2, 3, 4} OBVIOUS
<1> QED BY <1>1, <1>2, <1>3 DEF Legal

LEMMA LegalReset ==
  ASSUME job \in Jobs
  PROVE  Legal(sflash_reset)
<1> PICK s : s = sflash_reset OBVIOUS
<1>1. /\ \E S : s \in Seq(S)
      /\ job.family = "SPI" => s = <<>>
      /\ job.family = "Intel" => Len(s) = 2 /\ s[1] = W(0, Cmd("50")) /\ s[2] = W(0, Cmd("FF"))
      /\ job.family \in {"AMD", "SST"} => Len(s) = 1 /\ s[1] = W(0, Cmd("F0"))
  BY ResetScript
<1>2. CASE job.family = "SPI" BY <1>1, <1>2, LegalEnd
<1>3. CASE job.family = "Intel"
  <2>1. LegalCycle(s, 1) /\ LegalCycle(s, 2) BY <1>1, <1>3, CommandIsLegal
  <2>2. \A n \in 1..2 : n \in {1, 2} OBVIOUS
  <2> QED BY <1>1, <1>3, <2>1, <2>2 DEF Legal
<1>4. CASE job.family \in {"AMD", "SST"}
  <2>1. LegalCycle(s, 1) BY <1>1, <1>4, CommandIsLegal
  <2>2. \A n \in 1..1 : n = 1 OBVIOUS
  <2> QED BY <1>1, <1>4, <2>1, <2>2 DEF Legal
<1> QED BY <1>2, <1>3, <1>4, JobFacts

LEMMA LegalHalf ==
  ASSUME job \in Jobs, Parallel, job.op = "flash", NEW w \in Words, InArea(w),
         NEW word \in Half \X Half, NEW h \in {1, 2}
  PROVE  Legal(WriteHalf(w, word, h))
<1> PICK s : s = WriteHalf(w, word, h) OBVIOUS
<1> PICK a : a = CellOf(w, h) OBVIOUS
<1>1. /\ \E S : s \in Seq(S)
      /\ Len(s) = Len(HalfCourse)
      /\ job.family = "Intel" =>
           /\ Len(s) = 4 /\ s[1] = W(a, Cmd("50")) /\ s[2] = W(a, Cmd("40"))
           /\ s[3] = W(a, Data(word[h])) /\ s[4] = Poll(a, word[h])
      /\ job.family = "AMD" /\ Bypassed =>
           Len(s) = 2 /\ s[1] = W(Unlock1, Cmd("A0")) /\ s[2] = W(a, Data(word[h]))
      /\ job.family = "SST" \/ (job.family = "AMD" /\ ~Bypassed) =>
           /\ Len(s) = 5 /\ s[1] = W(Unlock1, Cmd("AA")) /\ s[2] = W(Unlock2, Cmd("55"))
           /\ s[3] = W(Unlock1, Cmd("A0")) /\ s[4] = W(a, Data(word[h]))
           /\ s[5] = Poll(2 * w + h - 1, word[h])
  BY HalfScript
<1>2. AreaCell(a) /\ word[h] \in Half
  <2>1. a \in {2 * w, 2 * w + 1} /\ a \in Cells BY Places
  <2>2. a \div 2 = w BY <2>1, CellsOf
  <2>3. word[h] \in Half OBVIOUS
  <2> QED BY <2>1, <2>2, <2>3 DEF AreaCell
<1>3. CASE Intel
  <2>1. LegalCycle(s, 1) BY <1>1, <1>3, CommandIsLegal DEF Intel
  <2>2. LegalCycle(s, 4) BY <1>1, <1>3, PollIsLegal DEF Intel
  <2>3. /\ s[2].op = "write" /\ s[2].to = a /\ s[2].value = Cmd("40") /\ s[2].value.cmd = "40"
        /\ s[2].value.half = {}
        /\ s[3].op = "write" /\ s[3].to = a /\ s[3].value = Data(word[h]) /\ s[3].value.cmd = "data"
        /\ s[3].value.half = word[h] /\ s[4].op = "poll"
    BY <1>1, <1>3, Cycles DEF Intel
  <2>4. {} \in Half /\ Len(s) = 4 /\ 4 \in 1..Len(s) BY <1>1, <1>3 DEF Half, Intel
  <2>5. LegalCycle(s, 2)
    <3>1. s[2 + 1] = s[3] /\ 2 < 4 OBVIOUS
    <3>2. LegalWrite(s, 2) BY <1>2, <2>3, <2>4, <3>1 DEF LegalWrite
    <3>3. s[2] = W(s[2].to, s[2].value) BY <1>1, <1>3, <2>3 DEF Intel
    <3> QED BY <2>3, <3>2, <3>3 DEF LegalCycle
  <2>6. LegalCycle(s, 3) BY <1>1, <1>2, <1>3, <2>3, <2>4 DEF LegalCycle, LegalWrite, Intel
  <2>7. \A n \in 1..4 : n \in {1, 2, 3, 4} OBVIOUS
  <2> QED BY <1>1, <2>1, <2>2, <2>4, <2>5, <2>6, <2>7 DEF Legal
<1>4. CASE job.family \in {"AMD", "SST"}
  <2>1. ASSUME NEW n, s[n] = W(a, Data(word[h])) PROVE LegalCycle(s, n)
    <3>1. s[n].op = "write" /\ s[n].to = a /\ s[n].value = Data(word[h]) BY <2>1, Cycles
    <3> QED BY <1>4, <2>1, <3>1 DEF LegalCycle, Intel
  <2>2. CASE job.family = "AMD" /\ Bypassed
    <3>1. LegalCycle(s, 1) BY <1>1, <2>2, CommandIsLegal
    <3>2. LegalCycle(s, 2) BY <1>1, <2>1, <2>2
    <3>3. \A n \in 1..2 : n \in {1, 2} OBVIOUS
    <3> QED BY <1>1, <2>2, <3>1, <3>2, <3>3 DEF Legal
  <2>3. CASE ~(job.family = "AMD" /\ Bypassed)
    <3>1. /\ Len(s) = 5 /\ s[1] = W(Unlock1, Cmd("AA")) /\ s[2] = W(Unlock2, Cmd("55"))
          /\ s[3] = W(Unlock1, Cmd("A0")) /\ s[4] = W(a, Data(word[h]))
          /\ s[5] = Poll(2 * w + h - 1, word[h])
      BY <1>1, <1>4, <2>3
    <3>2. LegalCycle(s, 1) /\ LegalCycle(s, 2) /\ LegalCycle(s, 3) BY <3>1, CommandIsLegal
    <3>3. LegalCycle(s, 4) BY <2>1, <3>1
    <3>4. LegalCycle(s, 5) BY <3>1, PollIsLegal
    <3>5. \A n \in 1..5 : n \in {1, 2, 3, 4, 5} OBVIOUS
    <3> QED BY <1>1, <3>1, <3>2, <3>3, <3>4, <3>5 DEF Legal
  <2> QED BY <2>2, <2>3
<1> QED BY <1>3, <1>4, JobFacts DEF Parallel, Intel

LEMMA LegalWord ==
  ASSUME job \in Jobs, Parallel, job.op = "flash", NEW w \in Words, InArea(w),
         NEW word \in Half \X Half
  PROVE  Legal(sflash_write_word(w, word))
<1>1. sflash_write_word(w, word) = WriteHalf(w, word, 1) \o WriteHalf(w, word, 2)
  BY DEF sflash_write_word, Parallel
<1>2. Legal(WriteHalf(w, word, 1)) /\ Legal(WriteHalf(w, word, 2)) BY LegalHalf
<1> QED BY <1>1, <1>2, LegalJoined

-----------------------------------------------------------------------------
(* What is in front of such a routine's rest. *)
LEMMA CycleRead ==
  ASSUME NEW a, NEW v, NEW c, c = W(a, v)
  PROVE  /\ Checking(c).op = "check" /\ Checking(c).to = a /\ Checking(c).value = v
         /\ [Checking(c) EXCEPT !.op = "write"] = c
<1>1. c = [op |-> "write", to |-> a, value |-> v] BY DEF W
<1>2. Checking(c) = [op |-> "check", to |-> a, value |-> v] BY <1>1 DEF Checking
<1> QED BY <1>1, <1>2

LEMMA LegalRest ==
  ASSUME NEW s, Legal(s), NEW k \in 1..Len(s), NEW t, t = Rest(s, k)
  PROVE  /\ t # <<>> /\ Head(t) = s[k] /\ Tail(t) = Rest(s, k + 1)
         /\ s[k].op \in {"write", "poll"} /\ LegalCycle(s, k)
         /\ k + 1 \in 1..Len(s) \/ (k = Len(s) /\ Rest(s, k + 1) = <<>>)
<1>1. PICK S : s \in Seq(S) BY DEF Legal
<1>2. t # <<>> /\ Head(t) = s[k] /\ Tail(t) = Rest(s, k + 1) BY <1>1, Rests
<1>3. LegalCycle(s, k) /\ s[k].op \in {"write", "poll"} BY DEF Legal, LegalCycle
<1>4. Len(s) \in Nat /\ Rest(s, Len(s) + 1) = <<>> BY <1>1, Whole
<1>5. k + 1 \in 1..Len(s) \/ k = Len(s) BY <1>4
<1> QED BY <1>2, <1>3, <1>4, <1>5

ReadBack(s, k, t) ==
  /\ t # <<>> /\ Head(t) = Checking(s[k]) /\ Tail(t) = Rest(s, k + 1)
  /\ Checking(s[k]).op = "check" /\ Checking(s[k]).to = s[k].to
  /\ Checking(s[k]).value = s[k].value /\ [Checking(s[k]) EXCEPT !.op = "write"] = s[k]
  /\ <<s[k]>> \o Rest(s, k + 1) = Rest(s, k)

LEMMA LegalCheck ==
  ASSUME NEW s, Legal(s), NEW k \in 1..Len(s), s[k].op = "write",
         NEW t, t = <<Checking(s[k])>> \o Rest(s, k + 1)
  PROVE  ReadBack(s, k, t)
<1>1. PICK S : s \in Seq(S) BY DEF Legal
<1>2. s[k] = W(s[k].to, s[k].value) BY DEF Legal, LegalCycle
<1>3. /\ Checking(s[k]).op = "check" /\ Checking(s[k]).to = s[k].to
      /\ Checking(s[k]).value = s[k].value /\ [Checking(s[k]) EXCEPT !.op = "write"] = s[k]
  BY <1>2, CycleRead
<1> PICK c : c = Checking(s[k]) OBVIOUS
<1> PICK r : r = Rest(s, k + 1) OBVIOUS
<1> PICK T : T = S \cup {c} OBVIOUS
<1>4. r \in Seq(S) BY <1>1, <1>2 DEF Rest
<1>5. r \in Seq(T) /\ c \in T BY <1>4, Wider
<1>6. t # <<>> /\ Head(t) = c /\ Tail(t) = r
  <2>1. t = <<c>> \o r OBVIOUS
  <2> QED BY ONLY <1>5, <2>1
<1>7. <<s[k]>> \o Rest(s, k + 1) = Rest(s, k)
  <2> PICK q : q = Rest(s, k) OBVIOUS
  <2>1. q # <<>> /\ Head(q) = s[k] /\ Tail(q) = r BY <1>1, Rests
  <2>2. q \in Seq(S) BY <1>1 DEF Rest
  <2>3. q = <<Head(q)>> \o Tail(q) BY ONLY <2>1, <2>2
  <2> QED BY <2>1, <2>3
<1> QED BY <1>3, <1>6, <1>7 DEF ReadBack

LEMMA LegalKept ==
  ASSUME job' = job
  PROVE  /\ \A s : Legal(s)' = Legal(s)
         /\ \A x : Work(x)' = Work(x)
         /\ Intel' = Intel
<1>1. Intel' = Intel /\ \A a : AreaCell(a)' = AreaCell(a) BY JobKept DEF Intel, AreaCell
<1>2. \A b : ToErase(b)' = ToErase(b) BY JobKept
<1>3. \A s, n : LegalWrite(s, n)' = LegalWrite(s, n) BY <1>1, <1>2 DEF LegalWrite
<1>4. \A s, n : LegalCycle(s, n)' = LegalCycle(s, n) BY <1>1, <1>3 DEF LegalCycle
<1>5. \A s : Legal(s)' = Legal(s) BY <1>4 DEF Legal
<1>6. \A x : Work(x)' = Work(x) BY <1>1, <1>2 DEF Work, EraseOf
<1> QED BY <1>1, <1>5, <1>6

(* The steps of the program and the chip in the middle of a routine. *)
LEMMA CheckedMoves ==
  ASSUME [Next]_vars, Checked, Parallel, ~spi.sending,
         NEW s, Legal(s), NEW k \in 1..Len(s), Ahead(s, k)
  PROVE  /\ Stays
         /\ \/ /\ todo = Rest(s, k) /\ s[k].op = "write" /\ ~Looking
               /\ BusWrite(job.family, s[k].to, s[k].value)
               /\ todo' = <<Checking(s[k])>> \o Rest(s, k + 1) /\ again' = again
            \/ /\ s[k].op = "write" /\ Looking /\ UNCHANGED chipVars
               /\ \/ /\ todo' = Rest(s, k + 1) /\ again' = Retries
                     /\ again = 0 \/ s[k].value.cmd = "data"
                  \/ todo' = Rest(s, k) /\ again # 0 /\ again' = again - 1
            \/ /\ todo = Rest(s, k) /\ s[k].op = "poll" /\ UNCHANGED chipVars /\ again' = again
               /\ todo' = Rest(s, k + 1)
               /\ (7 \in BusRead(job.family, s[k].to)) = s[k].bit
            \/ Complete /\ UNCHANGED <<todo, again>>
            \/ UNCHANGED <<chipVars, todo, again>>
<1>1. /\ s[k].op \in {"write", "poll"}
      /\ todo = Rest(s, k) => todo # <<>> /\ Head(todo) = s[k] /\ Tail(todo) = Rest(s, k + 1)
  BY LegalRest
<1>2. ASSUME todo # Rest(s, k)
      PROVE  /\ s[k].op = "write" /\ todo # <<>> /\ Head(todo) = Checking(s[k])
             /\ Tail(todo) = Rest(s, k + 1)
             /\ Checking(s[k]).op = "check" /\ Checking(s[k]).to = s[k].to
             /\ Checking(s[k]).value = s[k].value /\ [Checking(s[k]) EXCEPT !.op = "write"] = s[k]
             /\ <<s[k]>> \o Rest(s, k + 1) = Rest(s, k)
  <2>1. s[k].op = "write" /\ todo = <<Checking(s[k])>> \o Rest(s, k + 1) BY <1>2 DEF Ahead
  <2>2. Legal(s) /\ k \in 1..Len(s) OBVIOUS
  <2> PICK t : t = todo OBVIOUS
  <2>3. t = <<Checking(s[k])>> \o Rest(s, k + 1) BY <2>1
  <2>4. s[k].op = "write" BY <2>1
  <2>5. ReadBack(s, k, t) BY ONLY <2>2, <2>3, <2>4, LegalCheck
  <2> QED BY <2>4, <2>5 DEF ReadBack
<1>3. todo # <<>> /\ Head(todo).op \in {"write", "poll", "check"} BY <1>1, <1>2
<1>4. CASE UNCHANGED vars BY <1>4 DEF vars, hostVars, Stays
<1>5. CASE ChipStep BY <1>5 DEF ChipStep, hostVars, Stays
<1>6. CASE ControllerStep BY <1>6 DEF ControllerStep, Transfer
<1>7. CASE HostStep
  <2>1. CASE \/ sflash_erase_area \/ EnterBypass \/ LoadWord \/ Reset \/ SaveWord \/ LoadMemory
    BY <1>3, <2>1 DEF sflash_erase_area, EnterBypass, LoadWord, Reset, SaveWord, LoadMemory
  <2>2. CASE WriteCycle
    <3>1. Head(todo).op = "write" BY <2>2 DEF WriteCycle
    <3>2. todo = Rest(s, k) /\ Head(todo) = s[k] BY <1>1, <1>2, <3>1
    <3> QED BY <1>1, <2>2, <3>1, <3>2 DEF WriteCycle, Stays, Checking, Looking
  <2>3. CASE StartCycle BY <1>3, <2>3 DEF StartCycle
  <2>4. CASE CheckCycle
    <3>1. Head(todo).op = "check" BY <2>4 DEF CheckCycle
    <3>2. todo # Rest(s, k) BY <1>1, <3>1
    <3>3. UNCHANGED chipVars /\ Stays BY <2>4 DEF CheckCycle, Stays
    <3>4. \/ /\ todo' = Tail(todo) /\ again' = Retries
             /\ again = 0 \/ Head(todo).value.cmd = "data"
          \/ /\ todo' = <<[Head(todo) EXCEPT !.op = "write"]>> \o Tail(todo)
             /\ again # 0 /\ again' = again - 1
      BY <2>4 DEF CheckCycle, ReadsEqual, Parallel
    <3> QED BY <1>2, <1>3, <3>1, <3>2, <3>3, <3>4 DEF Looking
  <2>5. CASE PollCycle
    <3>1. Head(todo).op = "poll" BY <2>5 DEF PollCycle
    <3>2. todo = Rest(s, k) /\ Head(todo) = s[k] BY <1>1, <1>2, <3>1
    <3> QED BY <1>1, <2>5, <3>1, <3>2 DEF PollCycle, Stays
  <2>6. CASE StatusCycle BY <1>3, <2>6 DEF StatusCycle
  <2> QED BY <1>7, <2>1, <2>2, <2>3, <2>4, <2>5, <2>6 DEF HostStep
<1>8. CASE Finished BY <1>3, <1>8 DEF Finished
<1> QED BY <1>4, <1>5, <1>6, <1>7, <1>8 DEF Next

-----------------------------------------------------------------------------
Checks == Between \/ \E s, k : Amid(s, k)

(* What the decoder of an AMD chip makes of a cycle under /check. *)
LEMMA AmdHears ==
  ASSUME busy = Ready, job.family \in {"AMD", "SST"}, NEW c, BusWrite(job.family, c.to, c.value),
         mode \in {"read", "unlock1", "unlock2"}
  PROVE  /\ spi' = spi /\ busy' = Ready
         /\ mode = "read" => mode' = "read" \/ (mode' = "unlock1" /\ c.value.cmd = "AA")
         /\ mode = "unlock1" => mode' = "read" \/ (mode' = "unlock2" /\ c.value.cmd = "55")
         /\ mode = "unlock2" /\ c.value.cmd = "55" => mode' = "read"
<1> PICK a, v : a = c.to /\ v = c.value OBVIOUS
<1>1. PICK code : /\ spi' = spi /\ busy' = AmdStarts(a, v, code) /\ mode' = AmdNext(a, v, code)
  BY DEF BusWrite
<1>2. busy' = Ready BY <1>1 DEF AmdStarts
<1>3. CASE mode = "read" BY <1>1, <1>2, <1>3 DEF AmdNext
<1>4. CASE mode = "unlock1" BY <1>1, <1>2, <1>4 DEF AmdNext
<1>5. CASE mode = "unlock2" BY <1>1, <1>2, <1>5 DEF AmdNext
<1> QED BY <1>3, <1>4, <1>5

LEMMA AmdCheckedStep ==
  ASSUME [Next]_vars, Checked, SpiShape(spi), ~spi.sending, job \in Jobs, job' = job,
         job.family \in {"AMD", "SST"}, NEW s, NEW k, Amid(s, k)
  PROVE  spi' = spi /\ Checks'
<1>1. /\ Legal(s) /\ k \in 1..Len(s) /\ Ahead(s, k)
      /\ s[k].op = "poll" => again = Retries
      /\ AmdAt(s[k]) /\ busy = Ready
      /\ pc = "done" => s = sflash_reset /\ (Looking => mode = "read")
  BY DEF Amid, Intel, AmdAt, Closing
<1>2. /\ ~Intel' /\ Legal(s)' /\ Legal(s) /\ sflash_reset' = sflash_reset
      /\ job.family # "Intel"
  BY <1>1, LegalKept, ScriptsKept DEF Intel
<1>3. s[k].op \in {"write", "poll"} /\ (k + 1 \in 1..Len(s) \/ (k = Len(s) /\ Rest(s, k + 1) = <<>>))
  BY <1>1, LegalRest
<1>4. pc = "done" => s[k].op = "write" /\ s[k].value.cmd = "F0"
  <2>1. ASSUME pc = "done" PROVE s[k] = W(0, Cmd("F0"))
    <3>1. s = sflash_reset BY <1>1, <2>1
    <3>2. Len(s) = 1 /\ s[1] = W(0, Cmd("F0")) BY <3>1, ResetScript
    <3>3. k = 1 BY <1>1, <3>2
    <3> QED BY <3>2, <3>3
  <2> QED BY <2>1, Cycles
<1>5. Retries \in Nat \ {0} BY JobsAssumption
<1>6. /\ Stays
      /\ \/ /\ todo = Rest(s, k) /\ s[k].op = "write" /\ ~Looking
            /\ BusWrite(job.family, s[k].to, s[k].value)
            /\ todo' = <<Checking(s[k])>> \o Rest(s, k + 1) /\ again' = again
         \/ /\ s[k].op = "write" /\ Looking /\ UNCHANGED chipVars
            /\ \/ /\ todo' = Rest(s, k + 1) /\ again' = Retries
                  /\ again = 0 \/ s[k].value.cmd = "data"
               \/ todo' = Rest(s, k) /\ again # 0 /\ again' = again - 1
         \/ /\ todo = Rest(s, k) /\ s[k].op = "poll" /\ UNCHANGED chipVars /\ again' = again
            /\ todo' = Rest(s, k + 1)
            /\ (7 \in BusRead(job.family, s[k].to)) = s[k].bit
         \/ Complete /\ UNCHANGED <<todo, again>>
         \/ UNCHANGED <<chipVars, todo, again>>
  BY <1>1, CheckedMoves DEF Parallel
<1>7. pc' = pc BY <1>6 DEF Stays
(* The next place, once the read back has passed or the poll has. *)
<1>8. ASSUME UNCHANGED chipVars, todo' = Rest(s, k + 1), again' = Retries,
             mode \in {"read", "unlock1"}, pc = "done" => mode = "read"
      PROVE  Checks'
  <2>1. busy' = Ready /\ mode' = mode BY <1>1, <1>8 DEF chipVars
  <2>2. CASE k + 1 \in 1..Len(s)
    <3> PICK t : t = Rest(s, k + 1) OBVIOUS
    <3>1. t # <<>> /\ Head(t) = s[k + 1] /\ s[k + 1].op \in {"write", "poll"}
      BY <1>1, <2>2, LegalRest
    <3>2. ~Looking' /\ Ahead(s, k + 1)' BY <1>8, <3>1 DEF Looking, Ahead
    <3>3. AmdAt(s[k + 1])' BY <1>8, <2>1, <3>2 DEF AmdAt
    <3>4. Amid(s, k + 1)' BY <1>1, <1>2, <1>7, <1>8, <2>2, <3>2, <3>3 DEF Amid, Closing
    <3> QED BY <3>4 DEF Checks
  <2>3. CASE k = Len(s) /\ Rest(s, k + 1) = <<>>
    <3>1. Between' BY <1>2, <1>7, <1>8, <2>1, <2>3 DEF Between
    <3> QED BY <3>1 DEF Checks
  <2> QED BY <1>3, <2>2, <2>3
<1>9. CASE /\ todo = Rest(s, k) /\ s[k].op = "write" /\ ~Looking
           /\ BusWrite(job.family, s[k].to, s[k].value)
           /\ todo' = <<Checking(s[k])>> \o Rest(s, k + 1) /\ again' = again
  <2> PICK c : c = s[k] OBVIOUS
  <2> PICK t : t = <<Checking(s[k])>> \o Rest(s, k + 1) OBVIOUS
  <2>0. ReadBack(s, k, t)
    <3>1. Legal(s) /\ k \in 1..Len(s) /\ s[k].op = "write" BY <1>1, <1>9
    <3>2. t = <<Checking(s[k])>> \o Rest(s, k + 1) OBVIOUS
    <3> QED BY ONLY <3>1, <3>2, LegalCheck
  <2>1. t # <<>> /\ Head(t).op = "check" BY <2>0 DEF ReadBack
  <2>2. Looking' /\ Ahead(s, k)' BY <1>9, <2>1 DEF Looking, Ahead
  <2>3. mode \in {"read", "unlock1", "unlock2"} /\ BusWrite(job.family, c.to, c.value)
    BY <1>1, <1>9 DEF AmdAt
  <2>4. /\ spi' = spi /\ busy' = Ready
        /\ mode = "read" => mode' = "read" \/ (mode' = "unlock1" /\ c.value.cmd = "AA")
        /\ mode = "unlock1" => mode' = "read" \/ (mode' = "unlock2" /\ c.value.cmd = "55")
        /\ mode = "unlock2" /\ c.value.cmd = "55" => mode' = "read"
    BY <1>1, <2>3, AmdHears
  <2>5. AmdAt(c)' BY <1>1, <1>9, <2>2, <2>4 DEF AmdAt
  <2>6. pc = "done" => mode' = "read" BY <1>1, <1>4, <2>4 DEF AmdAt
  <2>7. Amid(s, k)' BY <1>1, <1>2, <1>7, <1>9, <2>2, <2>5, <2>6 DEF Amid, Closing
  <2> QED BY <2>4, <2>7 DEF Checks
<1>10. CASE /\ s[k].op = "write" /\ Looking /\ UNCHANGED chipVars
            /\ todo' = Rest(s, k + 1) /\ again' = Retries
            /\ again = 0 \/ s[k].value.cmd = "data"
  <2>1. mode \in {"read", "unlock1"} BY <1>1, <1>5, <1>10 DEF AmdAt
  <2>2. Checks' BY <1>1, <1>8, <1>10, <2>1
  <2> QED BY <1>10, <2>2 DEF chipVars
<1>11. CASE /\ s[k].op = "write" /\ Looking /\ UNCHANGED chipVars
            /\ todo' = Rest(s, k) /\ again # 0 /\ again' = again - 1
  <2> PICK c : c = s[k] OBVIOUS
  <2> PICK t : t = Rest(s, k) OBVIOUS
  <2>1. t # <<>> /\ Head(t) = s[k] BY <1>1, LegalRest
  <2>2. ~Looking' /\ Ahead(s, k)' BY <1>11, <2>1 DEF Looking, Ahead
  <2>3. busy' = busy /\ mode' = mode /\ spi' = spi BY <1>11 DEF chipVars
  <2>4. AmdAt(c)' BY <1>1, <1>11, <2>2, <2>3 DEF AmdAt
  <2>5. Amid(s, k)' BY <1>1, <1>2, <1>7, <1>11, <2>2, <2>4 DEF Amid, Closing
  <2> QED BY <2>3, <2>5 DEF Checks
<1>12. CASE /\ s[k].op = "poll" /\ UNCHANGED chipVars /\ again' = again /\ todo' = Rest(s, k + 1)
  <2>1. mode \in {"read", "unlock1"} BY <1>1, <1>12 DEF AmdAt
  <2>2. Checks' BY <1>1, <1>4, <1>8, <1>12, <2>1
  <2> QED BY <1>12, <2>2 DEF chipVars
<1>13. CASE Complete BY <1>1, <1>13 DEF Complete
<1>14. CASE UNCHANGED <<chipVars, todo, again>>
  <2>1. busy' = busy /\ mode' = mode /\ spi' = spi /\ todo' = todo /\ again' = again
    BY <1>14 DEF chipVars
  <2>2. Looking' = Looking /\ (Ahead(s, k)' <=> Ahead(s, k)) BY <2>1 DEF Looking, Ahead
  <2> PICK c : c = s[k] OBVIOUS
  <2>3. AmdAt(c)' BY <1>1, <2>1, <2>2 DEF AmdAt
  <2>4. Amid(s, k)' BY <1>1, <1>2, <1>7, <2>1, <2>2, <2>3 DEF Amid, Closing
  <2> QED BY <2>1, <2>4 DEF Checks
<1> QED BY <1>6, <1>9, <1>10, <1>11, <1>12, <1>13, <1>14

-----------------------------------------------------------------------------
(* What that of an Intel chip makes of it. *)
LEMMA IntelHears ==
  ASSUME busy = Ready, Intel, NEW c, BusWrite(job.family, c.to, c.value), mode \in IntelModes
  PROVE  /\ spi' = spi /\ mode' \in IntelModes
         /\ mode \notin {"read", "status"} => mode' = "status"
         /\ mode \in {"read", "status"} =>
              /\ mode' = "program" => c.value.cmd = "40"
              /\ c.value.cmd = "FF" => mode' = "read"
              /\ c.value.cmd = "50" => mode' = mode
         /\ \/ busy' = Ready
            \/ mode = "program" /\ busy' = Program(c.to, <<c.value.half>>)
            \/ mode = "confirmErase" /\ c.value.cmd = "D0" /\ busy' = Erase(c.to)
<1> PICK a, v : a = c.to /\ v = c.value OBVIOUS
<1>1. spi' = spi /\ busy' = IntelStarts(a, v) /\ mode' = IntelNext(a, v) BY DEF BusWrite, Intel
<1>2. CASE mode \in {"program", "confirmErase", "confirmUnlock"}
  <2>1. mode' = "status" BY <1>1, <1>2 DEF IntelNext
  <2>2. CASE mode = "program" BY <1>1, <2>1, <2>2 DEF IntelStarts, IntelModes
  <2>3. CASE mode = "confirmErase" BY <1>1, <2>1, <2>3 DEF IntelStarts, IntelModes
  <2>4. CASE mode = "confirmUnlock" BY <1>1, <2>1, <2>4 DEF IntelStarts, IntelModes
  <2> QED BY <1>2, <2>2, <2>3, <2>4
<1>3. CASE mode \in {"read", "status"}
  <2>1. busy' = Ready BY <1>1, <1>3 DEF IntelStarts
  <2>2. mode' = (CASE v.cmd = "40" -> "program"
                   [] v.cmd = "20" -> "confirmErase"
                   [] v.cmd = "60" -> "confirmUnlock"
                   [] v.cmd = "70" -> "status"
                   [] v.cmd = "FF" -> "read"
                   [] OTHER -> mode)
    BY <1>1, <1>3 DEF IntelNext
  <2>3. mode' \in IntelModes BY <1>3, <2>2 DEF IntelModes
  <2>4. /\ mode' = "program" => v.cmd = "40"
        /\ v.cmd = "FF" => mode' = "read"
        /\ v.cmd = "50" => mode' = mode
    BY <1>3, <2>2
  <2> QED BY <1>1, <1>3, <2>1, <2>3, <2>4
<1> QED BY <1>2, <1>3 DEF IntelModes

LEMMA IntelCheckedStep ==
  ASSUME [Next]_vars, Checked, SpiShape(spi), ~spi.sending, job \in Jobs, job' = job,
         Intel, NEW s, NEW k, Amid(s, k)
  PROVE  SpiShape(spi') /\ ~spi'.sending /\ Checks'
<1>1. /\ Legal(s) /\ k \in 1..Len(s) /\ Ahead(s, k)
      /\ s[k].op = "poll" => again = Retries
      /\ IntelAt(s, k)
      /\ pc = "done" => /\ s = sflash_reset
                        /\ k = 1 /\ Looking => mode \in {"read", "status"}
                        /\ k = 2 => mode \in {"read", "status"} /\ (Looking => mode = "read")
  BY DEF Amid, Closing
<1>2. Intel' /\ Legal(s)' /\ sflash_reset' = sflash_reset /\ \A x : Work(x)' = Work(x)
  BY <1>1, LegalKept, ScriptsKept
<1>3. /\ s[k].op \in {"write", "poll"} /\ LegalCycle(s, k)
      /\ k + 1 \in 1..Len(s) \/ (k = Len(s) /\ Rest(s, k + 1) = <<>>)
  BY <1>1, LegalRest
<1>4. pc = "done" =>
        /\ s[k].op = "write" /\ Len(s) = 2 /\ busy = Ready
        /\ \/ k = 1 /\ s[k].value.cmd = "50"
           \/ k = 2 /\ s[k].value.cmd = "FF"
  <2> SUFFICES ASSUME pc = "done"
               PROVE  /\ s[k].op = "write" /\ Len(s) = 2 /\ busy = Ready
                      /\ \/ k = 1 /\ s[k].value.cmd = "50"
                         \/ k = 2 /\ s[k].value.cmd = "FF"
    OBVIOUS
  <2>1. s = sflash_reset BY <1>1
  <2>2. Len(s) = 2 /\ s[1] = W(0, Cmd("50")) /\ s[2] = W(0, Cmd("FF"))
    BY <2>1, ResetScript DEF Intel
  <2>3. /\ s[1].op = "write" /\ s[1].value.cmd = "50"
        /\ s[2].op = "write" /\ s[2].value.cmd = "FF"
    BY <2>2, Cycles
  <2>4. k \in {1, 2} /\ \A m \in k..2 : m \in {1, 2} BY <1>1, <2>2
  <2>5. busy = Ready BY <1>1, <2>2, <2>3, <2>4 DEF IntelAt
  <2> QED BY <2>2, <2>3, <2>4, <2>5
<1>5. k \in Nat /\ Len(s) \in Nat
  <2>1. PICK S : s \in Seq(S) BY <1>1 DEF Legal
  <2>2. Len(s) \in Nat BY <2>1
  <2> QED BY <1>1, <2>2
<1>6. /\ Stays
      /\ \/ /\ todo = Rest(s, k) /\ s[k].op = "write" /\ ~Looking
            /\ BusWrite(job.family, s[k].to, s[k].value)
            /\ todo' = <<Checking(s[k])>> \o Rest(s, k + 1) /\ again' = again
         \/ /\ s[k].op = "write" /\ Looking /\ UNCHANGED chipVars
            /\ \/ /\ todo' = Rest(s, k + 1) /\ again' = Retries
                  /\ again = 0 \/ s[k].value.cmd = "data"
               \/ todo' = Rest(s, k) /\ again # 0 /\ again' = again - 1
         \/ /\ todo = Rest(s, k) /\ s[k].op = "poll" /\ UNCHANGED chipVars /\ again' = again
            /\ todo' = Rest(s, k + 1)
            /\ (7 \in BusRead(job.family, s[k].to)) = s[k].bit
         \/ Complete /\ UNCHANGED <<todo, again>>
         \/ UNCHANGED <<chipVars, todo, again>>
  BY <1>1, CheckedMoves DEF Parallel, Intel
<1>7. pc' = pc BY <1>6 DEF Stays
(* The next place, once the read back has passed or the poll has. *)
<1>8. ASSUME UNCHANGED chipVars, todo' = Rest(s, k + 1), again' = Retries,
             mode = "program" => s[k].op = "write" /\ s[k].value.cmd = "40",
             busy = Ready \/ s[k].op = "write", Looking \/ s[k].op = "poll"
      PROVE  SpiShape(spi') /\ ~spi'.sending /\ Checks'
  <2>1. busy' = busy /\ mode' = mode /\ spi' = spi BY <1>8 DEF chipVars
  <2>2. mode \in IntelModes BY <1>1 DEF IntelAt
  <2>3. pc = "done" => Looking BY <1>4, <1>8
  <2>4. CASE k + 1 \in 1..Len(s)
    <3> PICK t : t = Rest(s, k + 1) OBVIOUS
    <3>1. t # <<>> /\ Head(t) = s[k + 1] /\ s[k + 1].op \in {"write", "poll"}
      BY <1>1, <2>4, LegalRest
    <3>2. ~Looking' /\ Ahead(s, k + 1)' BY <1>8, <3>1 DEF Looking, Ahead
    <3>3. busy = Ready \/ (mode = "status" /\ Work(busy) /\ \E m \in k + 1..Len(s) : s[m].op = "poll")
      <4>1. SUFFICES ASSUME busy # Ready
                     PROVE  mode = "status" /\ Work(busy) /\ \E m \in k + 1..Len(s) : s[m].op = "poll"
        OBVIOUS
      <4>2. PICK m \in k..Len(s) : mode = "status" /\ Work(busy) /\ s[m].op = "poll"
        BY <1>1, <4>1 DEF IntelAt
      <4>3. s[k].op = "write" BY <1>8, <4>1
      <4>4. m # k BY <4>2, <4>3
      <4>5. m \in k + 1..Len(s) BY <1>5, <4>4
      <4> QED BY <4>2, <4>5
    <3>4. mode = "program" => s[k + 1].op = "write" /\ s[k + 1].value.cmd = "data"
      BY <1>3, <1>8 DEF LegalCycle, LegalWrite
    <3>5. IntelAt(s, k + 1)'
      <4>1. Work(busy)' = Work(busy) BY <1>2, <2>1
      <4> QED BY <2>1, <2>2, <3>2, <3>3, <3>4, <4>1 DEF IntelAt
    <3>6. ASSUME pc = "done" PROVE k = 1 /\ mode \in {"read", "status"}
      <4>1. Len(s) = 2 /\ k \in {1, 2} BY <1>4, <3>6
      <4>2. k = 1 BY <2>4, <4>1
      <4> QED BY <1>1, <2>3, <3>6, <4>2
    <3>7. Closing(s, k + 1)' \/ pc # "done"
      BY <1>1, <1>2, <2>1, <3>2, <3>6 DEF Closing
    <3>8. Amid(s, k + 1)' BY <1>1, <1>2, <1>7, <1>8, <2>4, <3>2, <3>5, <3>7 DEF Amid
    <3> QED BY <2>1, <3>8 DEF Checks
  <2>5. CASE k = Len(s) /\ Rest(s, k + 1) = <<>>
    <3>1. mode # "program" BY <1>3, <1>5, <1>8, <2>5 DEF LegalCycle, LegalWrite
    <3>2. busy = Ready
      <4>1. SUFFICES ASSUME busy # Ready PROVE FALSE OBVIOUS
      <4>2. PICK m \in k..Len(s) : s[m].op = "poll" BY <1>1, <4>1 DEF IntelAt
      <4>3. m = k BY <1>5, <2>5
      <4> QED BY <1>8, <4>1, <4>2, <4>3
    <3>3. pc = "done" => mode = "read" BY <1>1, <1>4, <2>3, <2>5
    <3>4. Between' BY <1>2, <1>7, <1>8, <2>1, <2>2, <2>5, <3>1, <3>2, <3>3 DEF Between
    <3> QED BY <2>1, <3>4 DEF Checks
  <2> QED BY <1>3, <2>4, <2>5
<1>9. CASE /\ todo = Rest(s, k) /\ s[k].op = "write" /\ ~Looking
           /\ BusWrite(job.family, s[k].to, s[k].value)
           /\ todo' = <<Checking(s[k])>> \o Rest(s, k + 1) /\ again' = again
  <2> PICK c : c = s[k] OBVIOUS
  <2> PICK t : t = <<Checking(s[k])>> \o Rest(s, k + 1) OBVIOUS
  <2>0. ReadBack(s, k, t)
    <3>1. Legal(s) /\ k \in 1..Len(s) /\ s[k].op = "write" BY <1>1, <1>9
    <3>2. t = <<Checking(s[k])>> \o Rest(s, k + 1) OBVIOUS
    <3> QED BY ONLY <3>1, <3>2, LegalCheck
  <2>1. t # <<>> /\ Head(t).op = "check" BY <2>0 DEF ReadBack
  <2>2. Looking' /\ Ahead(s, k)' BY <1>9, <2>1 DEF Looking, Ahead
  <2>3. /\ mode \in IntelModes
        /\ busy = Ready \/ (mode = "status" /\ Work(busy) /\ \E m \in k..Len(s) : s[m].op = "poll")
        /\ mode = "program" => c.value.cmd \in {"40", "data"}
    BY <1>1 DEF IntelAt
  <2>4. LegalWrite(s, k) BY <1>3, <1>9 DEF LegalCycle
  <2>5. CASE busy # Ready
    <3>1. busy' = busy /\ mode' = mode /\ spi' = spi BY <1>9, <2>5 DEF BusWrite, chipVars, Intel
    <3>2. Work(busy)' = Work(busy) BY <1>2, <3>1
    <3>3. IntelAt(s, k)' BY <2>3, <2>5, <3>1, <3>2 DEF IntelAt
    <3>4. pc # "done" BY <1>4, <2>5
    <3>5. Amid(s, k)' BY <1>1, <1>2, <1>7, <1>9, <2>2, <3>3, <3>4 DEF Amid
    <3> QED BY <3>1, <3>5 DEF Checks
  <2>6. CASE busy = Ready
    <3>1. BusWrite(job.family, c.to, c.value) BY <1>9
    <3>2. /\ spi' = spi /\ mode' \in IntelModes
          /\ mode \notin {"read", "status"} => mode' = "status"
          /\ mode \in {"read", "status"} =>
               /\ mode' = "program" => c.value.cmd = "40"
               /\ c.value.cmd = "FF" => mode' = "read"
               /\ c.value.cmd = "50" => mode' = mode
          /\ \/ busy' = Ready
             \/ mode = "program" /\ busy' = Program(c.to, <<c.value.half>>)
             \/ mode = "confirmErase" /\ c.value.cmd = "D0" /\ busy' = Erase(c.to)
      BY <2>3, <2>6, <3>1, IntelHears
    <3>3. busy' = Ready \/ (mode' = "status" /\ Work(busy') /\ \E m \in k..Len(s) : s[m].op = "poll")
      <4>1. ASSUME c.value.cmd \in {"D0", "40", "data"} PROVE \E m \in k..Len(s) : s[m].op = "poll"
        <5>1. PICK m \in 1..Len(s) : k < m /\ s[m].op = "poll" BY <2>4, <4>1 DEF LegalWrite
        <5>2. m \in k..Len(s) BY <1>5, <5>1
        <5> QED BY <5>1, <5>2
      <4>2. CASE mode = "program" /\ busy' = Program(c.to, <<c.value.half>>)
        <5>1. mode' = "status" /\ c.value.cmd \in {"40", "data"} BY <2>3, <3>2, <4>2
        <5>2. job.op = "flash" /\ AreaCell(c.to) /\ c.value.half \in Half
          BY <2>4, <5>1 DEF LegalWrite
        <5>3. Work(busy') BY <4>2, <5>2 DEF Work, AreaCell
        <5> QED BY <4>1, <5>1, <5>3
      <4>3. CASE mode = "confirmErase" /\ c.value.cmd = "D0" /\ busy' = Erase(c.to)
        <5>1. mode' = "status" BY <3>2, <4>3
        <5>2. job.op \in {"flash", "erase"} /\ \E b \in Blocks : ToErase(b) /\ c.to = 2 * Base[b]
          BY <2>4, <4>3 DEF LegalWrite
        <5>3. Work(busy') BY <4>3, <5>2 DEF Work, EraseOf
        <5> QED BY <4>1, <4>3, <5>1, <5>3
      <4> QED BY <3>2, <4>2, <4>3
    <3>4. Work(busy') = Work(busy)' BY <1>2
    <3>5. mode' = "program" => c.value.cmd = "40" BY <3>2
    <3>6. IntelAt(s, k)' BY <1>9, <2>2, <3>2, <3>3, <3>4, <3>5 DEF IntelAt
    <3>7. Closing(s, k)' \/ pc # "done"
      <4>1. SUFFICES ASSUME pc = "done" PROVE Closing(s, k)' OBVIOUS
      <4>2. mode # "program" BY <1>4, <2>3, <4>1
      <4>3. CASE k = 1 /\ c.value.cmd = "50"
        <5>1. mode' \in {"read", "status"} BY <3>2, <4>3
        <5> QED BY <1>1, <1>2, <4>1, <4>3, <5>1 DEF Closing
      <4>4. CASE k = 2 /\ c.value.cmd = "FF"
        <5>1. mode' = "read" BY <1>1, <3>2, <4>1, <4>4
        <5> QED BY <1>1, <1>2, <4>1, <4>4, <5>1 DEF Closing
      <4> QED BY <1>4, <4>1, <4>3, <4>4
    <3>8. Amid(s, k)' BY <1>1, <1>2, <1>7, <1>9, <2>2, <3>6, <3>7 DEF Amid
    <3> QED BY <3>2, <3>8 DEF Checks
  <2> QED BY <2>5, <2>6
<1>10. CASE /\ s[k].op = "write" /\ Looking /\ UNCHANGED chipVars
            /\ todo' = Rest(s, k + 1) /\ again' = Retries
  <2>1. mode = "program" => s[k].value.cmd = "40" BY <1>1, <1>10 DEF IntelAt
  <2> QED BY <1>8, <1>10, <2>1
<1>11. CASE /\ s[k].op = "write" /\ Looking /\ UNCHANGED chipVars
            /\ todo' = Rest(s, k) /\ again # 0 /\ again' = again - 1
  <2> PICK t : t = Rest(s, k) OBVIOUS
  <2>1. t # <<>> /\ Head(t) = s[k] BY <1>1, LegalRest
  <2>2. ~Looking' /\ Ahead(s, k)' BY <1>11, <2>1 DEF Looking, Ahead
  <2>3. busy' = busy /\ mode' = mode /\ spi' = spi BY <1>11 DEF chipVars
  <2>4. Work(busy)' = Work(busy) BY <1>2, <2>3
  <2>5. IntelAt(s, k)' BY <1>1, <1>11, <2>2, <2>3, <2>4 DEF IntelAt
  <2>6. Closing(s, k)' \/ pc # "done" BY <1>1, <1>2, <1>11, <2>2, <2>3 DEF Closing
  <2>7. Amid(s, k)' BY <1>1, <1>2, <1>7, <1>11, <2>2, <2>5, <2>6 DEF Amid
  <2> QED BY <2>3, <2>7 DEF Checks
<1>12. CASE /\ s[k].op = "poll" /\ UNCHANGED chipVars /\ again' = again /\ todo' = Rest(s, k + 1)
            /\ (7 \in BusRead(job.family, s[k].to)) = s[k].bit
  <2>1. mode # "program" BY <1>1, <1>12 DEF IntelAt
  <2>2. s[k].bit = TRUE BY <1>3, <1>12 DEF LegalCycle
  <2>3. 7 \in BusRead(job.family, s[k].to) BY ONLY <1>12, <2>2
  <2>4. busy = Ready
    <3>1. busy # Ready => BusRead(job.family, s[k].to) = {} BY DEF BusRead, Intel
    <3> QED BY <2>3, <3>1
  <2>5. again' = Retries BY <1>1, <1>12
  <2> QED BY <1>8, <1>12, <2>1, <2>4, <2>5
<1>13. CASE Complete /\ UNCHANGED <<todo, again>>
  <2>1. busy' = Ready /\ mode' = mode /\ spi' = [spi EXCEPT !.latch = FALSE] /\ busy # Ready
        /\ todo' = todo /\ again' = again
    BY <1>13 DEF Complete
  <2>2. Looking' = Looking /\ (Ahead(s, k)' <=> Ahead(s, k)) BY <2>1 DEF Looking, Ahead
  <2>3. IntelAt(s, k)' BY <1>1, <2>1, <2>2 DEF IntelAt
  <2>4. pc # "done" BY <1>4, <2>1
  <2>5. Amid(s, k)' BY <1>1, <1>2, <1>7, <2>1, <2>2, <2>3, <2>4 DEF Amid
  <2>6. SpiShape(spi') /\ ~spi'.sending BY <2>1 DEF SpiShape
  <2> QED BY <2>5, <2>6 DEF Checks
<1>14. CASE UNCHANGED <<chipVars, todo, again>>
  <2>1. busy' = busy /\ mode' = mode /\ spi' = spi /\ todo' = todo /\ again' = again
    BY <1>14 DEF chipVars
  <2>2. Looking' = Looking /\ (Ahead(s, k)' <=> Ahead(s, k)) BY <2>1 DEF Looking, Ahead
  <2>3. Work(busy)' = Work(busy) BY <1>2, <2>1
  <2>4. IntelAt(s, k)' BY <1>1, <2>1, <2>2, <2>3 DEF IntelAt
  <2>5. Closing(s, k)' \/ pc # "done" BY <1>1, <1>2, <2>1, <2>2 DEF Closing
  <2>6. Amid(s, k)' BY <1>1, <1>2, <1>7, <2>1, <2>2, <2>4, <2>5 DEF Amid
  <2> QED BY <2>1, <2>6 DEF Checks
<1> QED BY <1>6, <1>9, <1>10, <1>11, <1>12, <1>13, <1>14

-----------------------------------------------------------------------------
(* The steps between the routines. *)
LEMMA PlaceStep ==
  ASSUME [Next]_vars, job \in Jobs, job' = job, PlaceInv
  PROVE  PlaceInv'
<1>1. job.start \in Nat BY JobFacts
<1>2. CASE pc' = pc /\ at' = at BY <1>2 DEF PlaceInv
<1>3. CASE sflash_erase_area
  <2>1. pc = "erase" /\ (pc' = pc \/ pc' = IF job.op = "erase" THEN "reset" ELSE "bypass")
    BY <1>3 DEF sflash_erase_area
  <2> QED BY <2>1 DEF PlaceInv
<1>4. CASE EnterBypass
  <2>1. pc = "bypass" /\ pc' = "load" /\ at' = job.start BY <1>4 DEF EnterBypass
  <2> QED BY <1>1, <2>1 DEF PlaceInv
<1>5. CASE LoadWord
  <2>1. pc = "load" /\ (pc' = "reset" \/ (pc' = pc /\ at' = at + 1)) BY <1>5 DEF LoadWord
  <2> QED BY <2>1 DEF PlaceInv
<1>6. CASE Reset BY <1>6 DEF Reset, PlaceInv
<1>7. CASE SaveWord BY <1>7 DEF SaveWord, PlaceInv
<1>8. CASE LoadMemory BY <1>8 DEF LoadMemory, PlaceInv
<1>9. CASE UNCHANGED <<pc, at>> BY <1>2, <1>9
<1>10. CASE WriteCycle \/ StartCycle \/ CheckCycle \/ PollCycle \/ StatusCycle
  BY <1>2, <1>10 DEF WriteCycle, StartCycle, CheckCycle, PollCycle, StatusCycle
<1>11. CASE ChipStep \/ ControllerStep \/ Finished \/ UNCHANGED vars
  BY <1>2, <1>11 DEF ChipStep, ControllerStep, Finished, vars, hostVars
<1> QED BY <1>3, <1>4, <1>5, <1>6, <1>7, <1>8, <1>10, <1>11 DEF Next, HostStep

LEMMA RoutineBegins ==
  ASSUME Between, job' = job, UNCHANGED chipVars, again' = again, NEW s, Legal(s), s # <<>>,
         todo' = s, pc' = "done" => s = sflash_reset
  PROVE  Checks'
<1>1. /\ busy = Ready /\ again = Retries
      /\ mode \in (IF Intel THEN IntelModes \ {"program"} ELSE {"read", "unlock1"})
  BY DEF Between
<1>2. busy' = busy /\ mode' = mode BY DEF chipVars
<1>3. Legal(s)' /\ Intel' = Intel /\ sflash_reset' = sflash_reset BY LegalKept, ScriptsKept
<1>4. 1 \in 1..Len(s) /\ Rest(s, 1) = s
  <2>1. PICK S : s \in Seq(S) BY DEF Legal
  <2>2. Len(s) \in Nat /\ Len(s) # 0 BY <2>1
  <2> QED BY <2>1, <2>2, Whole
<1>5. Head(s) = s[1] /\ s[1].op \in {"write", "poll"} BY <1>4, LegalRest
<1>6. ~Looking' /\ Ahead(s, 1)' BY <1>4, <1>5 DEF Looking, Ahead
<1>7. CASE Intel
  <2>1. mode' \in IntelModes /\ mode' # "program" /\ busy' = Ready BY <1>1, <1>2, <1>7
  <2>2. IntelAt(s, 1)' BY <2>1 DEF IntelAt
  <2>3. Closing(s, 1)' \/ pc' # "done" BY <1>3, <1>6 DEF Closing
  <2>4. Amid(s, 1)' BY <1>1, <1>3, <1>4, <1>6, <1>7, <2>2, <2>3 DEF Amid
  <2> QED BY <2>4 DEF Checks
<1>8. CASE ~Intel
  <2>1. AmdAt(s[1])' BY <1>1, <1>2, <1>6, <1>8 DEF AmdAt
  <2>2. Closing(s, 1)' \/ pc' # "done" BY <1>3, <1>6, <1>8 DEF Closing
  <2>3. Amid(s, 1)' BY <1>1, <1>3, <1>4, <1>6, <1>8, <2>1, <2>2 DEF Amid
  <2> QED BY <2>3 DEF Checks
<1> QED BY <1>7, <1>8

LEMMA BetweenKept ==
  ASSUME Between, job' = job, UNCHANGED chipVars, again' = again, todo' = todo,
         pc' = "done" => mode = "read"
  PROVE  Checks'
<1>1. busy' = busy /\ mode' = mode /\ Intel' = Intel BY LegalKept DEF chipVars
<1>2. Between' BY <1>1 DEF Between
<1> QED BY <1>2 DEF Checks

LEMMA BetweenStep ==
  ASSUME [Next]_vars, Checked, Parallel, ~spi.sending, job \in Jobs, job' = job, SavedInv, PlaceInv,
         Between
  PROVE  spi' = spi /\ Checks'
<1>1. todo = <<>> /\ busy = Ready BY DEF Between
<1>2. Parallel OBVIOUS
<1>3. CASE sflash_erase_area
  <2>1. /\ pc = "erase" /\ UNCHANGED chipVars /\ again' = again /\ pc' # "done"
        /\ \/ todo' = todo
           \/ at \in Blocks /\ ToErase(at) /\ todo' = sflash_erase_block(at)
           \/ todo' = <<>>
    BY <1>1, <1>3 DEF sflash_erase_area
  <2>2. ASSUME at \in Blocks, ToErase(at), todo' = sflash_erase_block(at), todo' # <<>>
        PROVE  Checks'
    <3> PICK b \in Blocks : b = at BY <2>2
    <3>1. job.op \in {"flash", "erase"} BY <2>1 DEF PlaceInv
    <3> PICK s : s = sflash_erase_block(b) OBVIOUS
    <3>2. Legal(s) BY <1>2, <2>2, <3>1, LegalErase
    <3>3. todo' = s /\ s # <<>> BY <2>2
    <3> QED BY <2>1, <3>2, <3>3, RoutineBegins
  <2>3. todo' = <<>> => Checks' BY <1>1, <2>1, BetweenKept
  <2>4. spi' = spi BY <2>1 DEF chipVars
  <2> QED BY <1>1, <2>1, <2>2, <2>3, <2>4
<1>4. CASE EnterBypass
  <2>1. /\ UNCHANGED chipVars /\ again' = again /\ pc' # "done"
        /\ todo' = unlock_bypass \/ todo' = <<>>
    BY <1>4 DEF EnterBypass
  <2>2. ASSUME todo' = unlock_bypass, todo' # <<>> PROVE Checks'
    <3> PICK s : s = unlock_bypass OBVIOUS
    <3>1. Legal(s) /\ todo' = s /\ s # <<>> BY <2>2, LegalBypass
    <3> QED BY <2>1, <3>1, RoutineBegins
  <2>3. todo' = <<>> => Checks' BY <1>1, <2>1, BetweenKept
  <2>4. spi' = spi BY <2>1 DEF chipVars
  <2> QED BY <2>1, <2>2, <2>3, <2>4
<1>5. CASE LoadWord
  <2>1. /\ pc = "load" /\ UNCHANGED chipVars /\ again' = again /\ pc' # "done"
        /\ \/ todo' = <<>>
           \/ /\ InArea(at)
              /\ \E word \in AreaWord(at) : todo' = sflash_write_word(at, word)
    BY <1>1, <1>5 DEF LoadWord
  <2>2. ASSUME InArea(at), NEW word \in AreaWord(at), todo' = sflash_write_word(at, word), todo' # <<>>
        PROVE  Checks'
    <3> PICK w : w = at OBVIOUS
    <3>1. w \in Nat /\ job.op = "flash" BY <2>1 DEF PlaceInv
    <3>2. w \in Words
      <4> DEFINE f == job.start
                 l == job.length
      <4>1. f <= w /\ w < f + l BY <2>2 DEF InArea
      <4>2. f \in Nat /\ l \in Nat BY JobFacts
      <4> HIDE DEF f, l
      <4>3. w \in f..f + l BY <3>1, <4>1, <4>2
      <4> QED BY <2>2, <4>3, AreaPlace DEF f, l
    <3>3. word \in Half \X Half BY <2>2, <3>2, WordsTyped
    <3> PICK s : s = sflash_write_word(w, word) OBVIOUS
    <3>4. Legal(s) BY <1>2, <2>2, <3>1, <3>2, <3>3, LegalWord
    <3>5. todo' = s /\ s # <<>> BY <2>2
    <3> QED BY <2>1, <3>4, <3>5, RoutineBegins
  <2>3. todo' = <<>> => Checks' BY <1>1, <2>1, BetweenKept
  <2>4. spi' = spi BY <2>1 DEF chipVars
  <2> QED BY <2>1, <2>2, <2>3, <2>4
<1>6. CASE Reset
  <2>1. UNCHANGED chipVars /\ again' = again /\ todo' = sflash_reset /\ pc' = "done"
    BY <1>6 DEF Reset
  <2> PICK s : s = sflash_reset OBVIOUS
  <2>2. Legal(s) BY LegalReset
  <2>3. s # <<>>
    <3>1. PICK S : s \in Seq(S) BY <2>2 DEF Legal
    <3>2. Len(s) \in {1, 2} BY <1>2, ResetScript, JobFacts DEF Parallel
    <3> QED BY <3>1, <3>2
  <2>4. spi' = spi BY <2>1 DEF chipVars
  <2> QED BY <2>1, <2>2, <2>3, <2>4, RoutineBegins
<1>7. CASE SaveWord
  <2>1. /\ UNCHANGED chipVars /\ again' = again /\ todo' = todo /\ pc = "save"
        /\ pc' = pc \/ pc' = "done"
    BY <1>7 DEF SaveWord
  <2>2. mode = "read" BY <2>1 DEF PlaceInv, SavedInv
  <2>3. spi' = spi BY <2>1 DEF chipVars
  <2> QED BY <2>1, <2>2, <2>3, BetweenKept
<1>8. CASE LoadMemory
  <2>1. UNCHANGED chipVars /\ again' = again /\ todo' = todo /\ pc' # "done"
    BY <1>8 DEF LoadMemory
  <2>2. spi' = spi BY <2>1 DEF chipVars
  <2> QED BY <2>1, <2>2, BetweenKept
<1>9. ASSUME WriteCycle \/ StartCycle \/ CheckCycle \/ PollCycle \/ StatusCycle PROVE FALSE
  BY <1>1, <1>9 DEF WriteCycle, StartCycle, CheckCycle, PollCycle, StatusCycle
<1>10. ASSUME ChipStep \/ ControllerStep PROVE FALSE
  BY <1>1, <1>10 DEF ChipStep, ControllerStep, Complete, Transfer
<1>11. CASE Finished \/ UNCHANGED vars
  <2>1. UNCHANGED chipVars /\ again' = again /\ todo' = todo /\ pc' = pc
    BY <1>11 DEF Finished, vars, hostVars
  <2>2. pc' = "done" => mode = "read" BY <2>1 DEF Between
  <2>3. spi' = spi BY <2>1 DEF chipVars
  <2> QED BY <2>1, <2>2, <2>3, BetweenKept
<1> QED BY <1>3, <1>4, <1>5, <1>6, <1>7, <1>8, <1>9, <1>10, <1>11 DEF Next, HostStep

-----------------------------------------------------------------------------
(* A serial chip under /check.  What a repeated cycle does depends on the     *)
(* controller, but no command that erases or programs names a place outside   *)
(* the area, and each routine ends with asking for the status until the chip  *)
(* says that it is ready.                                                     *)
Order(v) ==
  \/ v.cmd \in {"none", "write_enable", "read_status"}
  \/ /\ v.cmd = "erase" /\ job.op \in {"flash", "erase"}
     /\ \E b \in Blocks : ToErase(b) /\ v.at = 2 * Base[b]
  \/ v.cmd = "program" /\ job.op = "flash" /\ \E w \in Words : InArea(w) /\ v.at = 2 * w
Carried(c) ==
  \/ c.to = Opcode /\ Order(c.value)
  \/ c.to = DataReg /\ c.value \in Half \X Half
  \/ c.to = Ctl /\ c.value.cmd = "start"
  \/ c.to \in {Unlock1, Unlock2}
Lawful(c) ==
  \/ c = SpiWait
  \/ c.op = "write" /\ c = W(c.to, c.value) /\ Carried(c)
  \/ c.op = "check" /\ c = Checking(W(c.to, c.value)) /\ Carried(c)
Lawfully(p) == (\E S : p \in Seq(S)) /\ \A n \in 1..Len(p) : Lawful(p[n])

(* How every routine ends, and what is left of it before each of its cycles.  *)
Ask == W(Opcode, Serial("read_status", 0))
Told1 == [op |-> "status", to |-> DataReg]
Q1 == <<Told1>>
Q2 == <<SpiWait, Told1>>
Q3 == <<Start, SpiWait, Told1>>
Q4 == <<Ask, Start, SpiWait, Told1>>
Q5 == <<SpiWait, Ask, Start, SpiWait, Told1>>
K3 == <<Checking(Start), SpiWait, Told1>>
K4 == <<Checking(Ask), Start, SpiWait, Told1>>

AtPeace == busy = Ready /\ ~spi.sending
Answered == ~spi.sending /\ Told
Asked == spi.opcode.cmd = "read_status" /\ spi.ctl.cmd = "start" /\ (spi.sending \/ Answered)
Aimed == spi.opcode.cmd = "read_status" /\ ~spi.sending
Harmless(p) == Lawfully(p) /\ \A n \in 1..Len(p) : p[n].to \in {Unlock1, Unlock2}
Awaiting ==
  \/ \E p : Lawfully(p) /\ todo = p \o Q5
  \/ todo = Q4 /\ ~spi.sending
  \/ todo = K4 /\ Aimed
  \/ todo = Q3 /\ (Aimed \/ Asked)
  \/ todo = K3 /\ Asked
  \/ todo = Q2 /\ Asked
  \/ todo = Q1 /\ Answered
  \/ Harmless(todo) /\ AtPeace
Ours(x) ==
  \/ job.op \in {"flash", "erase"} /\ \E b \in Blocks : ToErase(b) /\ x = EraseOf(b)
  \/ /\ job.op = "flash"
     /\ \E w \in Words, word \in Half \X Half : InArea(w) /\ x = Program(2 * w, word)
Registers ==
  /\ SpiShape(spi) /\ Order(spi.opcode) /\ spi.data \in Half \X Half
  /\ spi.ctl.cmd \in {"none", "start"} /\ (spi.sending => spi.ctl.cmd = "start")
  /\ mode = "read" /\ (busy = Ready \/ Ours(busy))
SerialInv == Registers /\ Awaiting

-----------------------------------------------------------------------------
(* What a write to a register, a transfer and the chip's end do to these.     *)
LEMMA OrderKept ==
  ASSUME job' = job
  PROVE  /\ \A v : Order(v)' = Order(v)
         /\ \A x : Ours(x)' = Ours(x)
         /\ \A c : Lawful(c)' = Lawful(c)
         /\ \A p : Lawfully(p)' = Lawfully(p)
<1>1. (\A b : ToErase(b)' = ToErase(b)) /\ (\A w : InArea(w)' = InArea(w)) BY JobKept
<1>2. \A v : Order(v)' = Order(v) BY <1>1 DEF Order
<1>3. \A x : Ours(x)' = Ours(x) BY <1>1 DEF Ours, EraseOf
<1>4. \A c : Lawful(c)' = Lawful(c)
  <2>1. \A c : Carried(c)' = Carried(c) BY <1>2 DEF Carried
  <2> QED BY <2>1 DEF Lawful
<1>5. \A p : Lawfully(p)' = Lawfully(p) BY <1>4 DEF Lawfully
<1> QED BY <1>2, <1>3, <1>4, <1>5

LEMMA RegistersWritten ==
  ASSUME Registers, job' = job, NEW c, Carried(c), SpiWrite(c.to, c.value),
         mode' = mode, busy' = busy
  PROVE  /\ Registers'
         /\ spi.sending => spi' = spi
         /\ c.to \in {Unlock1, Unlock2} => spi' = spi
         /\ c.to = Ctl /\ ~spi.sending => /\ spi'.sending /\ spi'.ctl.cmd = "start"
                                          /\ spi'.opcode = spi.opcode
         /\ c.to = Opcode /\ ~spi.sending => ~spi'.sending /\ spi'.opcode = c.value
<1>1. SpiShape(spi) BY DEF Registers
<1>2. Opcode # Ctl /\ DataReg # Ctl /\ DataReg # Opcode
      /\ {Unlock1, Unlock2} \cap {Ctl, Opcode, DataReg} = {}
  BY DEF Opcode, Ctl, DataReg, Unlock1, Unlock2
<1>3. CASE spi.sending
  <2>1. spi' = spi BY <1>3 DEF SpiWrite
  <2> QED BY <1>3, <2>1, OrderKept DEF Registers
<1>4. CASE ~spi.sending /\ c.to = Opcode
  <2>1. /\ SpiShape(spi') /\ ~spi'.sending /\ spi'.opcode = c.value /\ spi'.ctl = spi.ctl
        /\ spi'.data = spi.data
    BY <1>1, <1>4, OpcodeWritten
  <2>2. Order(c.value) BY <1>2, <1>4 DEF Carried
  <2> QED BY <1>2, <1>4, <2>1, <2>2, OrderKept DEF Registers
<1>5. CASE ~spi.sending /\ c.to = DataReg
  <2>1. /\ SpiShape(spi') /\ ~spi'.sending /\ spi'.data = c.value /\ spi'.ctl = spi.ctl
        /\ spi'.opcode = spi.opcode
    BY <1>1, <1>5, DataWritten
  <2>2. c.value \in Half \X Half BY <1>2, <1>5 DEF Carried
  <2> QED BY <1>2, <1>5, <2>1, <2>2, OrderKept DEF Registers
<1>6. CASE ~spi.sending /\ c.to = Ctl
  <2>1. c.value.cmd = "start" BY <1>2, <1>6 DEF Carried
  <2>2. /\ SpiShape(spi') /\ (spi'.sending <=> c.value.cmd # "none") /\ spi'.ctl = c.value
        /\ spi'.data = spi.data /\ spi'.opcode = spi.opcode
    BY <1>1, <1>6, CtlWritten
  <2> QED BY <1>2, <1>6, <2>1, <2>2, OrderKept DEF Registers
<1>7. CASE ~spi.sending /\ c.to \in {Unlock1, Unlock2}
  <2>1. spi' = spi BY <1>2, <1>7 DEF SpiWrite
  <2> QED BY <1>2, <1>7, <2>1, OrderKept DEF Registers
<1> QED BY <1>3, <1>4, <1>5, <1>6, <1>7 DEF Carried

LEMMA RegistersTransfer ==
  ASSUME Registers, job' = job, Transfer
  PROVE  /\ Registers' /\ spi.sending /\ ~spi'.sending /\ spi'.opcode = spi.opcode
         /\ spi'.ctl = spi.ctl
         /\ spi.opcode.cmd = "read_status" => Told'
<1>1. /\ SpiShape(spi') /\ spi.sending /\ ~spi'.sending /\ spi'.ctl = spi.ctl
      /\ spi'.opcode = spi.opcode
      /\ spi'.data = (IF Sent = "read_status" THEN <<IF busy = Ready THEN {} ELSE {0}, {}>> ELSE spi.data)
      /\ mode' = mode
  BY Transferred DEF Registers
<1>2. Sent = spi.opcode.cmd BY <1>1 DEF Registers, Sent
<1>3. spi'.data \in Half \X Half
  <2>1. {} \in Half /\ {0} \in Half BY DEF Half
  <2> QED BY <1>1, <2>1 DEF Registers
<1>4. busy' = busy \/ Ours(busy')
  <2>1. busy' = CASE Sent = "erase" /\ busy = Ready /\ spi.latch -> Erase(spi.opcode.at)
                  [] Sent = "program" /\ busy = Ready /\ spi.latch -> Program(spi.opcode.at, spi.data)
                  [] OTHER -> busy
    BY DEF Transfer
  <2>2. CASE Sent = "erase" /\ busy' # busy
    <3>1. busy' = Erase(spi.opcode.at) BY <2>1, <2>2
    <3>2. Order(spi.opcode) /\ spi.opcode.cmd = "erase" BY <1>2, <2>2 DEF Registers
    <3> QED BY <3>1, <3>2 DEF Order, Ours, EraseOf
  <2>3. CASE Sent = "program" /\ busy' # busy
    <3>1. busy' = Program(spi.opcode.at, spi.data) BY <2>1, <2>3
    <3>2. Order(spi.opcode) /\ spi.opcode.cmd = "program" /\ spi.data \in Half \X Half
      BY <1>2, <2>3 DEF Registers
    <3> QED BY <3>1, <3>2 DEF Order, Ours
  <2> QED BY <2>1, <2>2, <2>3
<1>5. spi.opcode.cmd = "read_status" => Told'
  <2> SUFFICES ASSUME spi.opcode.cmd = "read_status" PROVE Told' OBVIOUS
  <2>1. busy' = busy BY <1>2 DEF Transfer
  <2>2. spi'.data = <<IF busy = Ready THEN {} ELSE {0}, {}>> BY <1>1, <1>2
  <2> QED BY <2>1, <2>2 DEF Told
<1>6. Registers' BY <1>1, <1>3, <1>4, OrderKept DEF Registers
<1> QED BY <1>1, <1>5, <1>6

LEMMA RegistersComplete ==
  ASSUME Registers, job' = job, Complete
  PROVE  /\ Registers' /\ spi'.sending = spi.sending /\ spi'.opcode = spi.opcode
         /\ spi'.ctl = spi.ctl /\ busy # Ready /\ Told'
<1>1. /\ spi' = [spi EXCEPT !.latch = FALSE] /\ busy' = Ready /\ busy # Ready /\ mode' = mode
  BY DEF Complete
<1>2. /\ spi'.sending = spi.sending /\ spi'.opcode = spi.opcode /\ spi'.ctl = spi.ctl
      /\ spi'.data = spi.data /\ SpiShape(spi')
  BY <1>1 DEF Registers, SpiShape
<1> QED BY <1>1, <1>2, OrderKept DEF Registers, Told

-----------------------------------------------------------------------------
(* The ends of a routine as sequences. *)
LEMMA Closings ==
  /\ Q1 # <<>> /\ Head(Q1) = Told1 /\ Tail(Q1) = <<>>
  /\ Q2 # <<>> /\ Head(Q2) = SpiWait /\ Tail(Q2) = Q1
  /\ Q3 # <<>> /\ Head(Q3) = Start /\ Tail(Q3) = Q2 /\ <<Checking(Start)>> \o Q2 = K3
  /\ Q4 # <<>> /\ Head(Q4) = Ask /\ Tail(Q4) = Q3 /\ <<Checking(Ask)>> \o Q3 = K4
  /\ Q5 # <<>> /\ Head(Q5) = SpiWait /\ Tail(Q5) = Q4
  /\ K3 # <<>> /\ Head(K3) = Checking(Start) /\ Tail(K3) = Q2 /\ <<Start>> \o Q2 = Q3
  /\ K4 # <<>> /\ Head(K4) = Checking(Ask) /\ Tail(K4) = Q3 /\ <<Ask>> \o Q3 = Q4
  /\ spiflash_sendcmd("read_status") \o Q1 = Q5
  /\ \E S : Q5 \in Seq(S)
<1> PICK a, b, c, d, k, l : /\ a = Told1 /\ b = SpiWait /\ c = Start /\ d = Ask
                            /\ k = Checking(Start) /\ l = Checking(Ask)
  OBVIOUS
<1>1. /\ Q1 = <<a>> /\ Q2 = <<b, a>> /\ Q3 = <<c, b, a>> /\ Q4 = <<d, c, b, a>>
      /\ Q5 = <<b, d, c, b, a>> /\ K3 = <<k, b, a>> /\ K4 = <<l, c, b, a>>
      /\ spiflash_sendcmd("read_status") = <<b, d, c, b>>
  BY DEF Q1, Q2, Q3, Q4, Q5, K3, K4, spiflash_sendcmd, Ask
<1> PICK S : S = {a, b, c, d, k, l} OBVIOUS
<1>2. Q5 \in Seq(S) BY <1>1
<1>3. /\ Q1 # <<>> /\ Head(Q1) = a /\ Tail(Q1) = <<>>
      /\ Q2 # <<>> /\ Head(Q2) = b /\ Tail(Q2) = Q1
      /\ Q3 # <<>> /\ Head(Q3) = c /\ Tail(Q3) = Q2
  BY ONLY <1>1
<1>4. /\ Q4 # <<>> /\ Head(Q4) = d /\ Tail(Q4) = Q3
      /\ Q5 # <<>> /\ Head(Q5) = b /\ Tail(Q5) = Q4
      /\ K3 # <<>> /\ Head(K3) = k /\ Tail(K3) = Q2
      /\ K4 # <<>> /\ Head(K4) = l /\ Tail(K4) = Q3
  BY ONLY <1>1
<1>5. ASSUME NEW q \in Seq(S), q # <<>> PROVE <<Head(q)>> \o Tail(q) = q
  <2>0. PICK h, t, u : h = Head(q) /\ t = Tail(q) /\ u = <<h>> OBVIOUS
  <2>1. /\ h \in S /\ h = q[1] /\ t \in Seq(S) /\ Len(q) \in Nat \ {0} /\ Len(t) = Len(q) - 1
        /\ \A n \in 1..Len(q) - 1 : t[n] = q[n + 1]
    <3>1. q \in Seq(S) /\ q # <<>> BY <1>5
    <3> QED BY ONLY <2>0, <3>1
  <2>2. u \in Seq(S) /\ Len(u) = 1 /\ u[1] = h BY ONLY <2>0, <2>1
  <2>7. PICK x : x = u \o t OBVIOUS
  <2>8. /\ x \in Seq(S) /\ Len(x) = Len(u) + Len(t)
        /\ \A n \in 1..Len(u) + Len(t) : x[n] = IF n <= Len(u) THEN u[n] ELSE t[n - Len(u)]
    <3>1. u \in Seq(S) /\ t \in Seq(S) BY ONLY <2>1, <2>2
    <3> QED BY ONLY <2>7, <3>1
  <2>3. /\ x \in Seq(S) /\ Len(x) = 1 + Len(t)
        /\ \A n \in 1..1 + Len(t) : x[n] = IF n <= 1 THEN u[n] ELSE t[n - 1]
    BY ONLY <2>2, <2>8
  <2>4. Len(x) = Len(q) BY ONLY <2>1, <2>3
  <2>5. \A n \in 1..Len(q) : x[n] = q[n]
    <3> SUFFICES ASSUME NEW n \in 1..Len(q) PROVE x[n] = q[n] OBVIOUS
    <3>1. CASE n = 1 BY ONLY <3>1, <2>1, <2>2, <2>3
    <3>2. CASE n # 1
      <4>1. n - 1 \in 1..Len(q) - 1 /\ (n - 1) + 1 = n /\ ~(n <= 1) BY ONLY <3>2, <2>1
      <4> QED BY ONLY <4>1, <2>1, <2>3
    <3> QED BY ONLY <3>1, <3>2
  <2>6. x = q BY ONLY <1>5, <2>3, <2>4, <2>5, SameSeq
  <2> QED BY ONLY <2>0, <2>6, <2>7
<1>6. K3 \in Seq(S) /\ K4 \in Seq(S) /\ Q3 \in Seq(S) /\ Q4 \in Seq(S) BY <1>1
<1>7. /\ <<k>> \o Q2 = K3 /\ <<l>> \o Q3 = K4 /\ <<c>> \o Q2 = Q3 /\ <<d>> \o Q3 = Q4
  BY <1>3, <1>4, <1>5, <1>6
<1>8. spiflash_sendcmd("read_status") \o Q1 = Q5
  <2>0. PICK u, v : u = <<b, d, c, b>> /\ v = <<a>> OBVIOUS
  <2>1. u \in Seq(S) /\ v \in Seq(S) BY <2>0
  <2>2. Len(u) = 4 /\ u[1] = b /\ u[2] = d /\ u[3] = c /\ u[4] = b /\ Len(v) = 1 /\ v[1] = a
    BY <2>0
  <2>10. PICK x : x = u \o v OBVIOUS
  <2>8. /\ x \in Seq(S) /\ Len(x) = Len(u) + Len(v)
        /\ \A n \in 1..Len(u) + Len(v) : x[n] = IF n <= Len(u) THEN u[n] ELSE v[n - Len(u)]
    BY ONLY <2>1, <2>10
  <2>9. Len(x) = 5 /\ \A n \in 1..5 : x[n] = IF n <= 4 THEN u[n] ELSE v[n - 4]
    BY ONLY <2>2, <2>8
  <2>3. /\ x \in Seq(S) /\ Len(x) = 5 /\ x[1] = b /\ x[2] = d /\ x[3] = c /\ x[4] = b /\ x[5] = a
    BY ONLY <2>2, <2>8, <2>9
  <2>4. Len(Q5) = 5 /\ Q5[1] = b /\ Q5[2] = d /\ Q5[3] = c /\ Q5[4] = b /\ Q5[5] = a
    BY ONLY <1>1
  <2>5. \A n \in 1..5 : n \in {1, 2, 3, 4, 5} OBVIOUS
  <2>6. \A n \in 1..5 : x[n] = Q5[n] BY ONLY <2>3, <2>4, <2>5
  <2>7. x = Q5 BY ONLY <1>2, <2>3, <2>4, <2>6, SameSeq
  <2> QED BY ONLY <1>1, <2>0, <2>7, <2>10
<1> QED BY <1>1, <1>2, <1>3, <1>4, <1>7, <1>8

(* Cycles in front of more.                                                   *)
LEMMA Fronts ==
  ASSUME NEW p, Lawfully(p), NEW q, \E S : q \in Seq(S)
  PROVE  /\ \E S : p \o q \in Seq(S)
         /\ p = <<>> => p \o q = q
         /\ p # <<>> => /\ p \o q # <<>> /\ Head(p \o q) = Head(p) /\ Tail(p \o q) = Tail(p) \o q
                        /\ Lawful(Head(p)) /\ Lawfully(Tail(p))
         /\ \A c : Lawful(c) /\ p # <<>> => /\ Lawfully(<<c>> \o Tail(p))
                              /\ <<c>> \o (Tail(p) \o q) = (<<c>> \o Tail(p)) \o q
<1>1. PICK A, B : p \in Seq(A) /\ q \in Seq(B) BY DEF Lawfully
<1> PICK S : S = A \cup B OBVIOUS
<1>2. p \in Seq(S) /\ q \in Seq(S) BY <1>1, Wider
<1>3. p \o q \in Seq(S) /\ (p = <<>> => p \o q = q) BY <1>2
<1>4. ASSUME p # <<>>
      PROVE  /\ p \o q # <<>> /\ Head(p \o q) = Head(p) /\ Tail(p \o q) = Tail(p) \o q
             /\ Lawful(Head(p)) /\ Lawfully(Tail(p))
  <2>1. Len(p) \in Nat /\ 1 \in 1..Len(p) /\ Head(p) = p[1] BY <1>2, <1>4
  <2>2. Rest(p, 1) = p BY <1>2, Whole
  <2>3. Tail(p) = Rest(p, 2) BY <1>2, <2>1, <2>2, Rests
  <2>4. p \o q # <<>> /\ Head(p \o q) = p[1] /\ Tail(p \o q) = Rest(p, 1 + 1) \o q
    BY <1>2, <2>1, <2>2, Pieces
  <2>5. Lawful(p[1]) BY <2>1 DEF Lawfully
  <2>6. Lawfully(Tail(p))
    <3>1. /\ Tail(p) \in Seq(S) /\ Len(Tail(p)) = Len(p) - 1
          /\ \A n \in 1..Len(p) - 1 : Tail(p)[n] = p[n + 1]
      BY <1>2, <1>4
    <3>2. \A n \in 1..Len(p) - 1 : n + 1 \in 1..Len(p) BY <2>1
    <3> QED BY <3>1, <3>2 DEF Lawfully
  <2> QED BY <2>1, <2>3, <2>4, <2>5, <2>6
<1>5. ASSUME NEW c, Lawful(c), p # <<>>
      PROVE  /\ Lawfully(<<c>> \o Tail(p))
             /\ <<c>> \o (Tail(p) \o q) = (<<c>> \o Tail(p)) \o q
  <2> PICK T : T = S \cup {c} OBVIOUS
  <2> PICK t : t = Tail(p) OBVIOUS
  <2>1. Lawfully(t) BY <1>4, <1>5
  <2>2. t \in Seq(S) BY <1>2, <1>5
  <2>3. t \in Seq(T) /\ q \in Seq(T) /\ <<c>> \in Seq(T) BY <1>2, <2>2, Wider
  <2>4. (<<c>> \o t) \o q = <<c>> \o (t \o q) BY <2>3, Associative
  <2>5. Lawfully(<<c>> \o t)
    <3> PICK s : s = <<c>> \o t OBVIOUS
    <3>1. /\ s \in Seq(T) /\ Len(t) \in Nat /\ Len(s) = 1 + Len(t)
          /\ \A n \in 1..Len(s) : s[n] = IF n = 1 THEN c ELSE t[n - 1]
      BY <2>3
    <3>2. \A n \in 1..Len(s) : n = 1 \/ n - 1 \in 1..Len(t) BY <3>1
    <3>3. \A n \in 1..Len(s) : Lawful(s[n]) BY <1>5, <2>1, <3>1, <3>2 DEF Lawfully
    <3> QED BY <3>1, <3>3 DEF Lawfully
  <2> QED BY <2>4, <2>5
<1> QED BY <1>3, <1>4, <1>5

(* What a lawful cycle may be, and what a write of it is read back as.        *)
LEMMA LawfulCycles ==
  ASSUME NEW c, Lawful(c)
  PROVE  /\ c.op \in {"write", "check", "poll"}
         /\ c.op = "poll" => c = SpiWait
         /\ c.op # "poll" => Carried(c)
         /\ c.op = "write" => Lawful(Checking(c)) /\ Checking(c).to = c.to
         /\ c.op = "check" => Lawful([c EXCEPT !.op = "write"]) /\ [c EXCEPT !.op = "write"].to = c.to
<1>1. CASE c = SpiWait BY <1>1 DEF SpiWait
<1> PICK w : w = W(c.to, c.value) OBVIOUS
<1>2. /\ Checking(w).op = "check" /\ Checking(w).to = c.to /\ Checking(w).value = c.value
      /\ [Checking(w) EXCEPT !.op = "write"] = w /\ w.op = "write" /\ w.to = c.to /\ w.value = c.value
  BY CycleRead, Cycles
<1>3. CASE c.op = "write" /\ c = w /\ Carried(c)
  <2>1. Carried(Checking(c)) BY <1>2, <1>3 DEF Carried
  <2>2. Checking(c) = Checking(W(Checking(c).to, Checking(c).value)) BY <1>2, <1>3
  <2> QED BY <1>2, <1>3, <2>1, <2>2 DEF Lawful
<1>4. CASE c.op = "check" /\ c = Checking(w) /\ Carried(c)
  <2>1. [c EXCEPT !.op = "write"] = w BY <1>2, <1>4
  <2>2. Carried(w) BY <1>2, <1>4 DEF Carried
  <2> QED BY <1>2, <1>4, <2>1, <2>2 DEF Lawful
<1> QED BY <1>1, <1>3, <1>4 DEF Lawful

LEMMA Closers ==
  /\ Ask.op = "write" /\ Ask.to = Opcode /\ Ask.value.cmd = "read_status" /\ Carried(Ask)
  /\ Start.op = "write" /\ Start.to = Ctl /\ Start.value.cmd = "start" /\ Carried(Start)
  /\ Checking(Ask).op = "check" /\ [Checking(Ask) EXCEPT !.op = "write"] = Ask
  /\ Checking(Start).op = "check" /\ [Checking(Start) EXCEPT !.op = "write"] = Start
  /\ SpiWait.op = "poll" /\ SpiWait.to = Ctl /\ SpiWait.bit = FALSE
  /\ Told1.op = "status" /\ Lawful(SpiWait)
<1>1. /\ Ask.op = "write" /\ Ask.to = Opcode /\ Ask.value = Serial("read_status", 0)
      /\ Start.op = "write" /\ Start.to = Ctl /\ Start.value = [cmd |-> "start", bytes |-> {}]
  BY Cycles DEF Ask, Start
<1>2. Ask.value.cmd = "read_status" /\ Start.value.cmd = "start" BY <1>1 DEF Serial
<1>3. Carried(Ask) /\ Carried(Start) BY <1>1, <1>2 DEF Carried, Order
<1>4. /\ Checking(Ask).op = "check" /\ [Checking(Ask) EXCEPT !.op = "write"] = Ask
      /\ Checking(Start).op = "check" /\ [Checking(Start) EXCEPT !.op = "write"] = Start
  BY CycleRead DEF Ask, Start
<1>5. /\ SpiWait.op = "poll" /\ SpiWait.to = Ctl /\ SpiWait.bit = FALSE
      /\ Told1.op = "status" /\ Lawful(SpiWait)
  BY DEF SpiWait, Told1, Lawful
<1> QED BY <1>1, <1>2, <1>3, <1>4, <1>5

LEMMA SpiReads ==
  /\ BusRead("SPI", Ctl) = IF spi.sending THEN {7} ELSE {}
  /\ BusRead("SPI", DataReg) = spi.data[1]
<1>1. Ctl \notin Cells /\ DataReg \notin Cells BY Total DEF Ctl, DataReg
<1>2. DataReg # Ctl BY DEF Ctl, DataReg
<1> PICK c, d : c = Ctl /\ d = DataReg OBVIOUS
<1>3. BusRead("SPI", c) = IF spi.sending THEN {7} ELSE {} BY <1>1, <1>2 DEF BusRead
<1>4. BusRead("SPI", d) = spi.data[1] BY <1>1, <1>2 DEF BusRead
<1> QED BY <1>3, <1>4

(* What may happen while cycles of a serial chip are to do. *)
LEMMA SerialCheckMoves ==
  ASSUME [Next]_vars, SerialCheck, job \in Jobs, NEW c, NEW t, NEW op,
         todo # <<>>, c = Head(todo), t = Tail(todo), op = c.op,
         op \in {"write", "check", "poll", "status"}
  PROVE  /\ Stays
         /\ \/ /\ op = "write" /\ SpiWrite(c.to, c.value) /\ mode' = mode /\ busy' = busy
               /\ todo' = <<Checking(c)>> \o t
            \/ /\ op = "check" /\ UNCHANGED chipVars
               /\ todo' = t \/ todo' = <<[c EXCEPT !.op = "write"]>> \o t
            \/ /\ op = "poll" /\ UNCHANGED chipVars
               /\ \/ todo' = t /\ (7 \in BusRead("SPI", c.to)) = c.bit
                  \/ todo' = todo
            \/ /\ op = "status" /\ UNCHANGED chipVars
               /\ \/ todo' = spiflash_sendcmd("read_status") \o todo
                  \/ todo' = t /\ 0 \notin spi.data[1]
            \/ Complete /\ todo' = todo
            \/ Transfer /\ todo' = todo
            \/ UNCHANGED <<chipVars, todo>>
<1>1. CASE UNCHANGED vars BY <1>1 DEF vars, hostVars, Stays
<1>2. CASE ChipStep \/ ControllerStep BY <1>2 DEF ChipStep, ControllerStep, hostVars, Stays
<1>3. CASE Finished BY <1>3 DEF Finished
<1>4. CASE HostStep
  <2>1. CASE \/ sflash_erase_area \/ EnterBypass \/ LoadWord \/ Reset \/ SaveWord \/ LoadMemory
    BY <2>1 DEF sflash_erase_area, EnterBypass, LoadWord, Reset, SaveWord, LoadMemory
  <2>2. CASE WriteCycle
    <3>1. /\ op = "write" /\ BusWrite("SPI", c.to, c.value) /\ Stays
          /\ todo' = <<[c EXCEPT !.op = "check"]>> \o t
      BY <2>2 DEF WriteCycle, Stays, SerialCheck
    <3> QED BY <3>1 DEF BusWrite, Checking
  <2>3. CASE StartCycle BY <2>3 DEF StartCycle
  <2>4. CASE CheckCycle
    <3>1. op = "check" /\ UNCHANGED chipVars /\ Stays BY <2>4 DEF CheckCycle, Stays
    <3>2. todo' = t \/ todo' = <<[c EXCEPT !.op = "write"]>> \o t BY <2>4 DEF CheckCycle
    <3> QED BY <3>1, <3>2
  <2>5. CASE PollCycle BY <2>5 DEF PollCycle, Stays, SerialCheck
  <2>6. CASE StatusCycle
    <3>1. job.proc = "" BY JobsAssumption DEF SerialCheck, Checked
    <3>2. ReadStatus = spiflash_sendcmd("read_status") BY <3>1 DEF ReadStatus
    <3>3. BusRead("SPI", DataReg) = spi.data[1] BY SpiReads
    <3> QED BY <2>6, <3>2, <3>3 DEF StatusCycle, Stays, SerialCheck
  <2> QED BY <1>4, <2>1, <2>2, <2>3, <2>4, <2>5, <2>6 DEF HostStep
<1> QED BY <1>1, <1>2, <1>3, <1>4 DEF Next

-----------------------------------------------------------------------------
(* The routines' cycles are lawful. *)
LEMMA LawfullyJoined ==
  ASSUME NEW p, NEW q, Lawfully(p), Lawfully(q)
  PROVE  Lawfully(p \o q)
<1>1. PICK A, B : p \in Seq(A) /\ q \in Seq(B) BY DEF Lawfully
<1> PICK s : s = p \o q OBVIOUS
<1>0. s = p \o q OBVIOUS
<1>2. /\ \E S : s \in Seq(S)
      /\ Len(p) \in Nat /\ Len(q) \in Nat /\ Len(s) = Len(p) + Len(q)
      /\ \A n \in 1..Len(s) : s[n] = IF n <= Len(p) THEN p[n] ELSE q[n - Len(p)]
  <2> PICK S : S = A \cup B OBVIOUS
  <2>1. p \in Seq(S) /\ q \in Seq(S) BY <1>1, Wider
  <2>2. /\ s \in Seq(S)
        /\ Len(p) \in Nat /\ Len(q) \in Nat /\ Len(s) = Len(p) + Len(q)
        /\ \A n \in 1..Len(s) : s[n] = IF n <= Len(p) THEN p[n] ELSE q[n - Len(p)]
    BY ONLY <1>0, <2>1
  <2> QED BY <2>2
<1>3. \A n \in 1..Len(s) : (n <= Len(p) /\ n \in 1..Len(p)) \/ (~(n <= Len(p)) /\ n - Len(p) \in 1..Len(q))
  BY <1>2
<1>4. \A n \in 1..Len(s) : Lawful(s[n]) BY <1>2, <1>3 DEF Lawfully
<1> QED BY <1>2, <1>4 DEF Lawfully

LEMMA LawfulWrite == ASSUME NEW c, NEW a, NEW v, c = W(a, v), Carried(c) PROVE Lawful(c)
<1>1. c.op = "write" /\ c.to = a /\ c.value = v BY Cycles
<1> QED BY <1>1 DEF Lawful

LEMMA CommandLawful ==
  ASSUME NEW d, d.op = "write", d = W(Opcode, d.value), Order(d.value), d.to = Opcode
  PROVE  Lawfully(<<SpiWait, d, Start, SpiWait>>)
<1>1. Carried(d) BY DEF Carried
<1>2. Lawful(d) BY <1>1, LawfulWrite
<1>3. Lawful(Start) BY Closers, LawfulWrite DEF Start
<1>4. Lawful(SpiWait) BY Closers
<1> PICK a, b : a = SpiWait /\ b = Start OBVIOUS
<1> PICK s : s = <<a, d, b, a>> OBVIOUS
<1>5. s \in Seq({a, b, d}) /\ Len(s) = 4 /\ s[1] = a /\ s[2] = d /\ s[3] = b /\ s[4] = a OBVIOUS
<1>6. \A n \in 1..4 : n \in {1, 2, 3, 4} OBVIOUS
<1>7. \A n \in 1..4 : Lawful(s[n]) BY <1>2, <1>3, <1>4, <1>5, <1>6
<1>8. Lawfully(s) BY <1>5, <1>7 DEF Lawfully
<1> QED BY <1>8

LEMMA Enabling == Lawfully(spiflash_sendcmd("write_enable"))
<1> PICK d : d = W(Opcode, Serial("write_enable", 0)) OBVIOUS
<1>1. d.op = "write" /\ d.to = Opcode /\ d.value = Serial("write_enable", 0) BY Cycles
<1>2. d.value.cmd = "write_enable" BY <1>1 DEF Serial
<1>3. Order(d.value) BY <1>2 DEF Order
<1>4. d = W(Opcode, d.value) BY <1>1
<1> QED BY <1>1, <1>3, <1>4, CommandLawful DEF spiflash_sendcmd

LEMMA Told1Ends == Finish = Q1 BY DEF Finish, Q1, Told1

(* A routine of two lawful parts and the question for the status.             *)
LEMMA AskedLast ==
  ASSUME NEW p, NEW q, Lawfully(p), Lawfully(q)
  PROVE  /\ Lawfully(p \o q)
         /\ ((p \o q) \o spiflash_sendcmd("read_status")) \o Finish = (p \o q) \o Q5
<1> PICK r, u, v : r = p \o q /\ u = spiflash_sendcmd("read_status") /\ v = Q1 OBVIOUS
<1>1. Lawfully(r) BY LawfullyJoined
<1>2. PICK A : r \in Seq(A) BY <1>1 DEF Lawfully
<1>3. (\E B : u \in Seq(B)) /\ \E C : v \in Seq(C)
  <2>1. u \in Seq({SpiWait, Ask, Start}) BY DEF spiflash_sendcmd, Ask
  <2>2. v \in Seq({Told1}) BY DEF Q1
  <2> QED BY <2>1, <2>2
<1>4. PICK B, C : u \in Seq(B) /\ v \in Seq(C) BY <1>3
<1> PICK S : S = A \cup B \cup C OBVIOUS
<1>5. r \in Seq(S) /\ u \in Seq(S) /\ v \in Seq(S) BY <1>2, <1>4, Wider
<1>6. (r \o u) \o v = r \o (u \o v) BY ONLY <1>5, Associative
<1>7. u \o v = Q5 BY Closings
<1> QED BY <1>1, <1>6, <1>7, Told1Ends

LEMMA ErasingLawful ==
  ASSUME NEW b \in Blocks, ToErase(b), job.op \in {"flash", "erase"}
  PROVE  \E p : Lawfully(p) /\ spiflash_erase_block(b) = p \o Q5
<1> PICK v : v = Serial("erase", 2 * Base[b]) OBVIOUS
<1> PICK d : d = W(Opcode, v) OBVIOUS
<1>1. d.op = "write" /\ d.to = Opcode /\ d.value = v BY Cycles
<1>2. v.cmd = "erase" /\ v.at = 2 * Base[b] BY DEF Serial
<1>3. Order(d.value) BY <1>1, <1>2 DEF Order
<1>4. Lawfully(<<SpiWait, d, Start, SpiWait>>) BY <1>1, <1>3, CommandLawful
<1> PICK p, q : p = spiflash_sendcmd("write_enable") /\ q = <<SpiWait, d, Start, SpiWait>> OBVIOUS
<1>5. Lawfully(p) /\ Lawfully(q) BY <1>4, Enabling
<1>6. Lawfully(p \o q) /\ ((p \o q) \o spiflash_sendcmd("read_status")) \o Finish = (p \o q) \o Q5
  BY <1>5, AskedLast
<1>7. spiflash_erase_block(b) = (p \o q) \o Q5 BY <1>6 DEF spiflash_erase_block
<1> QED BY <1>6, <1>7

LEMMA WritingLawful ==
  ASSUME NEW w \in Words, InArea(w), job.op = "flash", NEW word \in Half \X Half
  PROVE  \E p : Lawfully(p) /\ spiflash_write_word(w, word) = p \o Q5
<1> PICK v : v = Serial("program", 2 * w) OBVIOUS
<1> PICK d, e : d = W(Opcode, v) /\ e = W(DataReg, word) OBVIOUS
<1>1. /\ d.op = "write" /\ d.to = Opcode /\ d.value = v
      /\ e.op = "write" /\ e.to = DataReg /\ e.value = word
  BY Cycles
<1>2. v.cmd = "program" /\ v.at = 2 * w BY DEF Serial
<1>3. Order(d.value) BY <1>1, <1>2 DEF Order
<1>4. Carried(d) /\ Carried(e) BY <1>1, <1>3 DEF Carried
<1>5. Lawful(d) /\ Lawful(e) BY <1>4, LawfulWrite
<1>6. Lawful(Start) /\ Lawful(SpiWait) BY Closers, LawfulWrite DEF Start
<1> PICK a, b : a = SpiWait /\ b = Start OBVIOUS
<1> PICK p, q : p = spiflash_sendcmd("write_enable") /\ q = <<a, e, d, b, a>> OBVIOUS
<1>7. /\ q \in Seq({a, b, d, e}) /\ Len(q) = 5
      /\ q[1] = a /\ q[2] = e /\ q[3] = d /\ q[4] = b /\ q[5] = a
  OBVIOUS
<1>8. \A n \in 1..5 : n \in {1, 2, 3, 4, 5} OBVIOUS
<1>9. \A n \in 1..5 : Lawful(q[n]) BY <1>5, <1>6, <1>7, <1>8
<1>10. Lawfully(p) /\ Lawfully(q) BY <1>7, <1>9, Enabling DEF Lawfully
<1>11. Lawfully(p \o q) /\ ((p \o q) \o spiflash_sendcmd("read_status")) \o Finish = (p \o q) \o Q5
  BY <1>10, AskedLast
<1>12. spiflash_write_word(w, word) = (p \o q) \o Q5 BY <1>11 DEF spiflash_write_word
<1> QED BY <1>11, <1>12

(* Cycles that only reach the places of the unlock cycles, which mean nothing *)
(* to a serial chip's controller.                                             *)
LEMMA BypassHarmless == Harmless(unlock_bypass) /\ Harmless(<<>>)
<1> PICK s : s = unlock_bypass OBVIOUS
<1>1. /\ \E S : s \in Seq(S)
      /\ Len(s) = 4 /\ s[1] = W(Unlock1, Cmd("90")) /\ s[2] = W(Unlock1, Cmd("AA"))
      /\ s[3] = W(Unlock2, Cmd("55")) /\ s[4] = W(Unlock1, Cmd("20"))
  BY BypassScript
<1>2. ASSUME NEW c, NEW a \in {Unlock1, Unlock2}, NEW v, c = W(a, v)
      PROVE  Lawful(c) /\ c.to \in {Unlock1, Unlock2}
  <2>1. c.to = a BY <1>2, Cycles
  <2>2. Carried(c) BY <2>1 DEF Carried
  <2> QED BY <1>2, <2>1, <2>2, LawfulWrite
<1>3. \A n \in 1..4 : n \in {1, 2, 3, 4} OBVIOUS
<1>4. \A n \in 1..4 : Lawful(s[n]) /\ s[n].to \in {Unlock1, Unlock2} BY <1>1, <1>2, <1>3
<1>5. Harmless(s) BY <1>1, <1>4 DEF Harmless, Lawfully
<1>6. <<>> \in Seq({}) /\ Len(<<>>) = 0 /\ 1..0 = {} OBVIOUS
<1>7. Harmless(<<>>) BY <1>6 DEF Harmless, Lawfully
<1> QED BY <1>5, <1>7

LEMMA HarmlessRest ==
  ASSUME NEW p, Harmless(p), p # <<>>
  PROVE  /\ Lawful(Head(p)) /\ Head(p).to \in {Unlock1, Unlock2}
         /\ Harmless(Tail(p))
         /\ \A c : Lawful(c) /\ c.to \in {Unlock1, Unlock2} => Harmless(<<c>> \o Tail(p))
<1>1. PICK S : p \in Seq(S) BY DEF Harmless, Lawfully
<1>2. Lawfully(p) BY DEF Harmless
<1>3. /\ Len(p) \in Nat /\ 1 \in 1..Len(p) /\ Head(p) = p[1]
      /\ Tail(p) \in Seq(S) /\ Len(Tail(p)) = Len(p) - 1
      /\ \A n \in 1..Len(p) - 1 : Tail(p)[n] = p[n + 1]
  BY <1>1
<1>4. Lawful(Head(p)) /\ Head(p).to \in {Unlock1, Unlock2} BY <1>2, <1>3 DEF Harmless, Lawfully
<1>5. \A n \in 1..Len(p) - 1 : n + 1 \in 1..Len(p) BY <1>3
<1>6. \A n \in 1..Len(p) - 1 : Lawful(Tail(p)[n]) /\ Tail(p)[n].to \in {Unlock1, Unlock2}
  BY <1>2, <1>3, <1>5 DEF Harmless, Lawfully
<1>7. Harmless(Tail(p)) BY <1>3, <1>6 DEF Harmless, Lawfully
<1>8. ASSUME NEW c, Lawful(c), c.to \in {Unlock1, Unlock2} PROVE Harmless(<<c>> \o Tail(p))
  <2> PICK t, T : t = Tail(p) /\ T = S \cup {c} OBVIOUS
  <2>1. t \in Seq(S) BY <1>3
  <2>2. t \in Seq(T) /\ c \in T BY <2>1, Wider
  <2> PICK s : s = <<c>> \o t OBVIOUS
  <2>3. /\ s \in Seq(T) /\ Len(t) \in Nat /\ Len(s) = 1 + Len(t)
        /\ \A n \in 1..Len(s) : s[n] = IF n = 1 THEN c ELSE t[n - 1]
    BY <2>2
  <2>4. \A n \in 1..Len(s) : n = 1 \/ n - 1 \in 1..Len(t) BY <2>3
  <2>5. \A n \in 1..Len(t) : Lawful(t[n]) /\ t[n].to \in {Unlock1, Unlock2}
    BY <1>7 DEF Harmless, Lawfully
  <2>6. \A n \in 1..Len(s) : Lawful(s[n]) /\ s[n].to \in {Unlock1, Unlock2}
    BY <1>8, <2>3, <2>4, <2>5
  <2> QED BY <2>3, <2>6 DEF Harmless, Lawfully
<1> QED BY <1>4, <1>7, <1>8

-----------------------------------------------------------------------------
(* The steps of a serial chip's routine. *)
LEMMA LastNotEmpty ==
  ASSUME NEW p, Lawfully(p) PROVE p \o Q5 # <<>>
<1>1. \E S : Q5 \in Seq(S) BY Closings
<1>2. p = <<>> => p \o Q5 = Q5 BY <1>1, Fronts
<1>3. p # <<>> => p \o Q5 # <<>> BY <1>1, Fronts
<1> QED BY <1>2, <1>3, Closings

LEMMA SerialStep ==
  ASSUME [Next]_vars, SerialCheck, job \in Jobs, job' = job, SerialInv, todo # <<>>
  PROVE  SerialInv'
<1>1. Registers /\ Awaiting BY DEF SerialInv
<1>2. /\ \A v : Order(v)' = Order(v)
      /\ \A x : Ours(x)' = Ours(x)
      /\ \A p : Lawfully(p)' = Lawfully(p)
  BY OrderKept
<1>3. \A p : Harmless(p)' = Harmless(p) BY <1>2 DEF Harmless
<1>4. UNCHANGED chipVars => Registers' /\ spi' = spi /\ busy' = busy
  BY <1>1, <1>2 DEF Registers, chipVars
<1> PICK c, t : c = Head(todo) /\ t = Tail(todo) OBVIOUS
<1> PICK op : op = c.op OBVIOUS
<1> DEFINE Moves1 ==
      \/ /\ op = "write" /\ SpiWrite(c.to, c.value) /\ mode' = mode /\ busy' = busy
         /\ todo' = <<Checking(c)>> \o t
      \/ /\ op = "check" /\ UNCHANGED chipVars
         /\ todo' = t \/ todo' = <<[c EXCEPT !.op = "write"]>> \o t
      \/ /\ op = "poll" /\ UNCHANGED chipVars
         /\ \/ todo' = t /\ (7 \in BusRead("SPI", c.to)) = c.bit
            \/ todo' = todo
      \/ /\ op = "status" /\ UNCHANGED chipVars
         /\ \/ todo' = spiflash_sendcmd("read_status") \o todo
            \/ todo' = t /\ 0 \notin spi.data[1]
      \/ Complete /\ todo' = todo
      \/ Transfer /\ todo' = todo
      \/ UNCHANGED <<chipVars, todo>>
<1>5. op \in {"write", "check", "poll", "status"} => Moves1 BY SerialCheckMoves
<1> HIDE DEF Moves1
<1>6. ASSUME Transfer
      PROVE  /\ Registers' /\ spi.sending /\ ~spi'.sending /\ spi'.opcode = spi.opcode
             /\ spi'.ctl = spi.ctl /\ (spi.opcode.cmd = "read_status" => Told')
  BY <1>1, <1>6, RegistersTransfer
<1>7. ASSUME Complete
      PROVE  /\ Registers' /\ spi'.sending = spi.sending /\ spi'.opcode = spi.opcode
             /\ spi'.ctl = spi.ctl /\ busy # Ready /\ Told'
  BY <1>1, <1>7, RegistersComplete
<1>8. c = SpiWait => ((7 \in BusRead("SPI", c.to)) = c.bit <=> ~spi.sending)
  <2> SUFFICES ASSUME c = SpiWait PROVE (7 \in BusRead("SPI", c.to)) = c.bit <=> ~spi.sending
    OBVIOUS
  <2>1. c.to = Ctl /\ c.bit = FALSE BY Closers
  <2>2. BusRead("SPI", c.to) = IF spi.sending THEN {7} ELSE {} BY <2>1, SpiReads
  <2>3. CASE spi.sending
    <3>1. (7 \in BusRead("SPI", c.to)) = TRUE BY <2>2, <2>3
    <3> QED BY <2>1, <2>3, <3>1
  <2>4. CASE ~spi.sending
    <3>1. (7 \in BusRead("SPI", c.to)) = FALSE BY <2>2, <2>4
    <3> QED BY <2>1, <2>4, <3>1
  <2> QED BY <2>3, <2>4
<1>9. \E S : Q5 \in Seq(S) BY Closings
<1>10. ASSUME NEW p, Lawfully(p), todo = p \o Q5, p # <<>> PROVE SerialInv'
  <2>1. /\ c = Head(p) /\ t = Tail(p) \o Q5 /\ Lawful(c) /\ Lawfully(Tail(p))
    BY <1>9, <1>10, Fronts
  <2>2. ASSUME NEW d, Lawful(d)
        PROVE  Lawfully(<<d>> \o Tail(p)) /\ <<d>> \o t = (<<d>> \o Tail(p)) \o Q5
    BY <1>9, <1>10, <2>1, <2>2, Fronts
  <2>3. /\ op \in {"write", "check", "poll"}
        /\ op = "write" => Lawful(Checking(c)) /\ Carried(c)
        /\ op = "check" => Lawful([c EXCEPT !.op = "write"])
    BY <2>1, LawfulCycles
  <2>4. Moves1 BY <1>5, <2>3
  <2>5. ASSUME NEW q, Lawfully(q), todo' = q \o Q5 PROVE Awaiting'
    BY <1>2, <2>5 DEF Awaiting
  <2>6. CASE op = "write" /\ SpiWrite(c.to, c.value) /\ mode' = mode /\ busy' = busy
             /\ todo' = <<Checking(c)>> \o t
    <3>1. Registers' BY <1>1, <2>3, <2>6, RegistersWritten
    <3> PICK d : d = Checking(c) OBVIOUS
    <3>2. Lawful(d) /\ todo' = <<d>> \o t BY <2>3, <2>6
    <3>3. Awaiting' BY <2>2, <2>5, <3>2
    <3> QED BY <3>1, <3>3 DEF SerialInv
  <2>7. CASE UNCHANGED chipVars /\ todo' = t
    <3>1. Awaiting' BY <2>1, <2>5, <2>7
    <3> QED BY <1>4, <2>7, <3>1 DEF SerialInv
  <2>8. CASE op = "check" /\ UNCHANGED chipVars /\ todo' = <<[c EXCEPT !.op = "write"]>> \o t
    <3> PICK d : d = [c EXCEPT !.op = "write"] OBVIOUS
    <3>1. Lawful(d) /\ todo' = <<d>> \o t BY <2>3, <2>8
    <3>2. Awaiting' BY <2>2, <2>5, <3>1
    <3> QED BY <1>4, <2>8, <3>2 DEF SerialInv
  <2>9. CASE (UNCHANGED chipVars \/ Complete \/ Transfer) /\ todo' = todo
    <3>1. Awaiting' BY <1>10, <2>5, <2>9
    <3> QED BY <1>4, <1>6, <1>7, <2>9, <3>1 DEF SerialInv
  <2> QED BY <2>3, <2>4, <2>6, <2>7, <2>8, <2>9 DEF Moves1
<1>11. ASSUME todo = Q5 PROVE SerialInv'
  <2>1. c = SpiWait /\ t = Q4 /\ op = "poll" BY <1>11, Closings, Closers
  <2>2. Moves1 BY <1>5, <2>1
  <2>3. CASE UNCHANGED chipVars /\ todo' = t /\ (7 \in BusRead("SPI", c.to)) = c.bit
    <3>1. ~spi.sending BY <1>8, <2>1, <2>3
    <3>2. Awaiting' BY <1>4, <2>1, <2>3, <3>1 DEF Awaiting
    <3> QED BY <1>4, <2>3, <3>2 DEF SerialInv
  <2>4. CASE (UNCHANGED chipVars \/ Complete \/ Transfer) /\ todo' = todo
    <3>1. Lawfully(<<>>) BY BypassHarmless DEF Harmless
    <3>2. todo' = <<>> \o Q5 BY <1>9, <1>11, <2>4, <3>1, Fronts
    <3>3. Awaiting' BY <1>2, <3>1, <3>2 DEF Awaiting
    <3> QED BY <1>4, <1>6, <1>7, <2>4, <3>3 DEF SerialInv
  <2> QED BY <2>1, <2>2, <2>3, <2>4 DEF Moves1
<1>12. ASSUME todo = Q4, ~spi.sending PROVE SerialInv'
  <2>1. /\ c = Ask /\ t = Q3 /\ op = "write" /\ <<Checking(Ask)>> \o Q3 = K4
        /\ Carried(c) /\ c.to = Opcode /\ c.value.cmd = "read_status"
    BY <1>12, Closings, Closers
  <2>2. Moves1 BY <1>5, <2>1
  <2>3. CASE SpiWrite(c.to, c.value) /\ mode' = mode /\ busy' = busy /\ todo' = <<Checking(c)>> \o t
    <3>1. Registers' /\ ~spi'.sending /\ spi'.opcode = c.value
      BY <1>1, <1>12, <2>1, <2>3, RegistersWritten
    <3>2. Aimed' /\ todo' = K4 BY <2>1, <2>3, <3>1 DEF Aimed
    <3> QED BY <3>1, <3>2 DEF SerialInv, Awaiting
  <2>4. CASE Complete /\ todo' = todo BY <1>7, <1>12, <2>4 DEF SerialInv, Awaiting
  <2>5. CASE UNCHANGED <<chipVars, todo>> BY <1>4, <1>12, <2>5 DEF SerialInv, Awaiting
  <2> QED BY <1>6, <1>12, <2>1, <2>2, <2>3, <2>4, <2>5 DEF Moves1
<1>13. ASSUME todo = K4, Aimed PROVE SerialInv'
  <2>1. /\ c = Checking(Ask) /\ t = Q3 /\ op = "check"
        /\ <<[c EXCEPT !.op = "write"]>> \o t = Q4
    <3>1. c = Checking(Ask) /\ t = Q3 BY <1>13, Closings
    <3>2. op = "check" /\ [c EXCEPT !.op = "write"] = Ask BY <3>1, Closers
    <3>3. <<Ask>> \o Q3 = Q4 BY Closings
    <3> QED BY ONLY <3>1, <3>2, <3>3
  <2>2. Moves1 BY <1>5, <2>1
  <2>3. CASE UNCHANGED chipVars /\ (todo' = t \/ todo' = <<[c EXCEPT !.op = "write"]>> \o t)
    BY <1>4, <1>13, <2>1, <2>3 DEF SerialInv, Awaiting, Aimed
  <2>4. CASE Complete /\ todo' = todo BY <1>7, <1>13, <2>4 DEF SerialInv, Awaiting, Aimed
  <2>5. CASE UNCHANGED <<chipVars, todo>> BY <1>4, <1>13, <2>5 DEF SerialInv, Awaiting, Aimed
  <2> QED BY <1>6, <1>13, <2>1, <2>2, <2>3, <2>4, <2>5 DEF Moves1, Aimed
(* What the question's answer is made of, kept by everything but a write. *)
<1>14. ASSUME UNCHANGED chipVars PROVE (Asked => Asked') /\ (Answered => Answered')
  BY <1>14 DEF chipVars, Asked, Answered, Told
<1>15. ASSUME Complete \/ Transfer
       PROVE  /\ Asked => Asked'
              /\ Answered => Answered'
              /\ Aimed => Aimed'
  BY <1>6, <1>7, <1>15 DEF Asked, Answered, Aimed
<1>16. ASSUME todo = Q3, Aimed \/ Asked PROVE SerialInv'
  <2>1. /\ c = Start /\ t = Q2 /\ op = "write" /\ <<Checking(Start)>> \o Q2 = K3
        /\ Carried(c) /\ c.to = Ctl
    BY <1>16, Closings, Closers
  <2>2. Moves1 BY <1>5, <2>1
  <2>3. CASE SpiWrite(c.to, c.value) /\ mode' = mode /\ busy' = busy /\ todo' = <<Checking(c)>> \o t
    <3>1. /\ Registers' /\ (spi.sending => spi' = spi)
          /\ ~spi.sending => spi'.sending /\ spi'.ctl.cmd = "start" /\ spi'.opcode = spi.opcode
      BY <1>1, <2>1, <2>3, RegistersWritten
    <3>2. Asked' BY <1>16, <3>1 DEF Asked, Aimed
    <3> QED BY <2>1, <2>3, <3>1, <3>2 DEF SerialInv, Awaiting
  <2>4. CASE (Complete \/ Transfer) /\ todo' = todo
    <3>1. Registers' BY <1>6, <1>7, <2>4
    <3>2. Aimed' \/ Asked' BY <1>15, <1>16, <2>4
    <3> QED BY <1>16, <2>4, <3>1, <3>2 DEF SerialInv, Awaiting
  <2>5. CASE UNCHANGED <<chipVars, todo>>
    BY <1>4, <1>14, <1>16, <2>5 DEF SerialInv, Awaiting, Aimed
  <2> QED BY <2>1, <2>2, <2>3, <2>4, <2>5 DEF Moves1
<1>17. ASSUME todo = K3, Asked PROVE SerialInv'
  <2>1. /\ c = Checking(Start) /\ t = Q2 /\ op = "check"
        /\ <<[c EXCEPT !.op = "write"]>> \o t = Q3
    <3>1. c = Checking(Start) /\ t = Q2 BY <1>17, Closings
    <3>2. op = "check" /\ [c EXCEPT !.op = "write"] = Start BY <3>1, Closers
    <3>3. <<Start>> \o Q2 = Q3 BY Closings
    <3> QED BY ONLY <3>1, <3>2, <3>3
  <2>2. Moves1 BY <1>5, <2>1
  <2>3. CASE UNCHANGED chipVars /\ (todo' = t \/ todo' = <<[c EXCEPT !.op = "write"]>> \o t)
    BY <1>4, <1>14, <1>17, <2>1, <2>3 DEF SerialInv, Awaiting
  <2>4. CASE (Complete \/ Transfer) /\ todo' = todo
    BY <1>6, <1>7, <1>15, <1>17, <2>4 DEF SerialInv, Awaiting
  <2>5. CASE UNCHANGED <<chipVars, todo>> BY <1>4, <1>14, <1>17, <2>5 DEF SerialInv, Awaiting
  <2> QED BY <2>1, <2>2, <2>3, <2>4, <2>5 DEF Moves1
<1>18. ASSUME todo = Q2, Asked PROVE SerialInv'
  <2>1. c = SpiWait /\ t = Q1 /\ op = "poll" BY <1>18, Closings, Closers
  <2>2. Moves1 BY <1>5, <2>1
  <2>3. CASE UNCHANGED chipVars /\ todo' = t /\ (7 \in BusRead("SPI", c.to)) = c.bit
    <3>1. ~spi.sending BY <1>8, <2>1, <2>3
    <3>2. Answered BY <1>18, <3>1 DEF Asked, Answered
    <3> QED BY <1>4, <1>14, <2>1, <2>3, <3>2 DEF SerialInv, Awaiting
  <2>4. CASE (Complete \/ Transfer) /\ todo' = todo
    BY <1>6, <1>7, <1>15, <1>18, <2>4 DEF SerialInv, Awaiting
  <2>5. CASE UNCHANGED chipVars /\ todo' = todo BY <1>4, <1>14, <1>18, <2>5 DEF SerialInv, Awaiting
  <2> QED BY <2>1, <2>2, <2>3, <2>4, <2>5 DEF Moves1
<1>19. ASSUME todo = Q1, Answered PROVE SerialInv'
  <2>1. c = Told1 /\ t = <<>> /\ op = "status" /\ spiflash_sendcmd("read_status") \o todo = Q5
    BY <1>19, Closings, Closers
  <2>2. Moves1 BY <1>5, <2>1
  <2>3. CASE UNCHANGED chipVars /\ todo' = spiflash_sendcmd("read_status") \o todo
    <3>1. Lawfully(<<>>) BY BypassHarmless DEF Harmless
    <3>2. todo' = <<>> \o Q5 BY <1>9, <2>1, <2>3, <3>1, Fronts
    <3>3. Awaiting' BY <1>2, <3>1, <3>2 DEF Awaiting
    <3> QED BY <1>4, <2>3, <3>3 DEF SerialInv
  <2>4. CASE UNCHANGED chipVars /\ todo' = t /\ 0 \notin spi.data[1]
    <3>1. AtPeace BY <1>19, <2>4 DEF Answered, Told, AtPeace
    <3>2. Harmless(<<>>)' BY <1>3, BypassHarmless
    <3>3. Awaiting' BY <1>4, <2>1, <2>4, <3>1, <3>2 DEF Awaiting, AtPeace
    <3> QED BY <1>4, <2>4, <3>3 DEF SerialInv
  <2>5. CASE Complete /\ todo' = todo
    BY <1>7, <1>15, <1>19, <2>5 DEF SerialInv, Awaiting
  <2>6. CASE UNCHANGED <<chipVars, todo>> BY <1>4, <1>14, <1>19, <2>6 DEF SerialInv, Awaiting
  <2> QED BY <1>6, <1>19, <2>1, <2>2, <2>3, <2>4, <2>5, <2>6 DEF Moves1, Answered
<1>20. ASSUME Harmless(todo), AtPeace PROVE SerialInv'
  <2>1. /\ Lawful(c) /\ c.to \in {Unlock1, Unlock2} /\ Harmless(t)
        /\ \A d : Lawful(d) /\ d.to \in {Unlock1, Unlock2} => Harmless(<<d>> \o t)
    BY <1>20, HarmlessRest
  <2>2. /\ op \in {"write", "check", "poll"}
        /\ op = "poll" => c = SpiWait
        /\ op = "write" => Lawful(Checking(c)) /\ Checking(c).to = c.to /\ Carried(c)
        /\ op = "check" => Lawful([c EXCEPT !.op = "write"]) /\ [c EXCEPT !.op = "write"].to = c.to
    BY <2>1, LawfulCycles
  <2>3. Moves1 BY <1>5, <2>2
  <2>4. op # "poll"
    <3>1. Ctl \notin {Unlock1, Unlock2} BY DEF Ctl, Unlock1, Unlock2
    <3> QED BY <2>1, <2>2, <3>1, Closers
  <2>5. CASE op = "write" /\ SpiWrite(c.to, c.value) /\ mode' = mode /\ busy' = busy
             /\ todo' = <<Checking(c)>> \o t
    <3>1. Registers' /\ spi' = spi BY <1>1, <2>1, <2>2, <2>5, RegistersWritten
    <3> PICK d : d = Checking(c) OBVIOUS
    <3>2. Harmless(<<d>> \o t) BY <2>1, <2>2, <2>5
    <3>3. Harmless(todo') BY <2>5, <3>2
    <3>4. Harmless(todo)' BY <1>3, <3>3
    <3>5. AtPeace' BY <1>20, <2>5, <3>1 DEF AtPeace
    <3> QED BY <3>1, <3>4, <3>5 DEF SerialInv, Awaiting
  <2>6. CASE op = "check" /\ UNCHANGED chipVars
             /\ (todo' = t \/ todo' = <<[c EXCEPT !.op = "write"]>> \o t)
    <3> PICK d : d = [c EXCEPT !.op = "write"] OBVIOUS
    <3>1. Harmless(<<d>> \o t) BY <2>1, <2>2, <2>6
    <3>2. Harmless(todo') BY <2>1, <2>6, <3>1
    <3>3. Harmless(todo)' BY <1>3, <3>2
    <3>4. AtPeace' BY <1>4, <1>20, <2>6 DEF AtPeace
    <3> QED BY <1>4, <2>6, <3>3, <3>4 DEF SerialInv, Awaiting
  <2>7. CASE UNCHANGED <<chipVars, todo>>
    <3>1. Harmless(todo)' BY <1>3, <1>20, <2>7
    <3>2. AtPeace' BY <1>4, <1>20, <2>7 DEF AtPeace
    <3> QED BY <1>4, <2>7, <3>1, <3>2 DEF SerialInv, Awaiting
  <2> QED BY <1>6, <1>7, <1>20, <2>2, <2>3, <2>4, <2>5, <2>6, <2>7 DEF Moves1, AtPeace
<1>21. ASSUME NEW p, Lawfully(p), todo = p \o Q5 PROVE SerialInv'
  <2>1. p = <<>> => p \o Q5 = Q5 BY <1>9, <1>21, Fronts
  <2> QED BY <1>10, <1>11, <1>21, <2>1
<1> QED BY <1>1, <1>12, <1>13, <1>16, <1>17, <1>18, <1>19, <1>20, <1>21 DEF Awaiting

(* Between the routines nothing runs. *)
LEMMA SerialAtPeace ==
  ASSUME SerialInv, todo = <<>> PROVE AtPeace /\ mode = "read"
<1>1. Registers /\ Awaiting BY DEF SerialInv
<1>2. \A p : Lawfully(p) => todo # p \o Q5 BY LastNotEmpty
<1>3. todo \notin {Q1, Q2, Q3, Q4, K3, K4} BY Closings
<1> QED BY <1>1, <1>2, <1>3 DEF Awaiting, Registers

LEMMA SerialTurn ==
  ASSUME [Next]_vars, SerialCheck, job \in Jobs, job' = job, PlaceInv, SerialInv, todo = <<>>
  PROVE  SerialInv'
<1>1. Registers /\ AtPeace BY SerialAtPeace DEF SerialInv
<1>2. /\ \A v : Order(v)' = Order(v)
      /\ \A x : Ours(x)' = Ours(x)
      /\ \A p : Lawfully(p)' = Lawfully(p)
  BY OrderKept
<1>3. \A p : Harmless(p)' = Harmless(p) BY <1>2 DEF Harmless
<1>4. ASSUME UNCHANGED chipVars PROVE Registers' /\ AtPeace'
  BY <1>1, <1>2, <1>4 DEF Registers, chipVars, AtPeace
<1>5. ASSUME UNCHANGED chipVars, NEW p, Lawfully(p), todo' = p \o Q5 PROVE SerialInv'
  BY <1>2, <1>4, <1>5 DEF SerialInv, Awaiting
<1>6. ASSUME UNCHANGED chipVars, Harmless(todo') PROVE SerialInv'
  <2>1. Harmless(todo)' BY <1>3, <1>6
  <2> QED BY <1>4, <1>6, <2>1 DEF SerialInv, Awaiting
<1>7. ASSUME UNCHANGED chipVars, todo' = <<>> PROVE SerialInv'
  BY <1>6, <1>7, BypassHarmless
<1>8. job.family = "SPI" /\ job.proc # "bcm" BY JobsAssumption DEF SerialCheck, Checked
<1>9. CASE sflash_erase_area
  <2>1. /\ pc = "erase" /\ UNCHANGED chipVars
        /\ \/ todo' = <<>>
           \/ at \in Blocks /\ ToErase(at) /\ todo' = sflash_erase_block(at)
    BY <1>9 DEF sflash_erase_area
  <2>2. ASSUME at \in Blocks, ToErase(at), todo' = sflash_erase_block(at) PROVE SerialInv'
    <3> PICK b \in Blocks : b = at BY <2>2
    <3>1. job.op \in {"flash", "erase"} BY <2>1 DEF PlaceInv
    <3>2. todo' = spiflash_erase_block(b) BY <1>8, <2>2 DEF sflash_erase_block
    <3>3. PICK p : Lawfully(p) /\ spiflash_erase_block(b) = p \o Q5
      BY <2>2, <3>1, ErasingLawful
    <3> QED BY <1>5, <2>1, <3>2, <3>3
  <2> QED BY <1>7, <2>1, <2>2
<1>10. CASE EnterBypass
  <2>1. UNCHANGED chipVars /\ (todo' = unlock_bypass \/ todo' = <<>>) BY <1>10 DEF EnterBypass
  <2>2. Harmless(todo') BY <2>1, BypassHarmless
  <2> QED BY <1>6, <2>1, <2>2
<1>11. CASE LoadWord
  <2>1. /\ pc = "load" /\ UNCHANGED chipVars
        /\ \/ todo' = <<>>
           \/ /\ InArea(at)
              /\ \E word \in AreaWord(at) : todo' = sflash_write_word(at, word)
    BY <1>11 DEF LoadWord
  <2>2. ASSUME InArea(at), NEW word \in AreaWord(at), todo' = sflash_write_word(at, word)
        PROVE  SerialInv'
    <3> PICK w : w = at OBVIOUS
    <3>1. w \in Nat /\ job.op = "flash" BY <2>1 DEF PlaceInv
    <3>2. w \in Words
      <4> DEFINE f == job.start
                 l == job.length
      <4>1. f <= w /\ w < f + l BY <2>2 DEF InArea
      <4>2. f \in Nat /\ l \in Nat BY JobFacts
      <4> HIDE DEF f, l
      <4>3. w \in f..f + l BY <3>1, <4>1, <4>2
      <4> QED BY <2>2, <4>3, AreaPlace DEF f, l
    <3>3. word \in Half \X Half BY <2>2, <3>2, WordsTyped
    <3>4. todo' = spiflash_write_word(w, word) BY <1>8, <2>2 DEF sflash_write_word
    <3>5. PICK p : Lawfully(p) /\ spiflash_write_word(w, word) = p \o Q5
      BY <2>2, <3>1, <3>2, <3>3, WritingLawful
    <3> QED BY <1>5, <2>1, <3>4, <3>5
  <2> QED BY <1>7, <2>1, <2>2
<1>12. CASE Reset
  <2>1. UNCHANGED chipVars /\ todo' = <<>> BY <1>8, <1>12 DEF Reset, sflash_reset
  <2> QED BY <1>7, <2>1
<1>13. CASE SaveWord \/ LoadMemory BY <1>7, <1>13 DEF SaveWord, LoadMemory
<1>14. ASSUME WriteCycle \/ StartCycle \/ CheckCycle \/ PollCycle \/ StatusCycle PROVE FALSE
  BY <1>14 DEF WriteCycle, StartCycle, CheckCycle, PollCycle, StatusCycle
<1>15. ASSUME ChipStep \/ ControllerStep PROVE FALSE
  BY <1>1, <1>15 DEF ChipStep, ControllerStep, Complete, Transfer, AtPeace
<1>16. CASE Finished \/ UNCHANGED vars
  BY <1>7, <1>16 DEF Finished, vars, hostVars
<1> QED
  BY <1>9, <1>10, <1>11, <1>12, <1>13, <1>14, <1>15, <1>16 DEF Next, HostStep

LEMMA SerialInit == Init /\ SerialCheck => SerialInv
<1> SUFFICES ASSUME Init, SerialCheck PROVE SerialInv OBVIOUS
<1>1. mode = "read" /\ busy = Ready /\ spi = SpiIdle /\ todo = <<>> BY DEF Init
<1>2. SpiShape(spi) BY <1>1 DEF SpiIdle, SpiShape
<1>3. ~spi.sending /\ spi.opcode.cmd = "none" /\ spi.ctl.cmd = "none" BY <1>1 DEF SpiIdle, Serial, Stop
<1>4. spi.data \in Half \X Half
  <2>1. {} \in Half BY DEF Half
  <2> QED BY <1>1, <2>1 DEF SpiIdle
<1>5. Registers BY <1>1, <1>2, <1>3, <1>4 DEF Registers, Order
<1> QED BY <1>1, <1>3, <1>5, BypassHarmless DEF SerialInv, Awaiting, AtPeace

-----------------------------------------------------------------------------
(* The theorems under /check. *)
CheckedInv ==
  /\ PlaceInv
  /\ Checked /\ Parallel => SpiShape(spi) /\ ~spi.sending /\ (Between \/ \E s, k : Amid(s, k))
  /\ SerialCheck => SerialInv

LEMMA CheckedInit == Init => CheckedInv
<1> SUFFICES ASSUME Init PROVE CheckedInv OBVIOUS
<1>1. /\ job \in Jobs /\ mode = "read" /\ busy = Ready /\ spi = SpiIdle
      /\ pc = (IF job.op = "backup" THEN "save" ELSE IF job.op = "load" THEN "ram"
               ELSE IF job.op = "erase" \/ job.issue_erase THEN "erase" ELSE "bypass")
      /\ todo = <<>> /\ again = Retries
  BY DEF Init
<1>2. job.op \in {"flash", "erase", "backup", "load"} BY <1>1, JobFacts
<1>3. PlaceInv BY <1>1, <1>2 DEF PlaceInv
<1>4. SpiShape(spi) /\ ~spi.sending BY <1>1 DEF SpiIdle, SpiShape
<1>5. Between BY <1>1, <1>2 DEF Between, IntelModes
<1>6. SerialCheck => SerialInv BY SerialInit
<1> QED BY <1>3, <1>4, <1>5, <1>6 DEF CheckedInv

LEMMA CheckedNext == CheckedInv /\ FlashInv /\ [Next]_vars => CheckedInv'
<1> SUFFICES ASSUME CheckedInv, FlashInv, [Next]_vars PROVE CheckedInv' OBVIOUS
<1>1. job \in Jobs /\ job' = job /\ SavedInv /\ PlaceInv BY JobStays DEF FlashInv, CheckedInv
<1>2. PlaceInv' BY <1>1, PlaceStep
<1>3. ASSUME Checked, Parallel PROVE SpiShape(spi') /\ ~spi'.sending /\ Checks'
  <2>1. SpiShape(spi) /\ ~spi.sending /\ (Between \/ \E s, k : Amid(s, k))
    BY <1>3 DEF CheckedInv
  <2>2. CASE Between
    <3>1. spi' = spi /\ Checks' BY <1>1, <1>3, <2>1, <2>2, BetweenStep
    <3> QED BY <2>1, <3>1
  <2>3. CASE \E s, k : Amid(s, k)
    <3>1. PICK s, k : Amid(s, k) BY <2>3
    <3>2. CASE Intel BY <1>1, <1>3, <2>1, <3>1, <3>2, IntelCheckedStep
    <3>3. CASE job.family \in {"AMD", "SST"}
      <4>1. spi' = spi /\ Checks' BY <1>1, <1>3, <2>1, <3>1, <3>3, AmdCheckedStep
      <4> QED BY <2>1, <4>1
    <3>4. job.family # "SPI" BY <1>3 DEF Parallel
    <3> QED BY <1>1, <3>2, <3>3, <3>4, JobFacts DEF Intel
  <2> QED BY <2>1, <2>2, <2>3
<1>4. Checked' = Checked /\ Parallel' = Parallel /\ SerialCheck' = SerialCheck
  BY <1>1, JobKept DEF SerialCheck
<1>5. ASSUME SerialCheck PROVE SerialInv'
  <2>1. SerialInv BY <1>5 DEF CheckedInv
  <2>2. CASE todo # <<>> BY <1>1, <1>5, <2>1, <2>2, SerialStep
  <2>3. CASE todo = <<>> BY <1>1, <1>5, <2>1, <2>3, SerialTurn
  <2> QED BY <2>2, <2>3
<1> QED BY <1>2, <1>3, <1>4, <1>5 DEF CheckedInv, Checks

(* CheckedInvariant: under /check too an operation that runs is one of the    *)
(* area's, and a poll that waits for it is still to come.                     *)
THEOREM CheckedInvariant == Spec => []CheckedInv
<1>1. Init => CheckedInv BY CheckedInit
<1>2. CheckedInv /\ FlashInv /\ [Next]_vars => CheckedInv' BY CheckedNext
<1> QED BY <1>1, <1>2, FlashInvariant, PTL DEF Spec

(* ReadableAgain: whatever the job, when the program is through the chip runs *)
(* nothing and is back in its read mode, or in the bypass mode asked for.     *)
THEOREM ReadableAgain == Spec => []LeftReadable
<1>1. CheckedInv /\ FlashInv => LeftReadable
  <2> SUFFICES ASSUME CheckedInv, FlashInv, Idle
               PROVE  /\ busy = Ready /\ ~spi.sending
                      /\ mode = "read" \/ (mode = "bypass" /\ job.cl_bypass)
    BY DEF LeftReadable
  <2>1. pc = "done" /\ todo = <<>> /\ job \in Jobs /\ SavedInv BY DEF Idle, FlashInv
  <2>4. CASE SerialCheck
    <3>1. SerialInv BY <2>4 DEF CheckedInv
    <3> QED BY <2>1, <3>1, SerialAtPeace DEF AtPeace
  <2>2. CASE Checked /\ Parallel
    <3>1. ~spi.sending /\ (Between \/ \E s, k : Amid(s, k)) BY <2>2 DEF CheckedInv
    <3>2. ASSUME NEW s, NEW k, Amid(s, k) PROVE FALSE
      <4>1. Legal(s) /\ k \in 1..Len(s) /\ Ahead(s, k) BY <3>2 DEF Amid
      <4>2. Rest(s, k) # <<>> BY <4>1, LegalRest
      <4>3. s[k].op = "write" /\ todo = <<Checking(s[k])>> \o Rest(s, k + 1)
        BY <2>1, <4>1, <4>2 DEF Ahead
      <4> PICK t : t = todo OBVIOUS
      <4>4. ReadBack(s, k, t)
        <5>1. t = <<Checking(s[k])>> \o Rest(s, k + 1) BY <4>3
        <5>2. s[k].op = "write" BY <4>3
        <5> QED BY ONLY <4>1, <5>1, <5>2, LegalCheck
      <4> QED BY <2>1, <4>4 DEF ReadBack
    <3>3. Between BY <3>1, <3>2
    <3> QED BY <2>1, <3>1, <3>3 DEF Between
  <2>3. CASE ~Checked
    <3>1. PhaseInv BY <2>3 DEF FlashInv
    <3>2. CASE job.op = "backup" BY <2>1, <3>2 DEF SavedInv
    <3>3. CASE AtEnd BY <3>3 DEF AtEnd
    <3>4. ASSUME NEW k \in {1, 2}, Resetting(k) PROVE FALSE
      <4> PICK s : s = sflash_reset OBVIOUS
      <4>1. k \in DOMAIN s /\ todo = Rest(s, k) BY <3>4 DEF Resetting
      <4>2. (\E S : s \in Seq(S)) /\ k \in 1..Len(s) BY <2>1, <4>1, ResetScript
      <4> QED BY <2>1, <4>1, <4>2, Rests
    <3> QED
      BY <2>1, <3>1, <3>2, <3>3, <3>4
      DEF PhaseInv, FlashPhase, AtErase, InErase, AtBypass, InBypass, AtLoad, InLoad, AtReset, InReset
  <2> QED BY <2>2, <2>3, <2>4 DEF SerialCheck, Parallel
<1> QED BY <1>1, CheckedInvariant, FlashInvariant, PTL

(* OutsideKept: whatever the job and its options, a cell that changes lies in *)
(* the area or in a block that begins there.                                  *)
THEOREM OutsideKept == Spec => OutsideUntouched
<1> DEFINE Kept == \A c \in Cells : cell'[c] # cell[c] =>
                     /\ job.op \in {"flash", "erase"}
                     /\ InArea(c \div 2) \/ InArea(Base[BlockOf(c)])
<1>1. CheckedInv /\ FlashInv /\ [Next]_vars => [Kept]_vars
  <2> SUFFICES ASSUME CheckedInv, FlashInv, [Next]_vars, NEW c \in Cells, cell'[c] # cell[c]
               PROVE  /\ job.op \in {"flash", "erase"}
                      /\ InArea(c \div 2) \/ InArea(Base[BlockOf(c)])
    OBVIOUS
  <2>1. Complete
    <3>1. cell' # cell OBVIOUS
    <3>2. CASE HostStep
      <4>1. CASE WriteCycle
        <5>1. PICK a, v : BusWrite(job.family, a, v) BY <4>1 DEF WriteCycle
        <5> QED BY <3>1, <5>1 DEF BusWrite, chipVars
      <4>2. CASE StartCycle BY <3>1, <4>2 DEF StartCycle
      <4>3. CASE ~WriteCycle /\ ~StartCycle
        BY <3>1, <3>2, <4>3
        DEF HostStep, sflash_erase_area, EnterBypass, LoadWord, Reset, SaveWord, LoadMemory,
            CheckCycle, PollCycle, StatusCycle, chipVars
      <4> QED BY <4>1, <4>2, <4>3
    <3>3. CASE ChipStep BY <3>3 DEF ChipStep
    <3>4. CASE ControllerStep BY <3>1, <3>4 DEF ControllerStep, Transfer
    <3>5. CASE Finished \/ UNCHANGED vars BY <3>1, <3>5 DEF Finished, vars, chipVars
    <3> QED BY <3>2, <3>3, <3>4, <3>5 DEF Next
  <2>2. busy # Ready /\ cell' = Outcome BY <2>1 DEF Complete
  <2>3. ASSUME busy.op = "program" PROVE c \in Programmed
    BY <2>2, <2>3 DEF Outcome
  <2>4. ASSUME busy.op # "program" PROVE BlockOf(c) = BlockOf(busy.at)
    BY <2>2, <2>4 DEF Outcome
  <2>5. ASSUME NEW b \in Blocks, ToErase(b), busy = EraseOf(b) PROVE InArea(Base[BlockOf(c)])
    <3>1. busy.op # "program" /\ busy.at = 2 * Base[b] BY <2>5, Kinds DEF EraseOf
    <3>2. BlockOf(c) = b BY <2>4, <3>1, FirstOf
    <3> QED BY <2>5, <3>2 DEF ToErase
  <2>6. ASSUME NEW a \in Int, NEW h, busy = Program(a, <<h>>) PROVE c = a
    <3>1. busy.op = "program" /\ busy.at = a /\ busy.halves = <<h>> BY <2>6, Kinds
    <3>2. Len(<<h>>) = 1 OBVIOUS
    <3>3. c \in a..a + 1 - 1 BY <2>3, <3>1, <3>2 DEF Programmed
    <3> QED BY <3>3
  <2>9. ASSUME NEW w \in Words, InArea(w), NEW word \in Half \X Half, busy = Program(2 * w, word)
        PROVE  InArea(c \div 2)
    <3>1. busy.op = "program" /\ busy.at = 2 * w /\ busy.halves = word BY <2>9, Kinds
    <3>2. Len(word) = 2 /\ w \in Nat BY CellsOf
    <3>3. c \in 2 * w..2 * w + 2 - 1 BY <2>3, <3>1, <3>2 DEF Programmed
    <3>4. c = 2 * w \/ c = 2 * w + 1 BY <3>2, <3>3
    <3>5. c \div 2 = w BY <3>4, CellsOf
    <3> QED BY <2>9, <3>5
  <2>7. CASE Checked /\ Parallel
    <3>1. Between \/ \E s, k : Amid(s, k) BY <2>7 DEF CheckedInv
    <3>2. Work(busy)
      <4>1. ~Between BY <2>2 DEF Between
      <4>2. PICK s, k : Amid(s, k) BY <3>1, <4>1
      <4> QED BY <2>2, <4>2 DEF Amid, AmdAt, IntelAt
    <3>3. CASE job.op \in {"flash", "erase"} /\ \E b \in Blocks : ToErase(b) /\ busy = EraseOf(b)
      BY <2>5, <3>3
    <3>4. CASE job.op = "flash" /\ \E a \in Cells, h \in Half : AreaCell(a) /\ busy = Program(a, <<h>>)
      <4>1. PICK a \in Cells, h \in Half : AreaCell(a) /\ busy = Program(a, <<h>>) BY <3>4
      <4>2. a \in Int BY Total
      <4>3. c = a BY <2>6, <4>1, <4>2
      <4> QED BY <3>4, <4>1, <4>3 DEF AreaCell
    <3> QED BY <3>2, <3>3, <3>4 DEF Work
  <2>8. CASE ~Checked
    <3>1. BusyInv BY <2>8 DEF FlashInv
    <3>2. job.op \in {"flash", "erase"} BY <2>2, <3>1 DEF BusyInv
    <3>3. CASE \E b \in Blocks : ToErase(b) /\ busy = EraseOf(b) BY <2>5, <3>2, <3>3
    <3>4. ASSUME NEW w \in Words, InArea(w), NEW h \in {1, 2}, NEW v \in Half,
                 busy = Program(CellOf(w, h), <<v>>)
          PROVE  InArea(c \div 2)
      <4> PICK a : a = CellOf(w, h) OBVIOUS
      <4>1. a \in Int /\ a \in {2 * w, 2 * w + 1} BY Places
      <4>2. c = a BY <2>6, <3>4, <4>1
      <4>3. c \div 2 = w BY <4>1, <4>2, CellsOf
      <4> QED BY <3>4, <4>3
    <3> QED BY <2>2, <2>9, <3>1, <3>2, <3>3, <3>4 DEF BusyInv
  <2>10. CASE SerialCheck
    <3>1. Ours(busy) BY <2>2, <2>10 DEF CheckedInv, SerialInv, Registers
    <3> QED BY <2>5, <2>9, <3>1 DEF Ours
  <2> QED BY <2>7, <2>8, <2>10 DEF SerialCheck, Parallel
<1> QED BY <1>1, CheckedInvariant, FlashInvariant, PTL DEF Spec, OutsideUntouched, Kept
=============================================================================
