-------------------------- MODULE AlgorithmProofs --------------------------
(***************************************************************************)
(* Proofs about the algorithms of the library.                             *)
(*                                                                         *)
(* Difficulty: the arithmetic on words is exact, for words and numbers of  *)
(* any size.  The words of a number are its digits to the base WordBase,   *)
(* which are slices of its binary digits; every operation is shown to      *)
(* leave the digits of the number that exact arithmetic gives.             *)
(*                                                                         *)
(* FilteredBlock: the client gets out of a merkleblock what is of the      *)
(* block, for blocks of any size.  A recursion over the heights of the     *)
(* tree is what its definition says; a hash has one place in the tree, so  *)
(* what hashes up to the root is at its place; and the client's walk       *)
(* through the node's message uses up what the node wrote, node by node.   *)
(***************************************************************************)
EXTENDS Difficulty, FilteredBlock, WellFoundedInduction, SequenceTheorems, TLAPS

----------------------------------------------------------------------------
(* Induction, recursion and powers.                                        *)

\* Induction over the natural numbers, for a set.
LEMMA NatSetInduction ==
  ASSUME NEW S, 0 \in S, \A n \in Nat : n \in S => n + 1 \in S
  PROVE  Nat \subseteq S
<1> DEFINE T == {n \in Nat : n \notin S}
<1>1. SUFFICES ASSUME T # {} PROVE FALSE
  OBVIOUS
<1>2. PICK x \in T : \A y \in T : ~(<<y, x>> \in OpToRel(<, Nat))
  BY <1>1, WFMin, NatLessThanWellFounded
<1>3. x # 0 /\ x - 1 \in Nat
  OBVIOUS
<1>4. <<x - 1, x>> \in OpToRel(<, Nat)
  BY <1>3 DEF OpToRel
<1>5. x - 1 \in S
  BY <1>2, <1>3, <1>4
<1>6. QED
  BY <1>3, <1>5

\* A first value and a step, both in V, determine a function on Nat.
LEMMA Recursion ==
  ASSUME NEW V, NEW z \in V, NEW step \in [Nat -> [V -> V]]
  PROVE  \E f \in [Nat -> V] :
           f[0] = z /\ \A n \in Nat : f[n + 1] = step[n + 1][f[n]]
<1> DEFINE Def(g, n) ==
             /\ g \in [0..n -> V] /\ g[0] = z
             /\ \A i \in 0..(n - 1) : g[i + 1] = step[i + 1][g[i]]
           S == {n \in Nat : \E g : Def(g, n)}
<1>1. Nat \subseteq S
  <2>1. 0 \in S
    <3>1. Def([i \in 0..0 |-> z], 0)
      OBVIOUS
    <3>2. QED
      BY <3>1
  <2>2. ASSUME NEW n \in Nat, n \in S
        PROVE  n + 1 \in S
    <3>1. PICK g : Def(g, n)
      BY <2>2
    <3> DEFINE v == step[n + 1][g[n]]
               h == [i \in 0..n + 1 |-> IF i = n + 1 THEN v ELSE g[i]]
    <3>2. v \in V
      BY <3>1
    <3>3. Def(h, n + 1)
      <4>1. h \in [0..n + 1 -> V] /\ h[0] = z
        BY <3>1, <3>2
      <4>2. ASSUME NEW i \in 0..(n + 1 - 1)
            PROVE  h[i + 1] = step[i + 1][h[i]]
        BY <3>1
      <4>3. \A i \in 0..(n + 1 - 1) : h[i + 1] = step[i + 1][h[i]]
        BY <4>2
      <4> HIDE DEF h
      <4>4. QED
        BY <4>1, <4>3
    <3> HIDE DEF Def
    <3>4. QED
      BY <3>3
  <2>3. QED
    <3> HIDE DEF S
    <3>1. QED
      BY <2>1, <2>2, NatSetInduction
<1>2. ASSUME NEW n \in Nat, NEW m \in Nat, NEW g, NEW h, Def(g, n), Def(h, m)
      PROVE  \A i \in Nat : i <= n /\ i <= m => g[i] = h[i]
  <2> DEFINE E == {i \in Nat : i <= n /\ i <= m => g[i] = h[i]}
  <2>1. 0 \in E
    BY <1>2
  <2>2. ASSUME NEW i \in Nat, i \in E
        PROVE  i + 1 \in E
    <3>1. SUFFICES ASSUME i + 1 <= n, i + 1 <= m
                   PROVE  g[i + 1] = h[i + 1]
      OBVIOUS
    <3>2. g[i] = h[i] /\ i \in 0..(n - 1) /\ i \in 0..(m - 1)
      BY <2>2, <3>1
    <3>3. QED
      BY <1>2, <3>2
  <2>3. Nat \subseteq E
    <3> HIDE DEF E
    <3>1. QED
      BY <2>1, <2>2, NatSetInduction
  <2>4. QED
    BY <2>3
<1> DEFINE G(n) == CHOOSE g : Def(g, n)
           f == [n \in Nat |-> G(n)[n]]
<1>3. ASSUME NEW n \in Nat
      PROVE  Def(G(n), n)
  <2> HIDE DEF Def
  <2>1. QED
    BY <1>1
<1> HIDE DEF G
<1>4. f \in [Nat -> V]
  BY <1>3
<1>5. f[0] = z
  BY <1>3
<1>6. ASSUME NEW n \in Nat
      PROVE  f[n + 1] = step[n + 1][f[n]]
  <2>1. Def(G(n), n) /\ Def(G(n + 1), n + 1)
    BY <1>3
  <2>2. G(n + 1)[n] = G(n)[n]
    <3> HIDE DEF Def
    <3>1. QED
      BY <2>1, <1>2
  <2>3. G(n + 1)[n + 1] = step[n + 1][G(n + 1)[n]]
    BY <2>1
  <2>4. QED
    BY <2>2, <2>3
<1>7. QED
  <2> HIDE DEF f
  <2>1. QED
    BY <1>4, <1>5, <1>6

\* The values a recursion of integers goes through.
Integer == Int

\* The same with values in Integer, a name that hides Int from the provers.
LEMMA IntegerRecursion ==
  ASSUME NEW z \in Integer, NEW step \in [Nat -> [Integer -> Integer]]
  PROVE  \E f \in [Nat -> Integer] :
           f[0] = z /\ \A n \in Nat : f[n + 1] = step[n + 1][f[n]]
<1>1. z \in Integer /\ step \in [Nat -> [Integer -> Integer]]
  OBVIOUS
<1>2. QED
  BY <1>1, Recursion

\* The same with values in Int, for carries and sums.
LEMMA IntRecursion ==
  ASSUME NEW z \in Int, NEW step \in [Nat -> [Int -> Int]]
  PROVE  \E f \in [Nat -> Int] :
           f[0] = z /\ \A n \in Nat : f[n + 1] = step[n + 1][f[n]]
BY IntegerRecursion DEF Integer

\* The recursive function Pow2 is what its definition says.
LEMMA Pow2Def ==
  /\ Pow2[0] = 1
  /\ \A n \in Nat : Pow2[n] \in Nat \ {0} /\ Pow2[n + 1] = 2 * Pow2[n]
<1> DEFINE step == [n \in Nat |-> [x \in Int |-> 2 * x]]
<1>1. PICK f \in [Nat -> Int] :
        f[0] = 1 /\ \A n \in Nat : f[n + 1] = step[n + 1][f[n]]
  <2> DEFINE z == 1
  <2>1. z \in Int /\ step \in [Nat -> [Int -> Int]]
    OBVIOUS
  <2> HIDE DEF step, z
  <2>2. \E f \in [Nat -> Int] : f[0] = z /\ \A n \in Nat : f[n + 1] = step[n + 1][f[n]]
    BY <2>1, IntRecursion
  <2>3. QED
    BY <2>2 DEF z
<1>2. ASSUME NEW n \in Nat
      PROVE  f[n + 1] = 2 * f[n]
  <2>1. f[n + 1] = step[n + 1][f[n]] /\ n + 1 \in Nat /\ f[n] \in Int
    <3> HIDE DEF step
    <3>1. QED
      BY <1>1
  <2>2. QED
    BY <2>1
<1>3. ASSUME NEW n \in Nat
      PROVE  f[n] = IF n = 0 THEN 1 ELSE 2 * f[n - 1]
  <2>1. CASE n = 0
    BY <1>1, <2>1
  <2>2. CASE n # 0
    <3>1. n - 1 \in Nat /\ (n - 1) + 1 = n
      BY <2>2
    <3>2. f[(n - 1) + 1] = 2 * f[n - 1]
      BY <1>2, <3>1
    <3>3. QED
      BY <2>2, <3>1, <3>2
  <2>3. QED
    BY <2>1, <2>2
<1>4. f = [n \in Nat |-> IF n = 0 THEN 1 ELSE 2 * f[n - 1]]
  BY <1>3
<1>5. Pow2 = [n \in Nat |-> IF n = 0 THEN 1 ELSE 2 * Pow2[n - 1]]
  BY <1>4 DEF Pow2
<1>6. Pow2[0] = 1 /\ \A n \in Nat : Pow2[n + 1] = 2 * Pow2[n]
  <2>1. \A n \in Nat : Pow2[n] = IF n = 0 THEN 1 ELSE 2 * Pow2[n - 1]
    BY <1>5
  <2>2. QED
    BY <2>1
<1> DEFINE S == {n \in Nat : Pow2[n] \in Nat \ {0}}
<1>7. 0 \in S /\ \A n \in Nat : n \in S => n + 1 \in S
  BY <1>6
<1>8. Nat \subseteq S
  <2> HIDE DEF S
  <2>1. QED
    BY <1>7, NatSetInduction
<1>9. QED
  BY <1>6, <1>8

\* 2^(m + n) is 2^m * 2^n.
LEMMA Pow2Sum ==
  ASSUME NEW m \in Nat, NEW n \in Nat
  PROVE  Pow2[m + n] = Pow2[m] * Pow2[n]
<1> DEFINE S == {k \in Nat : Pow2[m + k] = Pow2[m] * Pow2[k]}
<1>1. 0 \in S
  BY Pow2Def
<1>2. ASSUME NEW k \in Nat, k \in S
      PROVE  k + 1 \in S
  <2>1. Pow2[m + (k + 1)] = 2 * Pow2[m + k]
    <3>1. m + k \in Nat /\ m + (k + 1) = (m + k) + 1
      OBVIOUS
    <3>2. QED
      BY <3>1, Pow2Def
  <2>2. Pow2[k + 1] = 2 * Pow2[k] /\ Pow2[k] \in Nat /\ Pow2[m] \in Nat
    BY Pow2Def
  <2>3. QED
    BY <1>2, <2>1, <2>2
<1>3. Nat \subseteq S
  <2> HIDE DEF S
  <2>1. QED
    BY <1>1, <1>2, NatSetInduction
<1>4. QED
  BY <1>3

----------------------------------------------------------------------------
(* Quotients and remainders.                                               *)

Positive == Nat \ {0}

\* What div and % by a positive divisor return, dividends below 0 included.
LEMMA DivMod ==
  ASSUME NEW x \in Int, NEW c \in Positive
  PROVE  /\ x \div c \in Int /\ x % c \in 0..(c - 1)
         /\ x = c * (x \div c) + (x % c)
         /\ x \in Nat => x \div c \in Nat
<1>1. x \div c \in Int /\ x % c \in 0..(c - 1) /\ x = c * (x \div c) + (x % c)
  BY DEF Positive
<1>2. x \in Nat => x \div c \in Nat
  BY DEF Positive
<1>3. QED
  BY <1>1, <1>2

\* Quotient and remainder are unique.
LEMMA DivIs ==
  ASSUME NEW x \in Int, NEW c \in Positive, NEW q \in Int, NEW r \in 0..(c - 1),
         x = c * q + r
  PROVE  x \div c = q /\ x % c = r
BY DEF Positive

\* A multiple more.
LEMMA DivPlus ==
  ASSUME NEW x \in Int, NEW c \in Positive, NEW k \in Int
  PROVE  (x + c * k) \div c = (x \div c) + k /\ (x + c * k) % c = x % c
<1> DEFINE q == x \div c
           r == x % c
<1>1. q \in Int /\ r \in 0..(c - 1) /\ x = c * q + r
  BY DivMod
<1> HIDE DEF q, r
<1>2. x + c * k = c * (q + k) + r /\ q + k \in Int /\ x + c * k \in Int
  BY <1>1 DEF Positive
<1>3. (x + c * k) \div c = q + k /\ (x + c * k) % c = r
  BY <1>1, <1>2, DivIs
<1>4. QED
  BY <1>3 DEF q, r

\* By a product: first by the one factor and then by the other.
LEMMA DivProduct ==
  ASSUME NEW x \in Int, NEW b \in Positive, NEW c \in Positive
  PROVE  /\ x \div (b * c) = (x \div b) \div c
         /\ x % (b * c) = (x % b) + b * ((x \div b) % c)
         /\ (x % (b * c)) \div b = (x \div b) % c
         /\ (x % (b * c)) % b = x % b
<1> DEFINE q == x \div b
           r == x % b
           p == q \div c
           s == q % c
<1>1. q \in Int /\ r \in 0..(b - 1) /\ x = b * q + r
  BY DivMod
<1>2. p \in Int /\ s \in 0..(c - 1) /\ q = c * p + s
  BY <1>1, DivMod
<1> HIDE DEF q, r, p, s
<1>3. x = (b * c) * p + (b * s + r)
  <2>1. x = b * (c * p + s) + r
    BY <1>1, <1>2
  <2>2. b * (c * p + s) = b * (c * p) + b * s
    BY <1>2 DEF Positive
  <2>3. b * (c * p) = (b * c) * p
    BY <1>2 DEF Positive
  <2>4. b * (c * p) \in Int /\ b * s \in Int /\ r \in Int
    BY <1>1, <1>2 DEF Positive
  <2>5. QED
    BY <2>1, <2>2, <2>3, <2>4
<1>4. b * s + r \in 0..(b * c - 1)
  <2>1. b * s \in Nat /\ b * s <= b * (c - 1)
    BY <1>2 DEF Positive
  <2>2. b * (c - 1) = b * c - b /\ b * c \in Nat
    BY DEF Positive
  <2>3. QED
    BY <2>1, <2>2, <1>1 DEF Positive
<1>5. b * c \in Positive
  BY DEF Positive
<1>6. x \div (b * c) = p /\ x % (b * c) = b * s + r
  BY <1>2, <1>3, <1>4, <1>5, DivIs
<1>7. (b * s + r) \div b = s /\ (b * s + r) % b = r
  BY <1>1, <1>2, DivIs DEF Positive
<1>8. b * s + r = r + b * s
  BY <1>1, <1>2 DEF Positive
<1>9. QED
  BY <1>6, <1>7, <1>8 DEF q, r, p, s

\* A common factor.
LEMMA DivCommon ==
  ASSUME NEW x \in Int, NEW b \in Positive, NEW c \in Positive
  PROVE  (b * x) \div (b * c) = x \div c /\ (b * x) % (b * c) = b * (x % c)
<1> DEFINE q == x \div c
           r == x % c
<1>1. q \in Int /\ r \in 0..(c - 1) /\ x = c * q + r
  BY DivMod
<1> HIDE DEF q, r
<1>2. b * x = (b * c) * q + b * r
  <2>1. b * (c * q + r) = b * (c * q) + b * r
    BY <1>1 DEF Positive
  <2>2. b * (c * q) = (b * c) * q
    BY <1>1 DEF Positive
  <2>3. QED
    BY <1>1, <2>1, <2>2
<1>3. b * r \in 0..(b * c - 1)
  <2>1. b * r \in Nat /\ b * r <= b * (c - 1)
    BY <1>1 DEF Positive
  <2>2. b * (c - 1) = b * c - b /\ b * c \in Nat
    BY DEF Positive
  <2>3. QED
    BY <2>1, <2>2 DEF Positive
<1>4. b * c \in Positive /\ b * x \in Int
  BY DEF Positive
<1>5. (b * x) \div (b * c) = q /\ (b * x) % (b * c) = b * r
  BY <1>1, <1>2, <1>3, <1>4, DivIs
<1>6. QED
  BY <1>5 DEF q, r

\* A remainder may be taken before a product, too.
LEMMA ModTimes ==
  ASSUME NEW x \in Int, NEW y \in Int, NEW c \in Positive
  PROVE  ((x % c) * y) % c = (x * y) % c
<1> DEFINE q == x \div c
           r == x % c
<1>1. q \in Int /\ r \in 0..(c - 1) /\ x = c * q + r
  BY DivMod
<1> HIDE DEF q, r
<1>2. x * y = r * y + c * (q * y)
  <2>1. (c * q + r) * y = (c * q) * y + r * y
    BY <1>1 DEF Positive
  <2>2. (c * q) * y = c * (q * y)
    BY <1>1 DEF Positive
  <2>3. r * y \in Int /\ c * (q * y) \in Int
    BY <1>1 DEF Positive
  <2>4. QED
    BY <1>1, <2>1, <2>2, <2>3
<1>3. r * y \in Int /\ q * y \in Int
  BY <1>1
<1>4. (x * y) % c = (r * y) % c
  BY <1>2, <1>3, DivPlus
<1>5. QED
  BY <1>4 DEF r

----------------------------------------------------------------------------
(* Words and the number they stand for.                                    *)

\* The sizes of a word and of a number, and the powers they stand for.
LEMMA Sizes ==
  /\ ByteBits \in Positive /\ Limbs \in Positive
  /\ WordBits \in Positive /\ WordBits = 4 * ByteBits
  /\ Size \in Positive /\ Size = WordBits * Limbs
  /\ WordBase \in Positive /\ WordBase > 1 /\ WordBase = Pow2[WordBits]
  /\ Modulus \in Positive /\ Modulus = Pow2[Size]
<1>1. /\ ByteBits \in Positive /\ Limbs \in Positive
      /\ WordBits \in Positive /\ WordBits = 4 * ByteBits
  BY ArithUintAssumption DEF Positive, WordBits
<1>2. Size \in Positive /\ Size = WordBits * Limbs
  BY <1>1 DEF Size, Positive
<1>3. WordBase \in Positive /\ Modulus \in Positive
  BY <1>1, <1>2, Pow2Def DEF WordBase, Modulus, Positive
<1>4. WordBase > 1
  <2>1. WordBits - 1 \in Nat /\ (WordBits - 1) + 1 = WordBits
    BY <1>1 DEF Positive
  <2>2. Pow2[WordBits] = 2 * Pow2[WordBits - 1] /\ Pow2[WordBits - 1] \in Nat \ {0}
    BY <2>1, Pow2Def
  <2>3. QED
    BY <2>2 DEF WordBase
<1>5. QED
  BY <1>1, <1>2, <1>3, <1>4 DEF WordBase, Modulus

\* Pow2Def with a name for the positive numbers.
LEMMA Pow2Positive == \A n \in Nat : Pow2[n] \in Positive
BY Pow2Def DEF Positive

\* The w bits of v from bit k on.
Slice(v, k, w) == (v \div Pow2[k]) % Pow2[w]

\* A slice of w bits is below 2^w.
LEMMA SliceType ==
  ASSUME NEW v \in Int, NEW k \in Nat, NEW w \in Nat
  PROVE  Slice(v, k, w) \in 0..(Pow2[w] - 1) /\ Slice(v, k, w) \in Nat
<1>1. v \div Pow2[k] \in Int
  BY DivMod, Pow2Positive
<1>2. Slice(v, k, w) \in 0..(Pow2[w] - 1)
  BY <1>1, DivMod, Pow2Positive DEF Slice
<1>3. QED
  BY <1>2, Pow2Positive DEF Positive

\* Two shifts to the right are one.
LEMMA DivDiv ==
  ASSUME NEW v \in Int, NEW k \in Nat, NEW m \in Nat
  PROVE  (v \div Pow2[k]) \div Pow2[m] = v \div Pow2[k + m]
BY DivProduct, Pow2Positive, Pow2Sum

\* The lower bits of a slice and the upper ones make the slice.
LEMMA SliceSplit ==
  ASSUME NEW v \in Int, NEW k \in Nat, NEW m \in Nat, NEW n \in Nat
  PROVE  Slice(v, k, m + n) = Slice(v, k, m) + Pow2[m] * Slice(v, k + m, n)
<1>1. v \div Pow2[k] \in Int
  BY DivMod, Pow2Positive
<1>2. (v \div Pow2[k]) % (Pow2[m] * Pow2[n])
        = ((v \div Pow2[k]) % Pow2[m])
            + Pow2[m] * (((v \div Pow2[k]) \div Pow2[m]) % Pow2[n])
  BY <1>1, DivProduct, Pow2Positive
<1>3. QED
  BY <1>2, DivDiv, Pow2Sum DEF Slice

\* A part of a slice is a slice.
LEMMA SliceOfSlice ==
  ASSUME NEW v \in Int, NEW k \in Nat, NEW w \in Nat, NEW i \in Nat, NEW m \in Nat,
         i + m <= w
  PROVE  Slice(Slice(v, k, w), i, m) = Slice(v, k + i, m)
<1> DEFINE x == v \div Pow2[k]
           y == x \div Pow2[i]
<1>1. x \in Int /\ y \in Int
  BY DivMod, Pow2Positive
<1>2. w - i \in Nat /\ w = i + (w - i) /\ (w - i) - m \in Nat /\ w - i = m + ((w - i) - m)
  OBVIOUS
<1>3. Pow2[w] = Pow2[i] * Pow2[w - i] /\ Pow2[w - i] = Pow2[m] * Pow2[(w - i) - m]
  BY <1>2, Pow2Sum
<1>4. (x % Pow2[w]) \div Pow2[i] = y % Pow2[w - i]
  <2> HIDE DEF x
  <2>1. QED
    BY <1>1, <1>2, <1>3, DivProduct, Pow2Positive
<1>5. (y % Pow2[w - i]) % Pow2[m] = y % Pow2[m]
  <2> HIDE DEF y
  <2>1. QED
    BY <1>1, <1>2, <1>3, DivProduct, Pow2Positive
<1>6. y = v \div Pow2[k + i]
  BY DivDiv
<1>7. QED
  BY <1>4, <1>5, <1>6 DEF Slice

\* The recursive function in NumberOf exists.
LEMMA SumSteps ==
  ASSUME NEW a \in [Limb -> Int]
  PROVE  \E up \in [0..Limbs -> Int] :
           /\ up[0] = 0
           /\ \A i \in Limb : up[i + 1] = up[i] + a[i] * Pow2[WordBits * i]
           /\ NumberOf(a) = up[Limbs]
<1> DEFINE z == 0
           term == [n \in Nat |-> IF n - 1 \in Limb THEN a[n - 1] * Pow2[WordBits * (n - 1)] ELSE 0]
           step == [n \in Nat |-> [x \in Int |-> x + term[n]]]
<1>0. Limbs \in Nat \ {0} /\ Limb = 0..(Limbs - 1)
  BY Sizes DEF Positive, Limb
<1>1. term \in [Nat -> Int]
  <2>1. \A k \in Limb : k \in Nat /\ WordBits * k \in Nat
    BY Sizes DEF Limb, Positive
  <2>2. \A k \in Limb : a[k] * Pow2[WordBits * k] \in Int
    BY <2>1, Pow2Def
  <2>3. QED
    BY <2>2
<1>2. z \in Int /\ step \in [Nat -> [Int -> Int]]
  <2> HIDE DEF term
  <2>1. QED
    BY <1>1
<1>3. \E f \in [Nat -> Int] : f[0] = z /\ \A n \in Nat : f[n + 1] = step[n + 1][f[n]]
  <2> HIDE DEF z, step, term
  <2>1. QED
    BY <1>2, IntRecursion
<1>4. PICK g \in [0..Limbs -> Int] :
        g[0] = 0 /\ \A i \in Limb : g[i + 1] = step[i + 1][g[i]]
  <2>1. PICK f \in [Nat -> Int] :
          f[0] = 0 /\ \A n \in Nat : f[n + 1] = step[n + 1][f[n]]
    <3> HIDE DEF step, term
    <3>1. QED
      BY <1>3 DEF z
  <2> DEFINE g == [i \in 0..Limbs |-> f[i]]
  <2> HIDE DEF step, term
  <2>2. g \in [0..Limbs -> Int] /\ g[0] = 0
    BY <1>0, <2>1
  <2>3. \A i \in Limb : i \in Nat /\ g[i] = f[i] /\ g[i + 1] = f[i + 1]
    BY <1>0
  <2> HIDE DEF g
  <2>4. \A i \in Limb : g[i + 1] = step[i + 1][g[i]]
    <3>1. ASSUME NEW i \in Limb
          PROVE  g[i + 1] = step[i + 1][g[i]]
      <4>1. i \in Nat /\ g[i] = f[i] /\ g[i + 1] = f[i + 1]
        BY <2>3
      <4>2. f[i + 1] = step[i + 1][f[i]]
        BY <2>1, <4>1
      <4>3. QED
        BY <4>1, <4>2
    <3>2. QED
      BY <3>1
  <2>5. QED
    BY <2>2, <2>4
<1>5. ASSUME NEW i \in Limb
      PROVE  g[i + 1] = g[i] + a[i] * Pow2[WordBits * i]
  <2>1. i \in Nat /\ i + 1 \in Nat /\ i \in 0..Limbs /\ (i + 1) - 1 = i
    BY <1>0
  <2>2. g[i + 1] = step[i + 1][g[i]] /\ g[i] \in Int
    <3> HIDE DEF step
    <3>1. QED
      BY <1>4, <2>1
  <2>3. step[i + 1][g[i]] = g[i] + term[i + 1]
    <3> HIDE DEF term
    <3>1. QED
      BY <2>1, <2>2
  <2>4. QED
    BY <2>1, <2>2, <2>3
<1>6. g = [i \in 0..Limbs |-> IF i = 0 THEN 0 ELSE g[i - 1] + a[i - 1] * Pow2[WordBits * (i - 1)]]
  <2> HIDE DEF step, term
  <2>1. ASSUME NEW i \in 0..Limbs
        PROVE  g[i] = IF i = 0 THEN 0 ELSE g[i - 1] + a[i - 1] * Pow2[WordBits * (i - 1)]
    <3>1. CASE i = 0
      BY <1>4, <3>1
    <3>2. CASE i # 0
      <4>1. i - 1 \in Limb /\ (i - 1) + 1 = i
        BY <1>0, <3>2
      <4>2. QED
        BY <1>5, <3>2, <4>1
    <3>3. QED
      BY <3>1, <3>2
  <2>2. QED
    BY <1>4, <2>1
<1> DEFINE up == CHOOSE u : u = [i \in 0..Limbs |->
                   IF i = 0 THEN 0 ELSE u[i - 1] + a[i - 1] * Pow2[WordBits * (i - 1)]]
<1>7. up = [i \in 0..Limbs |->
              IF i = 0 THEN 0 ELSE up[i - 1] + a[i - 1] * Pow2[WordBits * (i - 1)]]
  BY <1>6
<1>8. NumberOf(a) = up[Limbs]
  BY DEF NumberOf
<1> HIDE DEF up
<1>9. up[0] = 0 /\ \A i \in Limb : up[i + 1] = up[i] + a[i] * Pow2[WordBits * i]
  <2>1. \A i \in 0..Limbs : up[i] =
          IF i = 0 THEN 0 ELSE up[i - 1] + a[i - 1] * Pow2[WordBits * (i - 1)]
    BY <1>7
  <2>2. \A i \in Limb : i + 1 \in 0..Limbs /\ i + 1 # 0 /\ (i + 1) - 1 = i
    BY <1>0
  <2>3. 0 \in 0..Limbs
    BY <1>0
  <2>4. QED
    BY <2>1, <2>2, <2>3
<1>10. up \in [0..Limbs -> Int]
  <2> DEFINE S == {n \in Nat : n \in 0..Limbs => up[n] \in Int}
  <2>1. 0 \in S
    BY <1>9
  <2>2. ASSUME NEW n \in Nat, n \in S
        PROVE  n + 1 \in S
    <3>1. SUFFICES ASSUME n + 1 \in 0..Limbs
                   PROVE  up[n + 1] \in Int
      OBVIOUS
    <3>2. n \in Limb /\ up[n] \in Int /\ WordBits * n \in Nat
      BY <1>0, <2>2, <3>1, Sizes DEF Positive
    <3>3. a[n] \in Int /\ Pow2[WordBits * n] \in Int
      <4>1. Pow2[WordBits * n] \in Nat \ {0}
        BY <3>2, Pow2Def
      <4>2. a[n] \in Int
        BY <3>2
      <4>3. QED
        BY <4>1, <4>2
    <3>4. up[n + 1] = up[n] + a[n] * Pow2[WordBits * n]
      BY <1>9, <3>2
    <3>5. QED
      BY <3>2, <3>3, <3>4
  <2>3. Nat \subseteq S
    <3> HIDE DEF S
    <3>1. QED
      BY <2>1, <2>2, NatSetInduction
  <2>4. \A n \in 0..Limbs : up[n] \in Int
    BY <2>3
  <2>5. QED
    BY <1>7, <2>4
<1>11. QED
  BY <1>8, <1>9, <1>10

\* The number a 1 in word i stands for, and the sums of the first words.
Weight(i) == Pow2[WordBits * i]

Partial(a, up) ==
  /\ up \in [0..Limbs -> Int] /\ up[0] = 0
  /\ \A i \in Limb : up[i + 1] = up[i] + a[i] * Weight(i)

\* A word weighs WordBase times the one below it.
LEMMA Weights ==
  /\ Weight(0) = 1 /\ Weight(Limbs) = Modulus
  /\ \A i \in Nat : Weight(i) \in Positive /\ Weight(i + 1) = Weight(i) * WordBase
<1>1. Weight(0) = 1
  <2>1. WordBits * 0 = 0
    BY Sizes DEF Positive
  <2>2. QED
    BY <2>1, Pow2Def DEF Weight
<1>2. Weight(Limbs) = Modulus
  BY DEF Weight, Modulus, Size
<1>3. ASSUME NEW i \in Nat
      PROVE  Weight(i) \in Positive /\ Weight(i + 1) = Weight(i) * WordBase
  <2>1. WordBits * i \in Nat /\ WordBits \in Nat /\ WordBits * (i + 1) = WordBits * i + WordBits
    BY Sizes DEF Positive
  <2>2. QED
    BY <2>1, Pow2Sum, Pow2Positive DEF Weight, WordBase
<1>4. QED
  BY <1>1, <1>2, <1>3

\* What arithmetic on the places of words needs.
LEMMA Limits ==
  /\ Limbs \in Nat /\ 0 \in Limb
  /\ \A i \in Limb : i \in Nat /\ i < Limbs /\ i \in 0..Limbs /\ i + 1 \in 0..Limbs
BY Sizes DEF Limb, Positive

\* The first bit of a word is at a natural number.
LEMMA Places == WordBits \in Nat /\ \A i \in Nat : WordBits * i \in Nat
<1>1. WordBits \in Nat
  BY Sizes DEF Positive
<1>2. ASSUME NEW i \in Nat
      PROVE  WordBits * i \in Nat
  BY <1>1
<1>3. QED
  BY <1>1, <1>2

\* NumberOf is the last of the partial sums, and these exist.
LEMMA SumPartial ==
  ASSUME NEW a \in [Limb -> Int]
  PROVE  \E up : Partial(a, up) /\ NumberOf(a) = up[Limbs]
BY SumSteps DEF Partial, Weight

\* Induction from word to word.
LEMMA LimbInduction ==
  ASSUME NEW S, 0 \in S, \A i \in Limb : i \in S => i + 1 \in S
  PROVE  \A i \in 0..Limbs : i \in S
<1> DEFINE T == {n \in Nat : n \in 0..Limbs => n \in S}
<1>1. 0 \in T
  OBVIOUS
<1>2. ASSUME NEW n \in Nat, n \in T
      PROVE  n + 1 \in T
  <2>1. SUFFICES ASSUME n + 1 \in 0..Limbs
                 PROVE  n + 1 \in S
    OBVIOUS
  <2>2. n \in Limb /\ n \in S
    BY <1>2, <2>1, Limits DEF Limb
  <2>3. QED
    BY <2>2
<1>3. Nat \subseteq T
  <2> HIDE DEF T
  <2>1. QED
    BY <1>1, <1>2, NatSetInduction
<1>4. QED
  BY <1>3

\* The words of an arith_uint256 are natural numbers below WordBase.
LEMMA UintType ==
  ASSUME NEW a \in Uint
  PROVE  a \in [Limb -> Int] /\ \A i \in Limb : a[i] \in Nat /\ a[i] < WordBase
BY Sizes DEF Uint, Positive

\* The words are the digits of their sum.
LEMMA DigitsOfSum ==
  ASSUME NEW a \in Uint
  PROVE  /\ NumberOf(a) \in 0..(Modulus - 1)
         /\ \A i \in Limb : a[i] = Slice(NumberOf(a), WordBits * i, WordBits)
<1>0. /\ a \in [Limb -> Int]
      /\ \A i \in Limb : a[i] \in Nat /\ a[i] < WordBase
  BY UintType
<1>1. PICK up : Partial(a, up) /\ NumberOf(a) = up[Limbs]
  BY <1>0, SumPartial
<1>2. up \in [0..Limbs -> Int] /\ up[0] = 0
  BY <1>1 DEF Partial
<1>3. ASSUME NEW i \in Limb
      PROVE  /\ up[i + 1] = up[i] + Weight(i) * a[i]
             /\ up[i] \in Int /\ up[i + 1] \in Int /\ a[i] \in Int
             /\ Weight(i) \in Positive /\ Weight(i + 1) = Weight(i) * WordBase
             /\ WordBase \in Positive
  <2>1. up[i + 1] = up[i] + a[i] * Weight(i)
    BY <1>1 DEF Partial
  <2>2. /\ Weight(i) \in Positive /\ Weight(i + 1) = Weight(i) * WordBase
        /\ WordBase \in Positive
    BY Limits, Weights, Sizes
  <2>3. up[i] \in Int /\ up[i + 1] \in Int /\ a[i] \in Int
    BY <1>0, <1>2, Limits
  <2>4. QED
    BY <2>1, <2>2, <2>3 DEF Positive
<1>4. \A i \in 0..Limbs : up[i] \in 0..(Weight(i) - 1)
  <2> DEFINE S == {i \in 0..Limbs : up[i] \in 0..(Weight(i) - 1)}
  <2>1. 0 \in S
    BY <1>2, Weights, Limits
  <2>2. ASSUME NEW i \in Limb, i \in S
        PROVE  i + 1 \in S
    <3>1. up[i] \in 0..(Weight(i) - 1) /\ a[i] \in Nat /\ a[i] <= WordBase - 1
      BY <1>0, <1>3, <2>2 DEF Positive
    <3>2. Weight(i) * a[i] \in Nat /\ Weight(i) * a[i] <= Weight(i) * WordBase - Weight(i)
      BY <1>3, <3>1 DEF Positive
    <3>3. up[i + 1] \in 0..(Weight(i + 1) - 1)
      <4>1. Weight(i) * WordBase \in Nat
        BY <1>3 DEF Positive
      <4>2. QED
        BY <1>3, <3>1, <3>2, <4>1 DEF Positive
    <3>4. QED
      BY <3>3, Limits
  <2>3. QED
    <3> HIDE DEF S
    <3>1. \A i \in 0..Limbs : i \in S
      BY <2>1, <2>2, LimbInduction
    <3>2. QED
      BY <3>1 DEF S
<1>5. ASSUME NEW i \in 0..Limbs
      PROVE  \A j \in 0..Limbs : i <= j => \E k \in Int : up[j] = Weight(i) * k + up[i]
  <2> DEFINE S == {j \in 0..Limbs : i <= j => \E k \in Int : up[j] = Weight(i) * k + up[i]}
  <2>0. Weight(i) \in Positive /\ up[i] \in Int /\ i \in Nat
    BY <1>2, Weights, Limits
  <2>a. up[i] = Weight(i) * 0 + up[i]
    BY <2>0 DEF Positive
  <2>1. 0 \in S
    BY <2>0, <2>a, Limits
  <2>2. ASSUME NEW j \in Limb, j \in S
        PROVE  j + 1 \in S
    <3>1. SUFFICES ASSUME i <= j
                   PROVE  \E k \in Int : up[j + 1] = Weight(i) * k + up[i]
      BY <2>0, <2>a, Limits
    <3>2. PICK k \in Int : up[j] = Weight(i) * k + up[i]
      BY <2>2, <3>1
    <3>3. j \in Nat /\ j - i \in Nat /\ WordBits * j = WordBits * i + WordBits * (j - i)
          /\ WordBits * i \in Nat /\ WordBits * (j - i) \in Nat
      BY <2>0, <3>1, Limits, Sizes DEF Positive
    <3>4. Weight(j) = Weight(i) * Weight(j - i) /\ Weight(j - i) \in Positive
      BY <3>3, Pow2Sum, Weights DEF Weight
    <3>5. up[j + 1] = up[j] + Weight(i) * (Weight(j - i) * a[j])
      <4>1. up[j + 1] = up[j] + Weight(j) * a[j] /\ a[j] \in Int
        BY <1>3
      <4>2. (Weight(i) * Weight(j - i)) * a[j] = Weight(i) * (Weight(j - i) * a[j])
        BY <2>0, <3>4, <4>1 DEF Positive
      <4>3. QED
        BY <3>4, <4>1, <4>2
    <3> DEFINE m == Weight(j - i) * a[j]
    <3>6. m \in Int
      BY <1>3, <3>4 DEF Positive
    <3>7. up[j + 1] = up[j] + Weight(i) * m
      BY <3>5
    <3> HIDE DEF m
    <3>8. Weight(i) * (k + m) = Weight(i) * k + Weight(i) * m /\ k + m \in Int
      BY <2>0, <3>6 DEF Positive
    <3>9. up[j + 1] = Weight(i) * (k + m) + up[i]
      <4>1. Weight(i) * k \in Int /\ Weight(i) * m \in Int
        BY <2>0, <3>6 DEF Positive
      <4>2. QED
        BY <2>0, <3>2, <3>7, <3>8, <4>1
    <3>10. QED
      BY <3>8, <3>9
  <2>3. \A j \in 0..Limbs : j \in S
    <3> HIDE DEF S
    <3>1. QED
      BY <2>1, <2>2, LimbInduction
  <2>4. QED
    BY <2>3
<1>6. ASSUME NEW i \in 0..Limbs
      PROVE  NumberOf(a) % Weight(i) = up[i]
  <2>1. PICK k \in Int : up[Limbs] = Weight(i) * k + up[i]
    BY <1>5, Limits
  <2>2. Weight(i) \in Positive /\ up[i] \in 0..(Weight(i) - 1) /\ up[Limbs] \in Int
    <3>1. i \in Nat /\ Limbs \in 0..Limbs
      BY Limits
    <3>2. Weight(i) \in Positive
      BY <3>1, Weights
    <3>3. up[i] \in 0..(Weight(i) - 1)
      BY <1>4
    <3>4. QED
      BY <1>2, <3>1, <3>2, <3>3
  <2>3. QED
    BY <1>1, <2>1, <2>2, DivIs
<1>7. NumberOf(a) \in 0..(Modulus - 1)
  BY <1>1, <1>4, Weights, Limits
<1>8. ASSUME NEW i \in Limb
      PROVE  a[i] = Slice(NumberOf(a), WordBits * i, WordBits)
  <2>1. NumberOf(a) % Weight(i + 1) = up[i + 1] /\ up[i] \in 0..(Weight(i) - 1)
    BY <1>4, <1>6, Limits
  <2>2. up[i + 1] \div Weight(i) = a[i]
    <3>1. up[i + 1] = Weight(i) * a[i] + up[i]
      BY <1>3, Weights DEF Positive
    <3>2. QED
      BY <1>3, <2>1, <3>1, DivIs
  <2>3. (NumberOf(a) % (Weight(i) * WordBase)) \div Weight(i)
          = (NumberOf(a) \div Weight(i)) % WordBase
    <3>1. NumberOf(a) \in Int
      BY <1>7, Sizes DEF Positive
    <3>2. QED
      BY <1>3, <3>1, DivProduct
  <2>4. QED
    BY <1>3, <2>1, <2>2, <2>3 DEF Slice, Weight, WordBase
<1>9. QED
  BY <1>7, <1>8

\* Words that are the digits of a number sum to it, modulo their capacity.
LEMMA SumOfDigits ==
  ASSUME NEW v \in Int, NEW a,
         a \in [Limb -> Int],
         \A i \in Limb : a[i] = Slice(v, WordBits * i, WordBits)
  PROVE  a \in Uint /\ NumberOf(a) = v % Modulus
<1>1. PICK up : Partial(a, up) /\ NumberOf(a) = up[Limbs]
  BY SumPartial
<1> DEFINE S == {i \in 0..Limbs : up[i] = v % Weight(i)}
<1>2. 0 \in S
  <2>1. v % 1 = 0
    OBVIOUS
  <2>2. QED
    BY <1>1, <2>1, Weights, Limits DEF Partial
<1>3. ASSUME NEW i \in Limb, i \in S
      PROVE  i + 1 \in S
  <2>1. /\ Weight(i) \in Positive /\ Weight(i + 1) = Weight(i) * WordBase
        /\ WordBase \in Positive
    BY Limits, Weights, Sizes
  <2>2. up[i + 1] = up[i] + a[i] * Weight(i) /\ up[i] = v % Weight(i)
    BY <1>1, <1>3 DEF Partial
  <2>3. a[i] = (v \div Weight(i)) % WordBase /\ a[i] \in Int
    BY DEF Slice, Weight, WordBase
  <2>4. v % (Weight(i) * WordBase) = (v % Weight(i)) + Weight(i) * ((v \div Weight(i)) % WordBase)
    BY <2>1, DivProduct
  <2>5. a[i] * Weight(i) = Weight(i) * a[i]
    BY <2>1, <2>3 DEF Positive
  <2>6. up[i + 1] = v % Weight(i + 1)
    BY <2>1, <2>2, <2>3, <2>4, <2>5
  <2>7. QED
    BY <2>6, Limits
<1>4. up[Limbs] = v % Modulus
  <2> HIDE DEF S
  <2>1. \A i \in 0..Limbs : i \in S
    BY <1>2, <1>3, LimbInduction
  <2>2. Limbs \in S
    BY <2>1, Limits
  <2>3. QED
    BY <2>2, Weights DEF S
<1>5. a \in Uint
  <2>1. \A i \in Limb : a[i] \in 0..(WordBase - 1)
    <3>1. \A i \in Limb : WordBits * i \in Nat /\ WordBits \in Nat
      BY Limits, Places
    <3>2. QED
      BY <3>1, SliceType DEF WordBase
  <2>2. QED
    BY <2>1 DEF Uint
<1>6. QED
  BY <1>1, <1>4, <1>5

\* One word more.
LEMMA SumOfExcept ==
  ASSUME NEW a \in [Limb -> Int], NEW j \in Limb, NEW x \in Int
  PROVE  NumberOf([a EXCEPT ![j] = @ + x]) = NumberOf(a) + x * Weight(j)
<1> DEFINE b == [a EXCEPT ![j] = @ + x]
<1>1. b \in [Limb -> Int] /\ b[j] = a[j] + x /\ \A i \in Limb : i # j => b[i] = a[i]
  OBVIOUS
<1> HIDE DEF b
<1>2. PICK up : Partial(a, up) /\ NumberOf(a) = up[Limbs]
  BY SumPartial
<1>3. PICK vp : Partial(b, vp) /\ NumberOf(b) = vp[Limbs]
  BY <1>1, SumPartial
<1> DEFINE m == x * Weight(j)
           S == {i \in 0..Limbs : vp[i] = up[i] + (IF i > j THEN m ELSE 0)}
<1>4. 0 \in S
  BY <1>2, <1>3, Limits DEF Partial
<1>5. ASSUME NEW i \in Limb, i \in S
      PROVE  i + 1 \in S
  <2>0. i \in Nat /\ j \in Nat /\ Weight(i) \in Int /\ up[i] \in Int /\ m \in Int
        /\ a[i] * Weight(i) \in Int
    <3>1. i \in Nat /\ j \in Nat
      BY Limits
    <3>2. Weight(i) \in Int /\ Weight(j) \in Int
      BY <3>1, Weights DEF Positive
    <3>3. up[i] \in Int
      BY <1>2, Limits DEF Partial
    <3>4. m \in Int /\ a[i] * Weight(i) \in Int
      BY <3>2
    <3>5. QED
      BY <3>1, <3>2, <3>3, <3>4
  <2> HIDE DEF m
  <2>1. up[i + 1] = up[i] + a[i] * Weight(i) /\ vp[i + 1] = vp[i] + b[i] * Weight(i)
    BY <1>2, <1>3 DEF Partial
  <2>2. vp[i] = up[i] + (IF i > j THEN m ELSE 0)
    BY <1>5
  <2>3. CASE i = j
    <3>1. b[i] * Weight(i) = a[i] * Weight(i) + m
      BY <1>1, <2>0, <2>3 DEF m
    <3>2. QED
      BY <2>0, <2>1, <2>2, <2>3, <3>1, Limits
  <2>4. CASE i # j
    BY <1>1, <2>0, <2>1, <2>2, <2>4, Limits
  <2>5. QED
    BY <2>3, <2>4
<1>6. vp[Limbs] = up[Limbs] + m
  <2> HIDE DEF S
  <2>1. \A i \in 0..Limbs : i \in S
    BY <1>4, <1>5, LimbInduction
  <2>2. Limbs \in S /\ Limbs > j
    BY <2>1, Limits
  <2> HIDE DEF m
  <2>3. QED
    BY <2>2 DEF S
<1>7. QED
  BY <1>2, <1>3, <1>6 DEF b

\* NumberOf is linear in the words, whatever integers they are.
LEMMA SumLinear ==
  ASSUME NEW a \in [Limb -> Int], NEW b \in [Limb -> Int], NEW x \in Int, NEW y \in Int
  PROVE  NumberOf([i \in Limb |-> x * a[i] + y * b[i]]) = x * NumberOf(a) + y * NumberOf(b)
<1> DEFINE d == [i \in Limb |-> x * a[i] + y * b[i]]
<1>0. d \in [Limb -> Int] /\ \A i \in Limb : d[i] = x * a[i] + y * b[i]
  OBVIOUS
<1> HIDE DEF d
<1>1. PICK up : Partial(a, up) /\ NumberOf(a) = up[Limbs]
  BY SumPartial
<1>2. PICK vp : Partial(b, vp) /\ NumberOf(b) = vp[Limbs]
  BY SumPartial
<1>3. PICK wp : Partial(d, wp) /\ NumberOf(d) = wp[Limbs]
  BY <1>0, SumPartial
<1> DEFINE S == {i \in 0..Limbs : wp[i] = x * up[i] + y * vp[i]}
<1>4. 0 \in S
  BY <1>1, <1>2, <1>3, Limits DEF Partial
<1>5. ASSUME NEW i \in Limb, i \in S
      PROVE  i + 1 \in S
  <2> DEFINE w == Weight(i)
             p == a[i]
             q == b[i]
             u == up[i]
             v == vp[i]
  <2>1. w \in Int /\ p \in Int /\ q \in Int /\ u \in Int /\ v \in Int
    <3>1. w \in Positive
      BY Limits, Weights
    <3>2. u \in Int /\ v \in Int
      BY <1>1, <1>2, Limits DEF Partial
    <3>3. QED
      BY <3>1, <3>2 DEF Positive
  <2>2. /\ up[i + 1] = u + p * w /\ vp[i + 1] = v + q * w
        /\ wp[i + 1] = (x * u + y * v) + (x * p + y * q) * w
    BY <1>0, <1>1, <1>2, <1>3, <1>5 DEF Partial
  <2> HIDE DEF w, p, q, u, v
  <2>3. /\ x * (u + p * w) = x * u + (x * p) * w
        /\ y * (v + q * w) = y * v + (y * q) * w
    BY <2>1
  <2>4. (x * p + y * q) * w = (x * p) * w + (y * q) * w
    BY <2>1
  <2>5. x * u \in Int /\ y * v \in Int /\ (x * p) * w \in Int /\ (y * q) * w \in Int
    BY <2>1
  <2>6. wp[i + 1] = x * up[i + 1] + y * vp[i + 1]
    BY <2>2, <2>3, <2>4, <2>5
  <2>7. QED
    BY <2>6, Limits
<1>6. QED
  <2> HIDE DEF S
  <2>1. \A i \in 0..Limbs : i \in S
    BY <1>4, <1>5, LimbInduction
  <2>2. Limbs \in S
    BY <2>1, Limits
  <2>3. QED
    BY <1>1, <1>2, <1>3, <2>2 DEF S, d

\* What the loop of carries leaves is the sum of its terms, modulo the capacity.
LEMMA CarriedSum ==
  ASSUME NEW d \in [Limb -> Int]
  PROVE  Carried(d) \in Uint /\ NumberOf(Carried(d)) = NumberOf(d) % Modulus
<1> DEFINE Is(c) == c = [i \in 0..Limbs |->
                           IF i = 0 THEN 0 ELSE (d[i - 1] + c[i - 1]) \div WordBase]
           carry == CHOOSE c : Is(c)
           r == [i \in Limb |-> (d[i] + carry[i]) % WordBase]
<1>0. Limb = 0..(Limbs - 1) /\ WordBase \in Positive /\ WordBase \in Nat \ {0}
  BY Sizes DEF Limb, Positive
<1>1. \E c : Is(c)
  <2> DEFINE z == 0
             step == [n \in Nat |-> [x \in Int |->
                        IF n - 1 \in Limb THEN (d[n - 1] + x) \div WordBase ELSE 0]]
  <2>1. z \in Int /\ step \in [Nat -> [Int -> Int]]
    <3>1. \A n \in Nat, x \in Int :
            (IF n - 1 \in Limb THEN (d[n - 1] + x) \div WordBase ELSE 0) \in Int
      <4>1. \A y \in Int : y \div WordBase \in Int
        BY <1>0
      <4>2. QED
        BY <4>1
    <3>2. QED
      BY <3>1
  <2>2. \E f \in [Nat -> Int] : f[0] = z /\ \A n \in Nat : f[n + 1] = step[n + 1][f[n]]
    <3> HIDE DEF z, step
    <3>1. QED
      BY <2>1, IntRecursion
  <2>3. PICK f \in [Nat -> Int] : f[0] = 0 /\ \A n \in Nat : f[n + 1] = step[n + 1][f[n]]
    <3> HIDE DEF step
    <3>1. QED
      BY <2>2 DEF z
  <2> DEFINE g == [i \in 0..Limbs |-> f[i]]
  <2>4. ASSUME NEW i \in 0..Limbs
        PROVE  g[i] = IF i = 0 THEN 0 ELSE (d[i - 1] + g[i - 1]) \div WordBase
    <3>1. CASE i = 0
      BY <2>3, <3>1
    <3>2. CASE i # 0
      <4> DEFINE j == i - 1
      <4>1. j \in Limb /\ j \in Nat /\ j + 1 = i /\ j \in 0..Limbs /\ (j + 1) - 1 = j
        BY <1>0, <3>2, Limits
      <4> HIDE DEF j
      <4>2. f[j + 1] = step[j + 1][f[j]] /\ f[j] \in Int
        <5> HIDE DEF step
        <5>1. QED
          BY <2>3, <4>1
      <4>3. f[j + 1] = (d[j] + f[j]) \div WordBase
        BY <4>1, <4>2
      <4>4. g[i] = (d[j] + g[j]) \div WordBase
        BY <4>1, <4>3
      <4>5. QED
        BY <3>2, <4>4 DEF j
    <3>3. QED
      BY <3>1, <3>2
  <2> HIDE DEF g
  <2>5. g = [i \in 0..Limbs |-> g[i]]
    BY DEF g
  <2>6. Is(g)
    BY <2>4, <2>5
  <2>7. QED
    <3> HIDE DEF Is
    <3>1. QED
      BY <2>6
<1>2. Is(carry)
  <2> HIDE DEF Is
  <2>1. QED
    BY <1>1
<1>3. Carried(d) = r
  BY DEF Carried
<1> HIDE DEF carry
<1>4. carry[0] = 0 /\ \A i \in Limb : carry[i + 1] = (d[i] + carry[i]) \div WordBase
  <2>1. \A i \in 0..Limbs : carry[i] =
          IF i = 0 THEN 0 ELSE (d[i - 1] + carry[i - 1]) \div WordBase
    BY <1>2
  <2>2. \A i \in Limb : i + 1 \in 0..Limbs /\ i + 1 # 0 /\ (i + 1) - 1 = i
    BY Limits
  <2>3. QED
    BY <2>1, <2>2, Limits
<1>5. \A i \in 0..Limbs : carry[i] \in Int
  <2> DEFINE S == {i \in 0..Limbs : carry[i] \in Int}
  <2>1. 0 \in S
    BY <1>4, Limits
  <2>2. ASSUME NEW i \in Limb, i \in S
        PROVE  i + 1 \in S
    <3>1. d[i] + carry[i] \in Int
      BY <2>2
    <3>2. (d[i] + carry[i]) \div WordBase \in Int
      BY <1>0, <3>1
    <3>3. QED
      BY <1>4, <3>2, Limits
  <2>3. \A i \in 0..Limbs : i \in S
    <3> HIDE DEF S
    <3>1. QED
      BY <2>1, <2>2, LimbInduction
  <2>4. QED
    BY <2>3
<1>6. ASSUME NEW i \in Limb
      PROVE  /\ r[i] \in 0..(WordBase - 1) /\ r[i] \in Int
             /\ d[i] + carry[i] = WordBase * carry[i + 1] + r[i]
             /\ d[i] \in Int /\ carry[i] \in Int /\ carry[i + 1] \in Int
  <2>1. d[i] \in Int /\ carry[i] \in Int /\ carry[i + 1] \in Int
    BY <1>5, Limits
  <2>2. d[i] + carry[i] \in Int
    BY <2>1
  <2>3. r[i] \in 0..(WordBase - 1)
        /\ d[i] + carry[i] = WordBase * ((d[i] + carry[i]) \div WordBase) + r[i]
    BY <1>0, <2>2, DivMod
  <2>4. QED
    BY <1>4, <2>1, <2>3
<1>7. r \in Uint /\ r \in [Limb -> Int]
  <2>1. r = [i \in Limb |-> r[i]]
    OBVIOUS
  <2> HIDE DEF r
  <2>2. QED
    BY <1>6, <2>1 DEF Uint
<1> HIDE DEF r
<1>8. PICK up : Partial(r, up) /\ NumberOf(r) = up[Limbs]
  BY <1>7, SumPartial
<1>9. PICK vp : Partial(d, vp) /\ NumberOf(d) = vp[Limbs]
  BY SumPartial
<1> DEFINE S == {i \in 0..Limbs : vp[i] = up[i] + Weight(i) * carry[i]}
<1>10. 0 \in S
  <2>1. vp[0] = 0 /\ up[0] = 0 /\ carry[0] = 0
    BY <1>4, <1>8, <1>9 DEF Partial
  <2>2. vp[0] = up[0] + Weight(0) * carry[0]
    BY <2>1, Weights
  <2>3. QED
    BY <2>2, Limits
<1>11. ASSUME NEW i \in Limb, i \in S
       PROVE  i + 1 \in S
  <2> DEFINE w == Weight(i)
             c == carry[i]
             n == carry[i + 1]
             e == d[i]
             x == r[i]
             u == up[i]
  <2>1. w \in Int /\ c \in Int /\ n \in Int /\ e \in Int /\ x \in Int /\ u \in Int
        /\ WordBase \in Int /\ e + c = WordBase * n + x
    <3>1. w \in Positive
      BY Limits, Weights
    <3>2. u \in Int
      BY <1>8, Limits DEF Partial
    <3>3. QED
      BY <1>0, <1>6, <3>1, <3>2 DEF Positive
  <2>2. Weight(i + 1) = w * WordBase
    BY Limits, Weights
  <2>3. up[i + 1] = u + x * w /\ vp[i + 1] = (u + w * c) + e * w
    BY <1>8, <1>9, <1>11 DEF Partial
  <2> HIDE DEF w, c, n, e, x, u
  <2>4. w * c + e * w = w * (e + c)
    BY <2>1
  <2>5. w * (WordBase * n + x) = (w * WordBase) * n + x * w
    BY <2>1
  <2>6. w * c \in Int /\ e * w \in Int /\ x * w \in Int /\ (w * WordBase) * n \in Int
    BY <2>1
  <2>7. vp[i + 1] = up[i + 1] + Weight(i + 1) * n
    BY <2>1, <2>2, <2>3, <2>4, <2>5, <2>6
  <2>8. QED
    BY <2>7, Limits DEF n
<1>12. vp[Limbs] = Modulus * carry[Limbs] + up[Limbs]
  <2> HIDE DEF S
  <2>1. \A i \in 0..Limbs : i \in S
    BY <1>10, <1>11, LimbInduction
  <2>2. Limbs \in S
    BY <2>1, Limits
  <2>3. vp[Limbs] = up[Limbs] + Modulus * carry[Limbs]
    BY <2>2, Weights DEF S
  <2>4. up[Limbs] \in Int /\ carry[Limbs] \in Int /\ Modulus * carry[Limbs] \in Int
    BY <1>5, <1>8, Limits, Sizes DEF Partial, Positive
  <2>5. QED
    BY <2>3, <2>4
<1>13. NumberOf(r) \in 0..(Modulus - 1)
  BY <1>7, DigitsOfSum
<1>14. NumberOf(d) % Modulus = NumberOf(r)
  <2>1. carry[Limbs] \in Int /\ vp[Limbs] \in Int /\ Modulus \in Positive
    BY <1>5, <1>9, Limits, Sizes DEF Partial
  <2>2. QED
    BY <1>8, <1>9, <1>12, <1>13, <2>1, DivIs
<1>15. QED
  BY <1>3, <1>7, <1>14

----------------------------------------------------------------------------
(* What each operation does to the number.                                 *)

\* The integer a stands for; its words are determined by it.
IsNumber(a, v) == a \in Uint /\ v \in 0..(Modulus - 1) /\ NumberOf(a) = v

\* The words of a number are its digits.
LEMMA NumberDigits ==
  ASSUME NEW a, NEW v, IsNumber(a, v)
  PROVE  /\ a \in Uint /\ v \in Nat /\ v < Modulus
         /\ a \in [Limb -> Int] /\ \A i \in Limb : a[i] \in Nat /\ a[i] < WordBase
         /\ \A i \in Limb : a[i] = Slice(v, WordBits * i, WordBits)
<1>1. a \in Uint /\ NumberOf(a) = v /\ v \in 0..(Modulus - 1) /\ Modulus \in Nat
  BY Sizes DEF IsNumber, Positive
<1>2. QED
  BY <1>1, DigitsOfSum, UintType

\* A number has one representation.
LEMMA SameNumber ==
  ASSUME NEW a, NEW b, NEW v, IsNumber(a, v), IsNumber(b, v)
  PROVE  a = b
<1>1. \A i \in Limb : a[i] = b[i]
  BY NumberDigits
<1>2. a \in Uint /\ b \in Uint
  BY DEF IsNumber
<1>3. QED
  BY <1>1, <1>2 DEF Uint

\* Words that are the digits of v.
LEMMA NumberOfDigits ==
  ASSUME NEW v \in Int, NEW a,
         DOMAIN a = Limb, a = [i \in Limb |-> a[i]],
         \A i \in Limb : a[i] = Slice(v, WordBits * i, WordBits)
  PROVE  IsNumber(a, v % Modulus)
<1>1. \A i \in Limb : a[i] \in Int
  <2>1. \A i \in Limb : WordBits * i \in Nat /\ WordBits \in Nat
    BY Limits, Places
  <2>2. QED
    BY <2>1, SliceType
<1>2. a \in [Limb -> Int]
  BY <1>1
<1>3. v % Modulus \in 0..(Modulus - 1)
  BY DivMod, Sizes
<1>4. QED
  BY <1>2, <1>3, SumOfDigits DEF IsNumber

\* A number that fits is not changed by the modulus.
LEMMA SmallModulus ==
  ASSUME NEW v \in Nat, v < Modulus
  PROVE  v % Modulus = v
<1>1. v = Modulus * 0 + v /\ v \in 0..(Modulus - 1)
  BY Sizes DEF Positive
<1>2. QED
  BY <1>1, DivIs, Sizes

\* Words beyond the number's are 0.
LEMMA HighSlice ==
  ASSUME NEW v \in Nat, NEW n \in Nat, v < Pow2[n], NEW k \in Nat, NEW w \in Nat, k >= n
  PROVE  Slice(v, k, w) = 0
<1>1. k - n \in Nat /\ Pow2[n + (k - n)] = Pow2[n] * Pow2[k - n] /\ n + (k - n) = k
  BY Pow2Sum
<1>2. Pow2[n] \in Positive /\ Pow2[k - n] \in Positive /\ Pow2[w] \in Positive
      /\ Pow2[k] \in Positive
  BY <1>1, Pow2Positive
<1>3. v < Pow2[k]
  <2>1. Pow2[n] * Pow2[k - n] >= Pow2[n]
    BY <1>2 DEF Positive
  <2>2. QED
    BY <1>1, <1>2, <2>1 DEF Positive
<1>4. v \div Pow2[k] = 0
  <2>1. v = Pow2[k] * 0 + v /\ v \in 0..(Pow2[k] - 1)
    BY <1>2, <1>3 DEF Positive
  <2>2. QED
    BY <1>2, <2>1, DivIs
<1>5. 0 % Pow2[w] = 0
  <2>1. 0 = Pow2[w] * 0 + 0 /\ 0 \in 0..(Pow2[w] - 1)
    BY <1>2 DEF Positive
  <2>2. QED
    BY <1>2, <2>1, DivIs
<1>6. QED
  BY <1>4, <1>5 DEF Slice

\* arith_uint256(v) is v.
LEMMA SmallIs ==
  ASSUME NEW v \in 0..(WordBase - 1)
  PROVE  IsNumber(Small(v), v) /\ v < Modulus
<1>0. v \in Nat /\ v < WordBase /\ WordBits \in Nat /\ WordBase = Pow2[WordBits]
  BY Sizes DEF Positive
<1>1. ASSUME NEW i \in Limb
      PROVE  Small(v)[i] = Slice(v, WordBits * i, WordBits)
  <2>1. CASE i = 0
    <3>1. Small(v)[i] = v
      BY <2>1 DEF Small, Zero
    <3>2. v \div 1 = v
      BY <1>0
    <3>3. v % WordBase = v
      <4>1. v = WordBase * 0 + v
        BY <1>0, Sizes DEF Positive
      <4>2. QED
        BY <4>1, DivIs, Sizes
    <3>4. WordBits * 0 = 0
      BY <1>0
    <3>5. QED
      BY <1>0, <2>1, <3>1, <3>2, <3>3, <3>4, Pow2Def DEF Slice
  <2>2. CASE i # 0
    <3>1. Small(v)[i] = 0
      BY <2>2 DEF Small, Zero
    <3>2. WordBits * i \in Nat /\ WordBits * i >= WordBits
      BY <1>0, <2>2, Limits
    <3>3. QED
      BY <1>0, <3>1, <3>2, HighSlice
  <2>3. QED
    BY <2>1, <2>2
<1>2. v < Modulus
  <2>1. Size >= WordBits /\ Size - WordBits \in Nat /\ WordBits + (Size - WordBits) = Size
    BY Sizes DEF Positive
  <2>2. Modulus = WordBase * Pow2[Size - WordBits] /\ Pow2[Size - WordBits] \in Positive
    BY <1>0, <2>1, Pow2Sum, Pow2Positive, Sizes
  <2>3. Modulus >= WordBase
    BY <2>2, Sizes DEF Positive
  <2>4. QED
    BY <1>0, <2>3, Sizes DEF Positive
<1>3. Small(v) = [i \in Limb |-> Small(v)[i]] /\ DOMAIN Small(v) = Limb
  BY DEF Small, Zero
<1>4. IsNumber(Small(v), v % Modulus)
  BY <1>0, <1>1, <1>3, NumberOfDigits
<1>5. QED
  BY <1>0, <1>2, <1>4, SmallModulus

\* IsZero recognises zero.
LEMMA ZeroIs ==
  IsNumber(Zero, 0) /\ \A a : a \in Uint => (IsZero(a) <=> NumberOf(a) = 0)
<1>1. Zero = Small(0) /\ 0 \in 0..(WordBase - 1)
  BY Sizes DEF Small, Zero, Positive
<1>2. IsNumber(Zero, 0)
  BY <1>1, SmallIs
<1>3. ASSUME NEW a \in Uint
      PROVE  IsZero(a) <=> NumberOf(a) = 0
  <2>1. ASSUME IsZero(a)
        PROVE  NumberOf(a) = 0
    <3>1. a = Zero
      BY <2>1 DEF IsZero, Zero, Uint
    <3>2. QED
      BY <1>2, <3>1 DEF IsNumber
  <2>2. ASSUME NumberOf(a) = 0
        PROVE  IsZero(a)
    <3>1. IsNumber(a, 0)
      BY <1>2, <2>2 DEF IsNumber
    <3>2. a = Zero
      BY <1>2, <3>1, SameNumber
    <3>3. QED
      BY <3>2 DEF IsZero, Zero
  <2>3. QED
    BY <2>1, <2>2
<1>4. QED
  BY <1>2, <1>3

\* The highest word that differs decides.
LEMMA LessIs ==
  ASSUME NEW a \in Uint, NEW b \in Uint
  PROVE  Less(a, b) <=> NumberOf(a) < NumberOf(b)
<1>0. /\ a \in [Limb -> Int] /\ \A i \in Limb : a[i] \in Nat /\ a[i] < WordBase
      /\ b \in [Limb -> Int] /\ \A i \in Limb : b[i] \in Nat /\ b[i] < WordBase
  BY UintType
<1>1. PICK up : Partial(a, up) /\ NumberOf(a) = up[Limbs]
  BY <1>0, SumPartial
<1>2. PICK vp : Partial(b, vp) /\ NumberOf(b) = vp[Limbs]
  BY <1>0, SumPartial
<1> DEFINE Below(n) == \E i \in Limb :
             i < n /\ a[i] < b[i] /\ \A j \in Limb : i < j /\ j < n => a[j] = b[j]
           S == {n \in 0..Limbs : /\ up[n] \in 0..(Weight(n) - 1)
                                  /\ vp[n] \in 0..(Weight(n) - 1)
                                  /\ Below(n) <=> up[n] < vp[n]}
<1>3. 0 \in S
  <2>1. ~Below(0)
    BY Limits
  <2>2. up[0] = 0 /\ vp[0] = 0 /\ Weight(0) = 1 /\ 0 \in 0..Limbs
    BY <1>1, <1>2, Weights, Limits DEF Partial
  <2> HIDE DEF Below
  <2>3. QED
    BY <2>1, <2>2
<1>4. ASSUME NEW n \in Limb, n \in S
      PROVE  n + 1 \in S
  <2> DEFINE w == Weight(n)
             x == a[n]
             y == b[n]
             u == up[n]
             v == vp[n]
  <2>1. /\ w \in Nat /\ w > 0 /\ x \in Nat /\ y \in Nat /\ x <= WordBase - 1 /\ y <= WordBase - 1
        /\ u \in Nat /\ u < w /\ v \in Nat /\ v < w /\ WordBase \in Nat
        /\ n \in Nat /\ Weight(n + 1) = w * WordBase
    <3>1. n \in Nat /\ w \in Positive /\ Weight(n + 1) = w * WordBase /\ WordBase \in Positive
      BY Limits, Weights, Sizes
    <3>2. u \in 0..(w - 1) /\ v \in 0..(w - 1)
      BY <1>4
    <3>3. x \in Nat /\ y \in Nat /\ x < WordBase /\ y < WordBase
      BY <1>0
    <3> HIDE DEF w, x, y, u, v
    <3>4. QED
      BY <3>1, <3>2, <3>3 DEF Positive
  <2>2. up[n + 1] = u + x * w /\ vp[n + 1] = v + y * w
    BY <1>1, <1>2 DEF Partial
  <2>3. Below(n) <=> u < v
    BY <1>4
  <2>4. Below(n + 1) <=> x < y \/ (x = y /\ Below(n))
    <3>1. \A j \in Limb : j < n + 1 <=> j < n \/ j = n
      BY <2>1, Limits
    <3>2. ASSUME Below(n + 1)
          PROVE  x < y \/ (x = y /\ Below(n))
      <4>1. PICK i \in Limb :
              i < n + 1 /\ a[i] < b[i] /\ \A j \in Limb : i < j /\ j < n + 1 => a[j] = b[j]
        BY <3>2
      <4>2. CASE i = n
        BY <4>1, <4>2
      <4>3. CASE i # n
        <5>1. i < n
          BY <3>1, <4>1, <4>3
        <5>2. x = y
          BY <3>1, <4>1, <5>1
        <5>3. Below(n)
          BY <3>1, <4>1, <5>1
        <5>4. QED
          BY <5>2, <5>3
      <4>4. QED
        BY <4>2, <4>3
    <3>3. ASSUME x < y
          PROVE  Below(n + 1)
      <4>1. \A j \in Limb : ~(n < j /\ j < n + 1)
        BY <2>1, Limits
      <4>2. n < n + 1 /\ a[n] < b[n]
        BY <2>1, <3>3
      <4>3. QED
        BY <4>1, <4>2
    <3>4. ASSUME x = y, Below(n)
          PROVE  Below(n + 1)
      <4>1. PICK i \in Limb :
              i < n /\ a[i] < b[i] /\ \A j \in Limb : i < j /\ j < n => a[j] = b[j]
        BY <3>4
      <4>2. \A j \in Limb : i < j /\ j < n + 1 => a[j] = b[j]
        BY <3>1, <3>4, <4>1
      <4>3. i < n + 1
        BY <3>1, <4>1
      <4>4. QED
        BY <4>1, <4>2, <4>3
    <3> HIDE DEF Below
    <3>5. QED
      BY <3>2, <3>3, <3>4
  <2> HIDE DEF Below, w, x, y, u, v
  <2>5. x * w \in Nat /\ y * w \in Nat /\ x * w <= w * WordBase - w /\ y * w <= w * WordBase - w
        /\ w * WordBase \in Nat
    <3>1. x * w \in Nat /\ y * w \in Nat /\ w * WordBase \in Nat
      BY <2>1
    <3>2. x * w <= (WordBase - 1) * w /\ y * w <= (WordBase - 1) * w
      BY <2>1
    <3>3. (WordBase - 1) * w = w * WordBase - w
      BY <2>1
    <3>4. QED
      BY <3>1, <3>2, <3>3
  <2>6. up[n + 1] \in 0..(Weight(n + 1) - 1) /\ vp[n + 1] \in 0..(Weight(n + 1) - 1)
    BY <2>1, <2>2, <2>5
  <2>7. up[n + 1] < vp[n + 1] <=> x < y \/ (x = y /\ u < v)
    <3>1. CASE x < y
      <4>1. x * w + w <= y * w
        BY <2>1, <3>1
      <4>2. QED
        BY <2>1, <2>2, <2>5, <3>1, <4>1
    <3>2. CASE x = y
      BY <2>1, <2>2, <2>5, <3>2
    <3>3. CASE y < x
      <4>1. y * w + w <= x * w
        BY <2>1, <3>3
      <4>2. QED
        BY <2>1, <2>2, <2>5, <3>3, <4>1
    <3>4. QED
      BY <2>1, <3>1, <3>2, <3>3
  <2>8. Below(n + 1) <=> up[n + 1] < vp[n + 1]
    BY <2>3, <2>4, <2>7
  <2>9. QED
    BY <2>6, <2>8, Limits
<1>5. Below(Limbs) <=> up[Limbs] < vp[Limbs]
  <2> HIDE DEF S
  <2>1. \A n \in 0..Limbs : n \in S
    BY <1>3, <1>4, LimbInduction
  <2>2. Limbs \in S
    BY <2>1, Limits
  <2> HIDE DEF Below
  <2>3. QED
    BY <2>2 DEF S
<1>6. Below(Limbs) <=> Less(a, b)
  <2>1. \A i \in Limb : i < Limbs
    BY Limits
  <2>2. \A i \in Limb, j \in Limb : i < j <=> j > i
    BY Limits
  <2>3. QED
    BY <2>1, <2>2 DEF Less
<1>7. QED
  <2> HIDE DEF Below
  <2>1. QED
    BY <1>1, <1>2, <1>5, <1>6

\* The carry loop makes words of any integers, without a change to the number
\* but for what is carried out of the highest word.
LEMMA CarriedIs ==
  ASSUME NEW d \in [Limb -> Int], NEW v, NumberOf(d) = v
  PROVE  IsNumber(Carried(d), v % Modulus)
<1>1. Carried(d) \in Uint /\ NumberOf(Carried(d)) = v % Modulus
  BY CarriedSum
<1>2. v % Modulus \in 0..(Modulus - 1)
  BY <1>1, DigitsOfSum
<1>3. QED
  BY <1>1, <1>2 DEF IsNumber

\* operator+= adds.
LEMMA AddIs ==
  ASSUME NEW a, NEW b, NEW v, NEW w, IsNumber(a, v), IsNumber(b, w)
  PROVE  IsNumber(Add(a, b), (v + w) % Modulus)
<1> DEFINE d == [i \in Limb |-> a[i] + b[i]]
           x == 1
<1>1. a \in [Limb -> Int] /\ b \in [Limb -> Int] /\ v \in Int /\ w \in Int
      /\ NumberOf(a) = v /\ NumberOf(b) = w
  BY NumberDigits DEF IsNumber
<1>2. x \in Int /\ d \in [Limb -> Int] /\ d = [i \in Limb |-> x * a[i] + x * b[i]]
  BY <1>1
<1> HIDE DEF d, x
<1>3. NumberOf([i \in Limb |-> x * a[i] + x * b[i]]) = x * NumberOf(a) + x * NumberOf(b)
  <2>1. a \in [Limb -> Int] /\ b \in [Limb -> Int] /\ x \in Int /\ x \in Int
    BY <1>1, <1>2
  <2>2. QED
    BY ONLY <2>1, SumLinear, Zenon
<1>4. NumberOf(d) = v + w
  BY <1>1, <1>2, <1>3 DEF x
<1>5. QED
  BY <1>2, <1>4, CarriedIs DEF Add, d

\* operator-= subtracts, and wraps around below 0.
LEMMA SubIs ==
  ASSUME NEW a, NEW b, NEW v, NEW w, IsNumber(a, v), IsNumber(b, w)
  PROVE  IsNumber(Sub(a, b), (v - w) % Modulus)
<1> DEFINE d == [i \in Limb |-> a[i] - b[i]]
           x == 1
           m == -1
<1>1. a \in [Limb -> Int] /\ b \in [Limb -> Int] /\ v \in Int /\ w \in Int
      /\ NumberOf(a) = v /\ NumberOf(b) = w
  BY NumberDigits DEF IsNumber
<1>2. /\ x \in Int /\ m \in Int
      /\ d \in [Limb -> Int] /\ d = [i \in Limb |-> x * a[i] + m * b[i]]
  BY <1>1
<1> HIDE DEF d, x, m
<1>3. NumberOf([i \in Limb |-> x * a[i] + m * b[i]]) = x * NumberOf(a) + m * NumberOf(b)
  <2>1. a \in [Limb -> Int] /\ b \in [Limb -> Int] /\ x \in Int /\ m \in Int
    BY <1>1, <1>2
  <2>2. QED
    BY ONLY <2>1, SumLinear, Zenon
<1>4. NumberOf(d) = v - w
  BY <1>1, <1>2, <1>3 DEF x, m
<1>5. QED
  BY <1>2, <1>4, CarriedIs DEF Sub, d

\* operator*= multiplies.
LEMMA MulIs ==
  ASSUME NEW a, NEW v, IsNumber(a, v), NEW f \in Nat
  PROVE  IsNumber(Mul(a, f), (v * f) % Modulus)
<1> DEFINE d == [i \in Limb |-> a[i] * f]
           z == 0
<1>1. a \in [Limb -> Int] /\ v \in Int /\ NumberOf(a) = v
  BY NumberDigits DEF IsNumber
<1>2. /\ f \in Int /\ z \in Int
      /\ d \in [Limb -> Int] /\ d = [i \in Limb |-> f * a[i] + z * a[i]]
  <2>1. ASSUME NEW i \in Limb
        PROVE  a[i] * f = f * a[i] + z * a[i] /\ a[i] * f \in Int
    <3>1. a[i] \in Int
      BY <1>1
    <3>2. QED
      BY <3>1
  <2> HIDE DEF z
  <2>2. d \in [Limb -> Int] /\ d = [i \in Limb |-> f * a[i] + z * a[i]]
    BY <2>1
  <2>3. QED
    BY <2>2 DEF z
<1> HIDE DEF d, z
<1>3. NumberOf([i \in Limb |-> f * a[i] + z * a[i]]) = f * NumberOf(a) + z * NumberOf(a)
  <2>1. a \in [Limb -> Int] /\ f \in Int /\ z \in Int
    BY <1>1, <1>2
  <2>2. QED
    BY ONLY <2>1, SumLinear, Zenon
<1>4. NumberOf(d) = v * f
  BY <1>1, <1>2, <1>3 DEF z
<1>5. QED
  BY <1>2, <1>4, CarriedIs DEF Mul, d

\* operator~ subtracts from 2^Size - 1.
LEMMA ComplementIs ==
  ASSUME NEW a, NEW v, IsNumber(a, v)
  PROVE  IsNumber(Complement(a), Modulus - 1 - v)
<1> DEFINE b == Complement(a)
<1>1. /\ a \in [Limb -> Int] /\ \A i \in Limb : a[i] \in Nat /\ a[i] < WordBase
      /\ v \in Nat /\ v < Modulus /\ NumberOf(a) = v
  BY NumberDigits DEF IsNumber
<1>2. b \in Uint /\ \A i \in Limb : b[i] = WordBase - 1 - a[i]
  <2>1. \A i \in Limb : a[i] \in Nat /\ a[i] < WordBase
    BY <1>1
  <2>2. WordBase \in Nat
    BY Sizes DEF Positive
  <2>3. \A i \in Limb : WordBase - 1 - a[i] \in 0..(WordBase - 1)
    BY <2>1, <2>2
  <2>4. QED
    BY <2>3 DEF Complement, Uint
<1> HIDE DEF b
<1>3. b \in [Limb -> Int]
  BY <1>2, UintType
<1>4. PICK up : Partial(a, up) /\ NumberOf(a) = up[Limbs]
  BY <1>1, SumPartial
<1>5. PICK vp : Partial(b, vp) /\ NumberOf(b) = vp[Limbs]
  BY <1>3, SumPartial
<1> DEFINE S == {i \in 0..Limbs : vp[i] = Weight(i) - 1 - up[i]}
<1>6. 0 \in S
  <2>1. vp[0] = 0 /\ up[0] = 0 /\ Weight(0) = 1
    BY <1>4, <1>5, Weights DEF Partial
  <2>2. vp[0] = Weight(0) - 1 - up[0]
    BY <2>1
  <2>3. QED
    BY <2>2, Limits
<1>7. ASSUME NEW i \in Limb, i \in S
      PROVE  i + 1 \in S
  <2> DEFINE w == Weight(i)
             x == a[i]
             u == up[i]
  <2>1. w \in Int /\ x \in Int /\ u \in Int /\ WordBase \in Int
    <3>1. w \in Positive
      BY Limits, Weights
    <3>2. u \in Int
      BY <1>4, Limits DEF Partial
    <3>3. QED
      BY <1>1, <3>1, <3>2, Sizes DEF Positive
  <2>2. Weight(i + 1) = w * WordBase
    BY Limits, Weights
  <2>3. up[i + 1] = u + x * w /\ vp[i + 1] = (w - 1 - u) + (WordBase - 1 - x) * w
    BY <1>2, <1>4, <1>5, <1>7 DEF Partial
  <2> HIDE DEF w, x, u
  <2>4. (WordBase - 1 - x) * w = w * WordBase - w - x * w
        /\ x * w \in Int /\ w * WordBase \in Int
    BY <2>1
  <2>5. vp[i + 1] = Weight(i + 1) - 1 - up[i + 1]
    BY <2>1, <2>2, <2>3, <2>4
  <2>6. QED
    BY <2>5, Limits
<1>8. NumberOf(b) = Modulus - 1 - v
  <2> HIDE DEF S
  <2>1. \A i \in 0..Limbs : i \in S
    BY <1>6, <1>7, LimbInduction
  <2>2. Limbs \in S
    BY <2>1, Limits
  <2>3. vp[Limbs] = Weight(Limbs) - 1 - up[Limbs]
    BY <2>2 DEF S
  <2>4. /\ NumberOf(b) = vp[Limbs] /\ NumberOf(a) = up[Limbs]
        /\ NumberOf(a) = v /\ Weight(Limbs) = Modulus
    BY <1>1, <1>4, <1>5, Weights
  <2>5. QED
    BY <2>3, <2>4
<1>9. Modulus - 1 - v \in 0..(Modulus - 1)
  <2>1. Modulus \in Nat
    BY Sizes DEF Positive
  <2>2. v \in Nat /\ v < Modulus
    BY <1>1
  <2>3. QED
    BY <2>1, <2>2
<1>10. QED
  BY <1>2, <1>8, <1>9 DEF b, IsNumber

----------------------------------------------------------------------------
(* Shifts.                                                                 *)

\* A shifted slice is an integer.
LEMMA ScaledSlice ==
  ASSUME NEW v \in Int, NEW k \in Nat, NEW w \in Nat, NEW n \in Nat
  PROVE  Pow2[n] * Slice(v, k, w) \in Int
<1>1. Slice(v, k, w) \in Nat
  BY SliceType
<1>2. Pow2[n] \in Nat
  BY Pow2Def
<1>3. QED
  BY <1>1, <1>2

\* A slice of no bits is 0.
LEMMA SliceNone ==
  ASSUME NEW v \in Int, NEW k \in Nat
  PROVE  Slice(v, k, 0) = 0
<1>1. v \div Pow2[k] \in Int
  BY DivMod, Pow2Positive
<1>2. \A x \in Int : x % 1 = 0
  OBVIOUS
<1>3. QED
  BY <1>1, <1>2, Pow2Def DEF Slice

\* A word is a slice of the number, those below the lowest word are 0.
LEMMA AtIs ==
  ASSUME NEW a, NEW v, IsNumber(a, v), NEW j \in Int
  PROVE  At(a, j) = IF j < 0 THEN 0 ELSE Slice(v, WordBits * j, WordBits)
<1>1. CASE j \in Limb
  BY <1>1, NumberDigits, Limits DEF At
<1>2. CASE j \notin Limb /\ j < 0
  BY <1>2 DEF At
<1>3. CASE j \notin Limb /\ ~(j < 0)
  <2>1. j \in Nat /\ j >= Limbs
    BY <1>3, Limits DEF Limb
  <2>2. WordBits * j \in Nat /\ WordBits \in Nat /\ Size \in Nat
    BY <2>1, Places, Sizes DEF Positive
  <2>3. WordBits * j >= WordBits * Limbs
    BY <2>1, Sizes DEF Positive
  <2>4. v \in Nat /\ v < Pow2[Size]
    BY NumberDigits, Sizes
  <2>5. Slice(v, WordBits * j, WordBits) = 0
    BY <2>2, <2>3, <2>4, HighSlice, Sizes
  <2>6. QED
    BY <1>3, <2>5 DEF At
<1>4. QED
  BY <1>1, <1>2, <1>3

\* What << leaves of a word: its lower bits, higher up.
LEMMA WordShlIs ==
  ASSUME NEW v \in Int, NEW p \in Nat, NEW k \in 0..WordBits
  PROVE  WordShl(Slice(v, p, WordBits), k) = Pow2[k] * Slice(v, p, WordBits - k)
<1> DEFINE s == Slice(v, p, WordBits)
           m == WordBits - k
<1>1. k \in Nat /\ m \in Nat /\ k + m = WordBits /\ WordBits \in Nat /\ 0 + m <= WordBits
      /\ p + 0 = p
  BY Places
<1>2. s \in Int
  BY <1>1, SliceType
<1>3. WordBase = Pow2[k] * Pow2[m] /\ Pow2[k] \in Positive /\ Pow2[m] \in Positive
  BY <1>1, Pow2Sum, Pow2Positive DEF WordBase
<1>4. s * Pow2[k] = Pow2[k] * s
  BY <1>2, <1>3 DEF Positive
<1>5. (Pow2[k] * s) % (Pow2[k] * Pow2[m]) = Pow2[k] * (s % Pow2[m])
  <2> HIDE DEF s, m
  <2>1. QED
    BY <1>2, <1>3, DivCommon
<1>6. s % Pow2[m] = Slice(v, p, m)
  <2>1. Slice(s, 0, m) = Slice(v, p + 0, m)
    BY <1>1, SliceOfSlice
  <2>2. s \div 1 = s
    BY <1>2
  <2>3. Slice(s, 0, m) = s % Pow2[m]
    BY <2>2, Pow2Def DEF Slice
  <2>4. QED
    BY <1>1, <2>1, <2>3
<1>7. QED
  BY <1>3, <1>4, <1>5, <1>6 DEF WordShl

\* What >> leaves of a word: its upper bits.
LEMMA WordShrIs ==
  ASSUME NEW v \in Int, NEW p \in Nat, NEW k \in 0..WordBits
  PROVE  WordShr(Slice(v, p, WordBits), k) = Slice(v, p + k, WordBits - k)
<1> DEFINE x == v \div Pow2[p]
           m == WordBits - k
<1>1. k \in Nat /\ m \in Nat /\ k + m = WordBits
  BY Places
<1>2. x \in Int
  BY DivMod, Pow2Positive
<1>3. WordBase = Pow2[k] * Pow2[m] /\ Pow2[k] \in Positive /\ Pow2[m] \in Positive
  BY <1>1, Pow2Sum, Pow2Positive DEF WordBase
<1>4. (x % (Pow2[k] * Pow2[m])) \div Pow2[k] = (x \div Pow2[k]) % Pow2[m]
  <2> HIDE DEF x, m
  <2>1. QED
    BY <1>2, <1>3, DivProduct
<1>5. x \div Pow2[k] = v \div Pow2[p + k]
  BY <1>1, DivDiv
<1>6. QED
  BY <1>3, <1>4, <1>5 DEF Slice, WordShr, WordBase

\* A slice of a shifted number is a slice of the number, or of the zeros
\* shifted in.
LEMMA SliceOfProduct ==
  ASSUME NEW v \in Int, NEW n \in Nat, NEW k \in Nat, NEW w \in Nat
  PROVE  /\ k >= n => Slice(v * Pow2[n], k, w) = Slice(v, k - n, w)
         /\ k + w <= n => Slice(v * Pow2[n], k, w) = 0
<1>1. ASSUME k >= n
      PROVE  Slice(v * Pow2[n], k, w) = Slice(v, k - n, w)
  <2> DEFINE m == k - n
  <2>1. m \in Nat /\ k = n + m
    BY <1>1
  <2>2. Pow2[k] = Pow2[n] * Pow2[m] /\ Pow2[n] \in Positive /\ Pow2[m] \in Positive
    BY <2>1, Pow2Sum, Pow2Positive
  <2> HIDE DEF m
  <2>3. (Pow2[n] * v) \div (Pow2[n] * Pow2[m]) = v \div Pow2[m]
    BY <2>2, DivCommon
  <2>4. v * Pow2[n] = Pow2[n] * v
    BY <2>2 DEF Positive
  <2>5. QED
    BY <2>2, <2>3, <2>4 DEF Slice, m
<1>2. ASSUME k + w <= n
      PROVE  Slice(v * Pow2[n], k, w) = 0
  <2> DEFINE m == n - (k + w)
             x == v * Pow2[m]
  <2>1. m \in Nat /\ n = k + (w + m) /\ w + m \in Nat
    BY <1>2
  <2>2. /\ Pow2[n] = Pow2[k] * (Pow2[w] * Pow2[m])
        /\ Pow2[k] \in Positive /\ Pow2[w] \in Positive /\ Pow2[m] \in Positive
    BY <2>1, Pow2Sum, Pow2Positive
  <2>3. x \in Int
    BY <2>2 DEF Positive
  <2>4. v * Pow2[n] = Pow2[k] * (Pow2[w] * x) + 0
    <3> DEFINE A == Pow2[k]
               B == Pow2[w]
               C == Pow2[m]
    <3>1. A \in Int /\ B \in Int /\ C \in Int
      BY <2>2 DEF Positive
    <3> HIDE DEF A, B, C
    <3>2. v * (A * (B * C)) = A * (B * (v * C))
      BY <3>1
    <3>3. A * (B * (v * C)) \in Int
      BY <3>1
    <3>4. QED
      BY <2>2, <3>2, <3>3 DEF A, B, C
  <2> HIDE DEF x, m
  <2>5. Pow2[w] * x \in Int /\ v * Pow2[n] \in Int /\ 0 \in 0..(Pow2[k] - 1)
        /\ 0 \in 0..(Pow2[w] - 1)
    BY <2>2, <2>3, Pow2Positive DEF Positive
  <2>6. (v * Pow2[n]) \div Pow2[k] = Pow2[w] * x
    BY <2>2, <2>4, <2>5, DivIs
  <2>7. (Pow2[w] * x) % Pow2[w] = 0
    <3>1. Pow2[w] * x = Pow2[w] * x + 0
      BY <2>5
    <3>2. QED
      BY <2>2, <2>3, <2>5, <3>1, DivIs
  <2>8. QED
    BY <2>6, <2>7 DEF Slice
<1>3. QED
  BY <1>1, <1>2

\* A shift by n is one by words and one by bits.
LEMMA ShiftParts ==
  ASSUME NEW n \in Nat
  PROVE  /\ n \div WordBits \in Nat /\ n % WordBits \in Nat /\ n % WordBits < WordBits
         /\ n = WordBits * (n \div WordBits) + (n % WordBits)
<1>1. WordBits \in Positive /\ WordBits \in Nat
  BY Sizes, Places
<1>2. /\ n \div WordBits \in Nat /\ n % WordBits \in 0..(WordBits - 1)
      /\ n = WordBits * (n \div WordBits) + (n % WordBits)
  <2> DEFINE c == WordBits
  <2> HIDE DEF c
  <2>1. c \in Positive /\ n \in Int
    BY <1>1 DEF c
  <2>2. n \div c \in Nat /\ n % c \in 0..(c - 1) /\ n = c * (n \div c) + (n % c)
    BY <2>1, DivMod
  <2>3. QED
    BY <2>2 DEF c
<1>3. QED
  BY <1>1, <1>2

\* 0 shifts to 0.
LEMMA WordShiftsOfZero ==
  ASSUME NEW k \in Nat
  PROVE  WordShl(0, k) = 0 /\ WordShr(0, k) = 0
<1>1. \A c \in Positive : 0 % c = 0 /\ 0 \div c = 0
  <2>1. ASSUME NEW c \in Positive
        PROVE  0 % c = 0 /\ 0 \div c = 0
    <3>1. 0 = c * 0 + 0 /\ 0 \in 0..(c - 1)
      BY DEF Positive
    <3>2. QED
      BY <3>1, DivIs
  <2>2. QED
    BY <2>1
<1>2. 0 * Pow2[k] = 0 /\ Pow2[k] \in Positive
  BY Pow2Positive DEF Positive
<1>3. QED
  BY <1>1, <1>2, Sizes DEF WordShl, WordShr

\* operator<<= multiplies by a power of 2: each word gets the lower bits of one
\* word and the upper bits of the next.
LEMMA ShlIs ==
  ASSUME NEW a, NEW v, IsNumber(a, v), NEW n \in Nat
  PROVE  IsNumber(Shl(a, n), (v * Pow2[n]) % Modulus)
<1> DEFINE words == n \div WordBits
           bits == n % WordBits
           x == v * Pow2[n]
           low(i) == WordShl(At(a, i - words), bits)
           high(i) == IF bits = 0 THEN 0 ELSE WordShr(At(a, i - words - 1), WordBits - bits)
           r == [i \in Limb |-> low(i) + high(i)]
<1>1. /\ words \in Nat /\ bits \in Nat /\ bits < WordBits /\ n = WordBits * words + bits
      /\ WordBits \in Nat /\ bits \in 0..WordBits /\ WordBits - bits \in 0..WordBits
      /\ WordBits - bits \in Nat /\ WordBits - (WordBits - bits) = bits
  BY ShiftParts, Places
<1>2. v \in Int /\ x \in Int
  BY NumberDigits, Pow2Positive DEF Positive
<1>3. Shl(a, n) = r
  BY DEF Shl
<1>4. ASSUME NEW i \in Limb
      PROVE  r[i] = Slice(x, WordBits * i, WordBits)
  <2> HIDE DEF words, bits
  <2>1. i \in Nat /\ r[i] = low(i) + high(i)
    BY Limits
  <2>2. WordBits * i \in Nat
    BY <2>1, Places
  <2>3. CASE i < words
    <3>1. At(a, i - words) = 0 /\ At(a, i - words - 1) = 0
      BY <1>1, <2>1, <2>3, AtIs
    <3>2. r[i] = 0
      BY <1>1, <2>1, <3>1, WordShiftsOfZero
    <3>3. WordBits * i + WordBits <= n
      <4>1. WordBits * (i + 1) <= WordBits * words
        BY <1>1, <2>1, <2>3
      <4>2. WordBits * (i + 1) = WordBits * i + WordBits /\ WordBits * words \in Nat
        BY <1>1, <2>1
      <4>3. QED
        BY <1>1, <2>2, <4>1, <4>2
    <3>4. QED
      BY <1>1, <1>2, <2>2, <3>2, <3>3, SliceOfProduct
  <2>4. CASE i = words
    <3>1. At(a, i - words) = Slice(v, 0, WordBits) /\ At(a, i - words - 1) = 0
      <4>1. i - words = 0 /\ i - words - 1 = -1 /\ WordBits * 0 = 0
        BY <1>1, <2>4
      <4>2. At(a, 0) = Slice(v, WordBits * 0, WordBits)
        BY AtIs
      <4>3. At(a, -1) = 0
        BY AtIs
      <4>4. QED
        BY <4>1, <4>2, <4>3
    <3>2. low(i) = Pow2[bits] * Slice(v, 0, WordBits - bits)
      BY <1>1, <1>2, <3>1, WordShlIs
    <3>3. high(i) = 0
      BY <1>1, <3>1, WordShiftsOfZero
    <3>4. WordBits * i + bits = n
      BY <1>1, <2>4
    <3>5. Slice(x, WordBits * i, bits + (WordBits - bits))
            = Slice(x, WordBits * i, bits)
                + Pow2[bits] * Slice(x, WordBits * i + bits, WordBits - bits)
      <4> HIDE DEF x
      <4>1. QED
        BY <1>1, <1>2, <2>2, SliceSplit
    <3>6. Slice(x, WordBits * i, bits) = 0
      BY <1>1, <1>2, <2>2, <3>4, SliceOfProduct
    <3>7. Slice(x, n, WordBits - bits) = Slice(v, 0, WordBits - bits)
      <4>1. n >= n /\ n - n = 0
        OBVIOUS
      <4>2. QED
        BY <1>1, <1>2, <4>1, SliceOfProduct
    <3>8. bits + (WordBits - bits) = WordBits
      BY <1>1
    <3>9. Pow2[bits] * Slice(v, 0, WordBits - bits) \in Int
      BY <1>1, <1>2, ScaledSlice
    <3> HIDE DEF r, low, high, x
    <3>10. QED
      BY <2>1, <3>2, <3>3, <3>4, <3>5, <3>6, <3>7, <3>8, <3>9
  <2>5. CASE i > words
    <3> DEFINE p == i - words
               q == i - words - 1
    <3>1. p \in Nat /\ q \in Nat /\ p = q + 1 /\ i = words + p
      BY <1>1, <2>1, <2>5
    <3>2. /\ WordBits * p \in Nat /\ WordBits * q \in Nat
          /\ WordBits * p = WordBits * q + WordBits
          /\ WordBits * i = WordBits * words + WordBits * p /\ WordBits * words \in Nat
      BY <1>1, <3>1, Places
    <3> HIDE DEF p, q
    <3>3. At(a, p) = Slice(v, WordBits * p, WordBits) /\ At(a, q) = Slice(v, WordBits * q, WordBits)
      BY <3>1, AtIs
    <3>4. low(i) = Pow2[bits] * Slice(v, WordBits * p, WordBits - bits)
      BY <1>1, <1>2, <3>2, <3>3, WordShlIs DEF p
    <3> DEFINE m == WordBits - bits
               k == WordBits * q + m
    <3>5. high(i) = Slice(v, k, bits)
      <4>1. CASE bits = 0
        <5>1. Slice(v, k, 0) = 0
          BY <1>1, <1>2, <3>2, SliceNone
        <5>2. QED
          BY <4>1, <5>1
      <4>2. CASE bits # 0
        <5>1. high(i) = WordShr(At(a, q), m)
          BY <4>2 DEF q
        <5>2. WordShr(Slice(v, WordBits * q, WordBits), m)
                = Slice(v, WordBits * q + m, WordBits - m)
          BY <1>1, <1>2, <3>2, WordShrIs
        <5>3. QED
          BY <1>1, <3>3, <5>1, <5>2
      <4>3. QED
        BY <4>1, <4>2
    <3>6. m \in Nat /\ k \in Nat /\ k + bits = WordBits * p /\ bits + m = WordBits
          /\ WordBits * i >= n /\ WordBits * i - n = k
      BY <1>1, <3>2
    <3>7. Slice(x, WordBits * i, WordBits) = Slice(v, k, WordBits)
      BY <1>1, <1>2, <2>2, <3>6, SliceOfProduct
    <3> HIDE DEF m, k
    <3>8. Slice(v, k, bits + m) = Slice(v, k, bits) + Pow2[bits] * Slice(v, k + bits, m)
      BY <1>1, <1>2, <3>6, SliceSplit
    <3>9. Pow2[bits] * Slice(v, WordBits * p, m) \in Int /\ Slice(v, k, bits) \in Int
      <4>1. Pow2[bits] * Slice(v, WordBits * p, m) \in Int
        BY <1>1, <1>2, <3>2, <3>6, ScaledSlice
      <4>2. Slice(v, k, bits) \in Nat
        BY <1>1, <1>2, <3>6, SliceType
      <4>3. QED
        BY <4>1, <4>2
    <3> HIDE DEF r, low, high, x
    <3>10. QED
      BY <2>1, <3>4, <3>5, <3>6, <3>7, <3>8, <3>9 DEF m
  <2>6. QED
    BY <1>1, <2>1, <2>3, <2>4, <2>5
<1> HIDE DEF low, high, x, words, bits
<1>5. DOMAIN r = Limb /\ r = [i \in Limb |-> r[i]]
  OBVIOUS
<1> HIDE DEF r
<1>6. IsNumber(r, x % Modulus)
  BY <1>2, <1>4, <1>5, NumberOfDigits
<1>7. QED
  BY <1>3, <1>6 DEF x

\* operator>>= divides by a power of 2.
LEMMA ShrIs ==
  ASSUME NEW a, NEW v, IsNumber(a, v), NEW n \in Nat
  PROVE  IsNumber(Shr(a, n), v \div Pow2[n])
<1> DEFINE words == n \div WordBits
           bits == n % WordBits
           m == WordBits - bits
           x == v \div Pow2[n]
           low(i) == WordShr(At(a, i + words), bits)
           high(i) == IF bits = 0 THEN 0 ELSE WordShl(At(a, i + words + 1), WordBits - bits)
           r == [i \in Limb |-> low(i) + high(i)]
<1>1. /\ words \in Nat /\ bits \in Nat /\ bits < WordBits /\ n = WordBits * words + bits
      /\ WordBits \in Nat /\ bits \in 0..WordBits /\ m \in 0..WordBits
      /\ m \in Nat /\ WordBits - m = bits /\ m + bits = WordBits
  BY ShiftParts, Places
<1>2. v \in Nat /\ v < Modulus /\ x \in Nat
  <2>1. v \in Nat /\ v < Modulus
    BY NumberDigits
  <2>2. QED
    BY <2>1, DivMod, Pow2Positive
<1>3. x < Modulus
  <2>1. v = Pow2[n] * x + (v % Pow2[n]) /\ v % Pow2[n] \in 0..(Pow2[n] - 1) /\ Pow2[n] \in Positive
    BY <1>2, DivMod, Pow2Positive
  <2> HIDE DEF x
  <2>2. Pow2[n] * x >= x
    BY <1>2, <2>1 DEF Positive
  <2>3. v % Pow2[n] \in Nat /\ Pow2[n] * x \in Nat
    BY <1>2, <2>1 DEF Positive
  <2>4. QED
    BY <1>2, <2>1, <2>2, <2>3, Sizes DEF Positive
<1>4. Shr(a, n) = r
  BY DEF Shr
<1>5. ASSUME NEW i \in Limb
      PROVE  r[i] = Slice(x, WordBits * i, WordBits)
  <2> DEFINE p == i + words
             q == i + words + 1
  <2>1. i \in Nat /\ r[i] = low(i) + high(i)
    BY Limits
  <2> HIDE DEF words, bits
  <2>2. p \in Nat /\ q \in Nat /\ q = p + 1
    BY <1>1, <2>1
  <2>3. /\ WordBits * p \in Nat /\ WordBits * q \in Nat /\ WordBits * i \in Nat
        /\ WordBits * q = WordBits * p + WordBits
        /\ n + WordBits * i = WordBits * p + bits
    <3>1. WordBits * p \in Nat /\ WordBits * q \in Nat /\ WordBits * i \in Nat
      BY <2>1, <2>2, Places
    <3>2. WordBits * q = WordBits * p + WordBits
      BY <1>1, <2>2
    <3>3. WordBits * p = WordBits * i + WordBits * words /\ WordBits * words \in Nat
      BY <1>1, <2>1
    <3>4. QED
      BY <1>1, <3>1, <3>2, <3>3
  <2> HIDE DEF p, q, m
  <2>4. At(a, p) = Slice(v, WordBits * p, WordBits) /\ At(a, q) = Slice(v, WordBits * q, WordBits)
    BY <2>2, AtIs
  <2>5. low(i) = Slice(v, WordBits * p + bits, m)
    <3>1. WordShr(Slice(v, WordBits * p, WordBits), bits)
            = Slice(v, WordBits * p + bits, WordBits - bits)
      BY <1>1, <1>2, <2>3, WordShrIs
    <3>2. QED
      BY <2>4, <3>1 DEF p, m
  <2>6. high(i) = Pow2[m] * Slice(v, WordBits * q, bits)
    <3>1. CASE bits = 0
      <4>1. Slice(v, WordBits * q, 0) = 0
        BY <1>2, <2>3, SliceNone
      <4>2. Pow2[m] * 0 = 0
        BY <1>1, Pow2Positive DEF Positive
      <4>3. QED
        BY <3>1, <4>1, <4>2
    <3>2. CASE bits # 0
      <4>1. high(i) = WordShl(At(a, q), m)
        BY <3>2 DEF q, m
      <4>2. WordShl(Slice(v, WordBits * q, WordBits), m)
              = Pow2[m] * Slice(v, WordBits * q, WordBits - m)
        BY <1>1, <1>2, <2>3, WordShlIs
      <4>3. QED
        BY <1>1, <2>4, <4>1, <4>2
    <3>3. QED
      BY <3>1, <3>2
  <2>7. Slice(v, WordBits * p + bits, m + bits)
          = Slice(v, WordBits * p + bits, m) + Pow2[m] * Slice(v, (WordBits * p + bits) + m, bits)
    <3>1. WordBits * p + bits \in Nat
      BY <1>1, <2>3
    <3> DEFINE k == WordBits * p + bits
    <3>2. v \in Int /\ k \in Nat /\ m \in Nat /\ bits \in Nat
      BY <1>1, <1>2, <3>1
    <3> HIDE DEF k
    <3>3. Slice(v, k, m + bits) = Slice(v, k, m) + Pow2[m] * Slice(v, k + m, bits)
      BY ONLY <3>2, SliceSplit
    <3>4. QED
      BY <3>3 DEF k
  <2>8. (WordBits * p + bits) + m = WordBits * q
    BY <1>1, <2>3
  <2>9. Slice(x, WordBits * i, WordBits) = Slice(v, n + WordBits * i, WordBits)
    <3> DEFINE k == WordBits * i
    <3>1. v \in Int /\ k \in Nat
      BY <1>2, <2>3
    <3> HIDE DEF k
    <3>2. (v \div Pow2[n]) \div Pow2[k] = v \div Pow2[n + k]
      BY <3>1, DivDiv
    <3>3. QED
      BY <3>2 DEF Slice, k
  <2> HIDE DEF low, high, r, x
  <2>10. QED
    BY <1>1, <2>1, <2>3, <2>5, <2>6, <2>7, <2>8, <2>9
<1> HIDE DEF low, high, x, words, bits
<1>6. DOMAIN r = Limb /\ r = [i \in Limb |-> r[i]]
  OBVIOUS
<1> HIDE DEF r
<1>7. IsNumber(r, x % Modulus)
  BY <1>2, <1>5, <1>6, NumberOfDigits
<1>8. QED
  BY <1>2, <1>3, <1>4, <1>7, SmallModulus DEF x

----------------------------------------------------------------------------
(* Bytes and bits.                                                         *)

\* A number below the divisor is its own remainder.
LEMMA SmallRemainder ==
  ASSUME NEW x \in Nat, NEW c \in Positive, x < c
  PROVE  x % c = x /\ x \div c = 0
<1>1. x = c * 0 + x /\ x \in 0..(c - 1)
  BY DEF Positive
<1>2. QED
  BY <1>1, DivIs

\* A byte shifted within its word.
LEMMA WordShlByte ==
  ASSUME NEW b \in 0..(Pow2[ByteBits] - 1), NEW k \in Nat, k <= 3
  PROVE  WordShl(b, k * ByteBits) = b * Pow2[k * ByteBits]
<1> DEFINE n == k * ByteBits
           m == WordBits - ByteBits - n
<1>1. ByteBits \in Nat /\ n \in Nat /\ m \in Nat /\ WordBits = n + (ByteBits + m)
      /\ ByteBits + m \in Nat
  <2>1. ByteBits \in Nat /\ WordBits = 4 * ByteBits
    BY Sizes DEF Positive
  <2>2. n \in Nat /\ n <= 3 * ByteBits
    BY <2>1
  <2> HIDE DEF n
  <2>3. QED
    BY <2>1, <2>2
<1> HIDE DEF n, m
<1> DEFINE A == Pow2[n]
           B == Pow2[ByteBits]
           C == Pow2[m]
<1>2. WordBase = A * (B * C) /\ A \in Nat \ {0} /\ B \in Nat \ {0} /\ C \in Nat \ {0}
  <2>1. Pow2[n + (ByteBits + m)] = A * Pow2[ByteBits + m] /\ Pow2[ByteBits + m] = B * C
    BY <1>1, Pow2Sum
  <2>2. A \in Nat \ {0} /\ B \in Nat \ {0} /\ C \in Nat \ {0}
    BY <1>1, Pow2Def
  <2>3. QED
    BY <1>1, <2>1, <2>2 DEF WordBase
<1>3. b \in Nat /\ b + 1 <= B
  BY <1>2
<1> HIDE DEF A, B, C
<1>4. b * A \in Nat /\ b * A < B * A
  BY <1>2, <1>3
<1>5. B * A <= A * (B * C)
  <2>1. B * A \in Nat /\ A * (B * C) = (B * A) * C
    BY <1>2
  <2>2. (B * A) * C >= B * A
    BY <1>2, <2>1
  <2>3. QED
    BY <2>1, <2>2
<1>6. (b * A) % WordBase = b * A
  <2>1. b * A < WordBase
    BY <1>2, <1>4, <1>5, Sizes DEF Positive
  <2>2. QED
    BY <1>4, <2>1, SmallRemainder, Sizes
<1>7. QED
  BY <1>6 DEF WordShl, A, n

\* FromUint256 reads the bytes of a number.
LEMMA BytesIs ==
  ASSUME NEW v \in Nat
  PROVE  IsNumber(FromUint256(BytesOf(v)), v % Modulus)
<1> DEFINE bytes == BytesOf(v)
           r == FromUint256(bytes)
           P == ByteBits
<1>1. P \in Nat /\ WordBits = 4 * P
  BY Sizes DEF Positive
<1>2. \A k \in 0..(4 * Limbs - 1) : bytes[k] = Slice(v, k * P, P)
  BY DEF BytesOf, Slice
<1> HIDE DEF bytes
<1>3. ASSUME NEW i \in Limb
      PROVE  r[i] = Slice(v, WordBits * i, WordBits)
  <2> DEFINE p == WordBits * i
  <2>1. p \in Nat /\ P + 0 = P
        /\ 4 * i \in 0..(4 * Limbs - 1) /\ 4 * i + 1 \in 0..(4 * Limbs - 1)
        /\ 4 * i + 2 \in 0..(4 * Limbs - 1) /\ 4 * i + 3 \in 0..(4 * Limbs - 1)
    BY <1>1, Limits, Places
  <2>2. /\ (4 * i) * P = p /\ (4 * i + 1) * P = p + P
        /\ (4 * i + 2) * P = p + 2 * P /\ (4 * i + 3) * P = p + 3 * P
    <3>1. i \in Int
      BY Limits
    <3>2. p = (4 * P) * i
      BY <1>1
    <3> HIDE DEF P, p
    <3>3. QED
      BY <1>1, <3>1, <3>2
  <2>3. /\ bytes[4 * i] = Slice(v, p, P) /\ bytes[4 * i + 1] = Slice(v, p + P, P)
        /\ bytes[4 * i + 2] = Slice(v, p + 2 * P, P) /\ bytes[4 * i + 3] = Slice(v, p + 3 * P, P)
    <3>1. /\ bytes[4 * i] = Slice(v, (4 * i) * P, P)
          /\ bytes[4 * i + 1] = Slice(v, (4 * i + 1) * P, P)
          /\ bytes[4 * i + 2] = Slice(v, (4 * i + 2) * P, P)
          /\ bytes[4 * i + 3] = Slice(v, (4 * i + 3) * P, P)
      BY <1>2, <2>1
    <3> HIDE DEF P, p
    <3>2. QED
      BY <2>2, <3>1
  <2> HIDE DEF p
  <2>4. /\ p + P \in Nat /\ 2 * P \in Nat /\ 3 * P \in Nat
        /\ p + 2 * P \in Nat /\ p + 3 * P \in Nat
    BY <1>1, <2>1
  <2>5. /\ Slice(v, p, P) \in 0..(Pow2[P] - 1) /\ Slice(v, p + P, P) \in 0..(Pow2[P] - 1)
        /\ Slice(v, p + 2 * P, P) \in 0..(Pow2[P] - 1)
        /\ Slice(v, p + 3 * P, P) \in 0..(Pow2[P] - 1)
    <3>1. ASSUME NEW x \in Nat
          PROVE  Slice(v, x, P) \in 0..(Pow2[P] - 1)
      <4> HIDE DEF P
      <4>1. v \in Int /\ P \in Nat
        BY <1>1
      <4>2. QED
        BY <4>1, SliceType
    <3>2. QED
      BY <2>1, <2>4, <3>1
  <2>6. /\ WordShl(Slice(v, p + P, P), P) = Slice(v, p + P, P) * Pow2[P]
        /\ WordShl(Slice(v, p + 2 * P, P), 2 * P) = Slice(v, p + 2 * P, P) * Pow2[2 * P]
        /\ WordShl(Slice(v, p + 3 * P, P), 3 * P) = Slice(v, p + 3 * P, P) * Pow2[3 * P]
    <3>1. 1 * P = P
      BY <1>1
    <3>2. WordShl(Slice(v, p + P, P), 1 * P) = Slice(v, p + P, P) * Pow2[1 * P]
      BY <2>5, WordShlByte
    <3>3. WordShl(Slice(v, p + 2 * P, P), 2 * P) = Slice(v, p + 2 * P, P) * Pow2[2 * P]
      BY <2>5, WordShlByte
    <3>4. WordShl(Slice(v, p + 3 * P, P), 3 * P) = Slice(v, p + 3 * P, P) * Pow2[3 * P]
      BY <2>5, WordShlByte
    <3>5. QED
      BY <3>1, <3>2, <3>3, <3>4
  <2>7. r[i] = Slice(v, p, P) + Slice(v, p + P, P) * Pow2[P]
                 + Slice(v, p + 2 * P, P) * Pow2[2 * P]
                 + Slice(v, p + 3 * P, P) * Pow2[3 * P]
    BY <2>3, <2>6 DEF FromUint256
  <2> HIDE DEF P
  <2>8. /\ Slice(v, p, P + P) = Slice(v, p, P) + Pow2[P] * Slice(v, p + P, P)
        /\ Slice(v, p, 2 * P + P) = Slice(v, p, 2 * P) + Pow2[2 * P] * Slice(v, p + 2 * P, P)
        /\ Slice(v, p, 3 * P + P) = Slice(v, p, 3 * P) + Pow2[3 * P] * Slice(v, p + 3 * P, P)
    <3>1. Slice(v, p, P + P) = Slice(v, p, P) + Pow2[P] * Slice(v, p + P, P)
      BY <1>1, <2>1, SliceSplit
    <3> DEFINE Q == 2 * P
               T == 3 * P
    <3>2. Q \in Nat /\ T \in Nat
      BY <2>4
    <3> HIDE DEF Q, T
    <3>3. Slice(v, p, Q + P) = Slice(v, p, Q) + Pow2[Q] * Slice(v, p + Q, P)
      BY <1>1, <2>1, <3>2, SliceSplit
    <3>4. Slice(v, p, T + P) = Slice(v, p, T) + Pow2[T] * Slice(v, p + T, P)
      BY <1>1, <2>1, <3>2, SliceSplit
    <3>5. QED
      BY <3>1, <3>3, <3>4 DEF Q, T
  <2>9. P + P = 2 * P /\ 2 * P + P = 3 * P /\ 3 * P + P = WordBits
    BY <1>1
  <2>10. QED
    <3> DEFINE s0 == Slice(v, p, P)
               s1 == Slice(v, p + P, P)
               s2 == Slice(v, p + 2 * P, P)
               s3 == Slice(v, p + 3 * P, P)
               A == Pow2[P]
               B == Pow2[2 * P]
               C == Pow2[3 * P]
    <3>1. s0 \in Int /\ s1 \in Int /\ s2 \in Int /\ s3 \in Int
      <4>1. \A x \in Nat : Slice(v, x, P) \in Nat
        BY <1>1, SliceType
      <4>2. QED
        BY <2>1, <2>4, <4>1
    <3>2. A \in Int /\ B \in Int /\ C \in Int
      BY <1>1, <2>4, Pow2Def
    <3>3. r[i] = s0 + s1 * A + s2 * B + s3 * C
      BY <2>7
    <3>4. Slice(v, p, WordBits) = ((s0 + A * s1) + B * s2) + C * s3
      BY <2>8, <2>9
    <3> HIDE DEF s0, s1, s2, s3, A, B, C, r
    <3>5. QED
      BY <3>1, <3>2, <3>3, <3>4 DEF p
<1>4. DOMAIN r = Limb /\ r = [i \in Limb |-> r[i]]
  BY DEF FromUint256
<1> HIDE DEF r
<1>5. IsNumber(r, v % Modulus)
  BY <1>3, <1>4, NumberOfDigits
<1>6. QED
  BY <1>5 DEF r, bytes

\* ToUint256 writes them.
LEMMA ToBytesIs ==
  ASSUME NEW a, NEW v, IsNumber(a, v)
  PROVE  ToUint256(a) = BytesOf(v)
<1> DEFINE P == ByteBits
<1>1. P \in Nat /\ WordBits = 4 * P /\ v \in Int
  BY Sizes, NumberDigits DEF Positive
<1>2. ASSUME NEW k \in 0..(4 * Limbs - 1)
      PROVE  WordShr(a[k \div 4], (k % 4) * P) % Pow2[P] = (v \div Pow2[k * P]) % Pow2[P]
  <2> DEFINE i == k \div 4
             m == k % 4
  <2>1. i \in Limb /\ i \in Nat /\ m \in Nat /\ m <= 3 /\ k = 4 * i + m
    BY Limits DEF Limb
  <2> HIDE DEF i, m, P
  <2>2. WordBits * i \in Nat /\ m * P \in Nat /\ m * P + P <= WordBits
        /\ WordBits * i + m * P = k * P
    <3>1. WordBits * i \in Nat
      BY <2>1, Places
    <3>2. m * P \in Nat /\ m * P <= 3 * P
      BY <1>1, <2>1
    <3>3. (4 * i + m) * P = (4 * P) * i + m * P
      BY <1>1, <2>1
    <3>4. QED
      BY <1>1, <2>1, <3>1, <3>2, <3>3
  <2>3. a[i] = Slice(v, WordBits * i, WordBits)
    BY <2>1, NumberDigits
  <2>4. Slice(Slice(v, WordBits * i, WordBits), m * P, P) = Slice(v, WordBits * i + m * P, P)
    <3> DEFINE x == WordBits * i
               y == m * P
    <3>1. x \in Nat /\ y \in Nat /\ y + P <= WordBits /\ P \in Nat /\ WordBits \in Nat
      BY <1>1, <2>2
    <3> HIDE DEF x, y
    <3>2. Slice(Slice(v, x, WordBits), y, P) = Slice(v, x + y, P)
      BY <1>1, <3>1, SliceOfSlice
    <3>3. QED
      BY <3>2 DEF x, y
  <2>5. WordShr(a[i], m * P) % Pow2[P] = Slice(v, k * P, P)
    <3>1. WordShr(a[i], m * P) % Pow2[P] = Slice(a[i], m * P, P)
      BY DEF WordShr, Slice
    <3>2. QED
      BY <2>2, <2>3, <2>4, <3>1
  <2>6. QED
    BY <2>5 DEF Slice, i, m
<1>3. QED
  BY <1>2 DEF ToUint256, BytesOf

\* Where a bit is: its word and its place there.
LEMMA BitPlace ==
  ASSUME NEW k \in 0..(Size - 1)
  PROVE  /\ k \div WordBits \in Limb /\ k % WordBits \in Nat /\ k % WordBits < WordBits
         /\ k = WordBits * (k \div WordBits) + (k % WordBits) /\ k \in Nat
<1> DEFINE i == k \div WordBits
           m == k % WordBits
<1>1. k \in Nat /\ k < Size
  BY Sizes DEF Positive
<1>2. i \in Nat /\ m \in Nat /\ m < WordBits /\ k = WordBits * i + m
  BY <1>1, ShiftParts
<1> HIDE DEF i, m
<1>3. i < Limbs
  <2>1. SUFFICES ASSUME i >= Limbs
                 PROVE  FALSE
    BY <1>2, Limits
  <2>2. WordBits * i >= WordBits * Limbs
    BY <1>2, <2>1, Sizes DEF Positive
  <2>3. QED
    BY <1>1, <1>2, <2>2, Sizes, Places DEF Positive
<1>4. i \in Limb
  BY <1>2, <1>3, Limits DEF Limb
<1>5. QED
  BY <1>1, <1>2, <1>4 DEF i, m

\* Bit reads the bit of the number.
LEMMA BitIs ==
  ASSUME NEW a, NEW v, IsNumber(a, v), NEW k \in 0..(Size - 1)
  PROVE  Bit(a, k) = Slice(v, k, 1) /\ Slice(v, k, 1) \in {0, 1}
<1> DEFINE i == k \div WordBits
           m == k % WordBits
           p == WordBits * i
           x == 1
<1>1. i \in Limb /\ m \in Nat /\ m + x <= WordBits /\ k = p + m /\ k \in Nat /\ x \in Nat
  BY BitPlace, Places
<1>2. p \in Nat /\ WordBits \in Nat
  BY <1>1, Limits, Places
<1>3. v \in Int /\ a[i] = Slice(v, p, WordBits)
  BY <1>1, NumberDigits
<1>4. Pow2[x] = 2
  BY Pow2Def
<1> HIDE DEF i, m, p, x
<1>5. Slice(Slice(v, p, WordBits), m, x) = Slice(v, p + m, x)
  BY <1>1, <1>2, <1>3, SliceOfSlice
<1>6. Bit(a, k) = Slice(a[i], m, x)
  BY <1>4 DEF Bit, WordShr, Slice, i, m
<1>7. Slice(v, k, x) \in 0..(Pow2[x] - 1)
  BY <1>1, <1>3, SliceType
<1>8. QED
  BY <1>1, <1>3, <1>4, <1>5, <1>6, <1>7 DEF x

\* A number of which the lowest k + 1 bits are 0 has room for bit k.
LEMMA SetBitIs ==
  ASSUME NEW a, NEW q \in Nat, NEW k \in 0..(Size - 1), IsNumber(a, Pow2[k + 1] * q)
  PROVE  IsNumber(SetBit(a, k), Pow2[k + 1] * q + Pow2[k])
<1> DEFINE i == k \div WordBits
           m == k % WordBits
           v == Pow2[k + 1] * q
           b == SetBit(a, k)
           n == WordBits - (m + 1)
<1>1. /\ i \in Limb /\ i \in Nat /\ m \in Nat /\ m < WordBits
      /\ k = WordBits * i + m /\ k \in Nat
      /\ n \in Nat /\ (m + 1) + n = WordBits /\ m + 1 \in Nat /\ WordBits * i \in Nat
  BY BitPlace, Limits, Places
<1>2. /\ a \in [Limb -> Int] /\ a \in Uint /\ v \in Nat /\ NumberOf(a) = v
      /\ a[i] = Slice(v, WordBits * i, WordBits) /\ a[i] \in Int
  BY <1>1, NumberDigits DEF IsNumber
<1> HIDE DEF i, m, n
<1> DEFINE A == Pow2[m + 1]
           B == Pow2[n]
           P == Weight(i)
<1>3. /\ A \in Positive /\ B \in Positive /\ P \in Positive
      /\ WordBase = A * B /\ Pow2[k + 1] = P * A /\ A = 2 * Pow2[m]
      /\ Pow2[m] \in Nat \ {0} /\ Pow2[k] = P * Pow2[m]
  <2>1. A \in Positive /\ B \in Positive /\ P \in Positive
    BY <1>1, Pow2Positive, Weights
  <2>2. WordBase = A * B
    BY <1>1, Pow2Sum DEF WordBase
  <2>3. k + 1 = WordBits * i + (m + 1)
    BY <1>1
  <2> DEFINE p == WordBits * i
             x == m + 1
  <2>a. p \in Nat /\ x \in Nat /\ m \in Nat /\ k = p + m /\ k + 1 = p + x
    BY <1>1, <2>3
  <2>4. Pow2[k + 1] = P * A
    <3>1. Pow2[p + x] = Pow2[p] * Pow2[x]
      <4> HIDE DEF p, x
      <4>1. QED
        BY <2>a, Pow2Sum
    <3>2. QED
      BY <2>a, <3>1 DEF Weight
  <2>5. Pow2[k] = P * Pow2[m]
    <3>1. Pow2[p + m] = Pow2[p] * Pow2[m]
      <4> HIDE DEF p, x
      <4>1. QED
        BY <2>a, Pow2Sum
    <3>2. QED
      BY <2>a, <3>1 DEF Weight
  <2>6. QED
    BY <1>1, <2>1, <2>2, <2>4, <2>5, Pow2Def
<1>4. a[i] = A * (q % B)
  <2>1. v = P * (A * q) + 0 /\ A * q \in Int /\ v \in Int
    <3> HIDE DEF A, P
    <3>1. (P * A) * q = P * (A * q) /\ A * q \in Int /\ P * (A * q) \in Int
      BY <1>3 DEF Positive
    <3>2. QED
      BY <1>3, <3>1
  <2> HIDE DEF v, A, P, B
  <2>2. 0 \in 0..(P - 1)
    BY <1>3 DEF Positive
  <2>3. v \div P = A * q
    BY <1>3, <2>1, <2>2, DivIs
  <2>4. (A * q) % (A * B) = A * (q % B)
    <3>1. q \in Int /\ A \in Positive /\ B \in Positive
      BY <1>3
    <3>2. QED
      BY ONLY <3>1, DivCommon
  <2>5. QED
    BY <1>2, <1>3, <2>3, <2>4 DEF Slice, WordBase, Weight, P
<1>5. a[i] + Pow2[m] \in 0..(WordBase - 1)
  <2> DEFINE r == q % B
  <2>1. r \in Nat /\ r <= B - 1
    <3>1. r \in 0..(B - 1)
      <4> HIDE DEF B
      <4>1. QED
        BY <1>3, DivMod
    <3>2. QED
      BY <1>3, <3>1 DEF Positive
  <2> HIDE DEF r, A, B
  <2>2. A * r \in Nat /\ A * r <= A * (B - 1) /\ A * (B - 1) = A * B - A /\ A * B \in Nat
    BY <1>3, <2>1 DEF Positive
  <2>3. QED
    BY <1>3, <1>4, <2>2 DEF Positive, r
<1>6. b = [a EXCEPT ![i] = @ + Pow2[m]]
  BY DEF SetBit, i, m
<1>7. b \in Uint
  BY <1>1, <1>2, <1>5, <1>6 DEF Uint
<1>8. NumberOf(b) = v + Pow2[k]
  <2>1. Pow2[m] \in Int
    BY <1>3
  <2>2. NumberOf(b) = NumberOf(a) + Pow2[m] * Weight(i)
    BY <1>1, <1>2, <1>6, <2>1, SumOfExcept
  <2>3. Pow2[m] * P = P * Pow2[m]
    BY <1>3 DEF Positive
  <2>4. QED
    BY <1>2, <1>3, <2>2, <2>3
<1>9. NumberOf(b) \in 0..(Modulus - 1)
  BY <1>7, DigitsOfSum
<1>10. QED
  BY <1>7, <1>8, <1>9 DEF IsNumber

\* A shift by one, and a bit into the place it leaves.
LEMMA NextRemainderIs ==
  ASSUME NEW a, NEW r \in Nat, IsNumber(a, r), NEW b \in {0, 1}, 2 * r + b < Modulus
  PROVE  IsNumber([Shl(a, 1) EXCEPT ![0] = @ + b], 2 * r + b)
<1> DEFINE s == Shl(a, 1)
           t == [s EXCEPT ![0] = @ + b]
           x == 1
<1>1. x \in Nat /\ Pow2[x] = 2
  BY Pow2Def
<1>2. IsNumber(s, 2 * r)
  <2>1. IsNumber(Shl(a, x), (r * Pow2[x]) % Modulus)
    <3> HIDE DEF x
    <3>1. QED
      BY <1>1, ShlIs
  <2>2. 2 * r \in Nat /\ 2 * r < Modulus /\ r * 2 = 2 * r
    BY Sizes DEF Positive
  <2>3. (2 * r) % Modulus = 2 * r
    BY <2>2, SmallModulus
  <2>4. QED
    BY <1>1, <2>1, <2>2, <2>3
<1> HIDE DEF s
<1>3. /\ s \in Uint /\ s \in [Limb -> Int] /\ NumberOf(s) = 2 * r
      /\ s[0] = Slice(2 * r, WordBits * 0, WordBits)
  BY <1>2, NumberDigits, Limits DEF IsNumber
<1>4. s[0] + b \in 0..(WordBase - 1)
  <2> DEFINE Y == Pow2[WordBits - 1]
  <2>1. WordBase = 2 * Y /\ Y \in Positive /\ 2 \in Positive
    <3>1. WordBits - 1 \in Nat /\ (WordBits - 1) + 1 = WordBits
      BY Sizes DEF Positive
    <3>2. QED
      BY <3>1, Pow2Def DEF WordBase, Positive
  <2>2. s[0] = (2 * r) % WordBase
    <3>1. WordBits * 0 = 0 /\ (2 * r) \div 1 = 2 * r
      BY Places
    <3>2. QED
      BY <1>3, <3>1, Pow2Def DEF Slice, WordBase
  <2>3. (2 * r) % (2 * Y) = 2 * (r % Y)
    <3> DEFINE c == 2
    <3>1. c \in Positive
      BY <2>1
    <3> HIDE DEF c, Y
    <3>2. (c * r) % (c * Y) = c * (r % Y)
      BY <2>1, <3>1, DivCommon
    <3>3. QED
      BY <3>2 DEF c
  <2>4. r % Y \in 0..(Y - 1)
    <3> HIDE DEF Y
    <3>1. QED
      BY <2>1, DivMod
  <2> HIDE DEF Y
  <2>5. QED
    BY <2>1, <2>2, <2>3, <2>4 DEF Positive
<1>5. t \in Uint
  BY <1>3, <1>4, Limits DEF Uint
<1>6. NumberOf(t) = 2 * r + b
  <2>1. b \in Int /\ 0 \in Limb
    BY Limits
  <2>2. NumberOf(t) = NumberOf(s) + b * Weight(0)
    <3> DEFINE z == 0
    <3>1. z \in Limb
      BY <2>1
    <3>2. t = [s EXCEPT ![z] = @ + b]
      OBVIOUS
    <3> HIDE DEF t, z
    <3>3. NumberOf(t) = NumberOf(s) + b * Weight(z)
      BY <1>3, <2>1, <3>1, <3>2, SumOfExcept
    <3>4. QED
      BY <3>3 DEF z
  <2>3. QED
    BY <1>3, <2>1, <2>2, Weights
<1>7. QED
  <2>1. 2 * r + b \in 0..(Modulus - 1)
    BY Sizes DEF Positive
  <2>2. QED
    BY <1>5, <1>6, <2>1 DEF IsNumber, s

----------------------------------------------------------------------------
(* Long division.                                                          *)

Divided == [rem : [Limb -> Int], quotient : [Limb -> Int]]

\* The recursion of the long division has a solution.
LEMMA DividedRecursion ==
  ASSUME NEW z \in Divided, NEW step \in [Nat -> [Divided -> Divided]]
  PROVE  \E f \in [Nat -> Divided] :
           f[0] = z /\ \A n \in Nat : f[n + 1] = step[n + 1][f[n]]
<1>1. z \in Divided /\ step \in [Nat -> [Divided -> Divided]]
  OBVIOUS
<1>2. QED
  BY <1>1, Recursion

\* One step of the loop, at bit k.
DivStep(a, d, k, before) ==
  LET rem == [Shl(before.rem, 1) EXCEPT ![0] = @ + Bit(a, k)]
  IN  IF Less(rem, d)
        THEN [before EXCEPT !.rem = rem]
        ELSE [rem |-> Sub(rem, d), quotient |-> SetBit(before.quotient, k)]

\* A step of the long division gives a remainder and a quotient of words.
LEMMA DivStepType ==
  ASSUME NEW a \in Uint, NEW d \in Uint, NEW k \in 0..(Size - 1), NEW before \in Divided
  PROVE  DivStep(a, d, k, before) \in Divided
<1> DEFINE rem == [Shl(before.rem, 1) EXCEPT ![0] = @ + Bit(a, k)]
           i == k \div WordBits
           m == k % WordBits
<1>1. before.rem \in [Limb -> Int] /\ before.quotient \in [Limb -> Int]
      /\ before = [rem |-> before.rem, quotient |-> before.quotient]
  BY DEF Divided
<1>2. i \in Limb /\ m \in Nat /\ Pow2[m] \in Int
  BY BitPlace, Pow2Def
<1>3. \A x \in Int, n \in Nat : WordShl(x, n) \in Int /\ WordShr(x, n) \in Int
  <2>1. ASSUME NEW x \in Int, NEW n \in Nat
        PROVE  WordShl(x, n) \in Int /\ WordShr(x, n) \in Int
    <3>1. Pow2[n] \in Positive /\ x * Pow2[n] \in Int
      BY Pow2Positive DEF Positive
    <3> DEFINE y == x * Pow2[n]
    <3> HIDE DEF y
    <3>2. y % WordBase \in 0..(WordBase - 1)
      BY <3>1, DivMod, Sizes DEF y
    <3>3. x \div Pow2[n] \in Int
      BY <3>1, DivMod
    <3>4. QED
      BY <3>2, <3>3 DEF WordShl, WordShr, y
  <2>2. QED
    BY <2>1
<1>4. Shl(before.rem, 1) \in [Limb -> Int]
  <2> DEFINE words == 1 \div WordBits
             bits == 1 % WordBits
             b == before.rem
  <2>1. words \in Int /\ bits \in Nat /\ WordBits - bits \in Nat
    BY ShiftParts, Places
  <2> HIDE DEF words, bits
  <2>2. \A j \in Int : At(b, j) \in Int
    BY <1>1 DEF At
  <2> HIDE DEF b
  <2>3. ASSUME NEW j \in Limb
        PROVE  WordShl(At(b, j - words), bits)
                 + (IF bits = 0 THEN 0 ELSE WordShr(At(b, j - words - 1), WordBits - bits)) \in Int
    <3>1. j - words \in Int /\ j - words - 1 \in Int
      BY <2>1, Limits
    <3>2. At(b, j - words) \in Int /\ At(b, j - words - 1) \in Int
      BY <2>2, <3>1
    <3>3. WordShl(At(b, j - words), bits) \in Int
      BY <1>3, <2>1, <3>2
    <3>4. WordShr(At(b, j - words - 1), WordBits - bits) \in Int
      BY <1>3, <2>1, <3>2
    <3>5. QED
      BY <3>3, <3>4
  <2>4. QED
    BY <2>3 DEF Shl, words, bits, b
<1>5. Bit(a, k) \in Int
  <2>1. a[i] \in Int
    BY <1>2, UintType
  <2>2. WordShr(a[i], m) \in Int
    BY <1>2, <1>3, <2>1
  <2> HIDE DEF i, m
  <2>3. WordShr(a[i], m) % 2 \in Int
    BY <2>2
  <2>4. QED
    BY <2>3 DEF Bit, i, m
<1>6. rem \in [Limb -> Int]
  BY <1>4, <1>5, Limits
<1> HIDE DEF rem
<1>7. Sub(rem, d) \in [Limb -> Int]
  <2>1. [j \in Limb |-> rem[j] - d[j]] \in [Limb -> Int]
    BY <1>6, UintType
  <2>2. Sub(rem, d) \in Uint
    BY <2>1, CarriedSum DEF Sub
  <2>3. QED
    BY <2>2, UintType
<1>8. SetBit(before.quotient, k) \in [Limb -> Int]
  <2>1. SetBit(before.quotient, k) = [before.quotient EXCEPT ![i] = @ + Pow2[m]]
    BY DEF SetBit
  <2> HIDE DEF i, m
  <2>2. QED
    BY <1>1, <1>2, <2>1
<1>9. DivStep(a, d, k, before) =
        IF Less(rem, d) THEN [rem |-> rem, quotient |-> before.quotient]
        ELSE [rem |-> Sub(rem, d), quotient |-> SetBit(before.quotient, k)]
  <2>1. [before EXCEPT !.rem = rem] = [rem |-> rem, quotient |-> before.quotient]
    BY <1>1
  <2>2. QED
    BY <2>1 DEF DivStep, rem
<1>10. QED
  BY <1>1, <1>6, <1>7, <1>8, <1>9 DEF Divided

\* The recursive function in Div exists.
LEMMA DivSteps ==
  ASSUME NEW a \in Uint, NEW d \in Uint
  PROVE  \E long :
           /\ long[0] = [rem |-> Zero, quotient |-> Zero]
           /\ \A n \in 1..Size : long[n] = DivStep(a, d, Size - n, long[n - 1])
           /\ Div(a, d) = IF IsZero(d) THEN a ELSE long[Size].quotient
<1> DEFINE start == [rem |-> Zero, quotient |-> Zero]
           Is(f) == f = [n \in 0..Size |-> IF n = 0 THEN start ELSE DivStep(a, d, Size - n, f[n - 1])]
           step == [n \in Nat |-> [x \in Divided |->
                      IF n \in 1..Size THEN DivStep(a, d, Size - n, x) ELSE x]]
           long == CHOOSE f : Is(f)
<1>1. Size \in Nat
  BY Sizes DEF Positive
<1>2. start \in Divided
  BY ZeroIs, NumberDigits DEF Divided
<1>3. step \in [Nat -> [Divided -> Divided]]
  <2>1. ASSUME NEW n \in 1..Size, NEW x \in Divided
        PROVE  DivStep(a, d, Size - n, x) \in Divided
    <3>1. Size - n \in 0..(Size - 1)
      BY <1>1
    <3>2. QED
      BY <3>1, DivStepType
  <2>2. QED
    BY <2>1
<1>4. PICK f \in [Nat -> Divided] :
        f[0] = start /\ \A n \in Nat : f[n + 1] = step[n + 1][f[n]]
  <2> HIDE DEF start, step
  <2>1. QED
    BY <1>2, <1>3, DividedRecursion
<1> DEFINE g == [n \in 0..Size |-> f[n]]
<1>5. Is(g)
  <2>1. ASSUME NEW n \in 0..Size
        PROVE  g[n] = IF n = 0 THEN start ELSE DivStep(a, d, Size - n, g[n - 1])
    <3>1. CASE n = 0
      BY <1>4, <3>1
    <3>2. CASE n # 0
      <4> DEFINE j == n - 1
      <4>1. j \in Nat /\ j \in 0..Size /\ j + 1 = n /\ n \in 1..Size /\ n \in Nat
        BY <1>1, <3>2
      <4> HIDE DEF j
      <4>2. f[j + 1] = step[j + 1][f[j]] /\ f[j] \in Divided
        <5> HIDE DEF step
        <5>1. QED
          BY <1>4, <4>1
      <4>3. step[j + 1][f[j]] = DivStep(a, d, Size - n, f[j])
        BY <4>1, <4>2
      <4>4. g[n] = DivStep(a, d, Size - n, g[j])
        BY <4>1, <4>2, <4>3
      <4>5. QED
        BY <3>2, <4>4 DEF j
    <3>3. QED
      BY <3>1, <3>2
  <2>2. g = [n \in 0..Size |-> g[n]]
    OBVIOUS
  <2> HIDE DEF g, start
  <2>3. QED
    BY <2>1, <2>2
<1>6. Is(long)
  <2> HIDE DEF Is
  <2>1. QED
    BY <1>5
<1>7. Div(a, d) = IF IsZero(d) THEN a ELSE long[Size].quotient
  BY DEF Div, DivStep
<1> HIDE DEF long
<1>8. long[0] = start
  BY <1>1, <1>6
<1>9. \A n \in 1..Size : long[n] = DivStep(a, d, Size - n, long[n - 1])
  <2> HIDE DEF start
  <2>1. \A n \in 0..Size :
          long[n] = IF n = 0 THEN start ELSE DivStep(a, d, Size - n, long[n - 1])
    BY <1>6
  <2>2. \A n \in 1..Size : n \in 0..Size /\ n # 0
    BY <1>1
  <2>3. QED
    BY <2>1, <2>2
<1>10. QED
  BY <1>7, <1>8, <1>9

\* After n bits: the number above them is the divisor times the quotient above
\* them and the remainder.
Divides(v, w, n, l) ==
  \E q \in Nat, r \in Nat :
    /\ IsNumber(l.rem, r) /\ r < w
    /\ IsNumber(l.quotient, Pow2[Size - n] * q)
    /\ v \div Pow2[Size - n] = w * q + r

\* A step of the long division keeps Divides.
LEMMA DivStepDivides ==
  ASSUME NEW a, NEW v, IsNumber(a, v), NEW d, NEW w, IsNumber(d, w), w > 0,
         NEW n \in 1..Size, NEW l, Divides(v, w, n - 1, l)
  PROVE  Divides(v, w, n, DivStep(a, d, Size - n, l))
<1> DEFINE k == Size - n
           b == Slice(v, k, 1)
<1>1. k \in 0..(Size - 1) /\ k \in Nat /\ Size - (n - 1) = k + 1 /\ Size \in Nat
  BY Sizes DEF Positive
<1>2. PICK q \in Nat, r \in Nat :
        /\ IsNumber(l.rem, r) /\ r < w
        /\ IsNumber(l.quotient, Pow2[k + 1] * q)
        /\ v \div Pow2[k + 1] = w * q + r
  BY <1>1 DEF Divides
<1>3. v \in Nat /\ v < Modulus /\ w \in Nat
  BY NumberDigits
<1> HIDE DEF k
<1>4. Bit(a, k) = b /\ b \in {0, 1}
  BY <1>1, BitIs
<1>5. v \div Pow2[k] = 2 * (w * q + r) + b /\ v \div Pow2[k] \in Nat /\ v \div Pow2[k] <= v
  <2> DEFINE x == v \div Pow2[k]
             z == 1
  <2>1. x \in Nat
    BY <1>1, <1>3, DivMod, Pow2Positive
  <2>2. z \in Nat /\ Pow2[z] = 2
    BY Pow2Def
  <2>3. b = x % 2
    BY <2>2 DEF Slice
  <2>4. x \div 2 = v \div Pow2[k + 1]
    <3> HIDE DEF z
    <3>1. v \in Int /\ k \in Nat /\ z \in Nat
      BY <1>1, <1>3, <2>2
    <3>2. (v \div Pow2[k]) \div Pow2[z] = v \div Pow2[k + z]
      BY ONLY <3>1, DivDiv
    <3>3. QED
      BY <2>2, <3>2 DEF z
  <2>5. x <= v
    <3>1. v = Pow2[k] * x + (v % Pow2[k]) /\ v % Pow2[k] \in 0..(Pow2[k] - 1)
          /\ Pow2[k] \in Positive
      BY <1>1, <1>3, DivMod, Pow2Positive
    <3> HIDE DEF x
    <3>2. Pow2[k] * x >= x /\ Pow2[k] * x \in Nat
      BY <2>1, <3>1 DEF Positive
    <3>3. QED
      BY <1>3, <2>1, <3>1, <3>2 DEF Positive
  <2> HIDE DEF x, b
  <2>6. x = 2 * (x \div 2) + (x % 2)
    BY <2>1
  <2>7. QED
    BY <1>2, <2>1, <2>3, <2>4, <2>5, <2>6 DEF x
<1> HIDE DEF b
<1> DEFINE rem == [Shl(l.rem, 1) EXCEPT ![0] = @ + Bit(a, k)]
           s == 2 * r + b
<1>6. w * q \in Nat /\ 2 * (w * q + r) + b = 2 * (w * q) + s /\ s \in Nat
      /\ s < Modulus
  <2>1. w * q \in Nat /\ Modulus \in Nat /\ v \div Pow2[k] \in Nat
    BY <1>3, <1>5, Sizes DEF Positive
  <2>2. QED
    BY <1>3, <1>4, <1>5, <2>1
<1>7. IsNumber(rem, s)
  BY <1>2, <1>4, <1>6, NextRemainderIs
<1>8. d \in Uint /\ rem \in Uint /\ NumberOf(d) = w /\ NumberOf(rem) = s
  BY <1>7 DEF IsNumber
<1> HIDE DEF rem, s
<1>9. Less(rem, d) <=> s < w
  BY <1>8, LessIs
<1>10. Pow2[k + 1] = 2 * Pow2[k] /\ Pow2[k] \in Nat
  BY <1>1, Pow2Def
<1>11. CASE s < w
  <2> DEFINE t == [l EXCEPT !.rem = rem]
  <2>1. DivStep(a, d, k, l) = t
    BY <1>9, <1>11 DEF DivStep, rem
  <2>2. 2 * q \in Nat /\ Pow2[k] * (2 * q) = Pow2[k + 1] * q
    BY <1>10
  <2>3. v \div Pow2[k] = w * (2 * q) + s
    BY <1>3, <1>5, <1>6
  <2>4. t.quotient = l.quotient /\ t.rem = rem
    OBVIOUS
  <2>5. QED
    BY <1>2, <1>6, <1>7, <1>11, <2>1, <2>2, <2>3, <2>4 DEF Divides, k
<1>12. CASE ~(s < w)
  <2> DEFINE t == [rem |-> Sub(rem, d), quotient |-> SetBit(l.quotient, k)]
  <2>1. DivStep(a, d, k, l) = t
    BY <1>9, <1>12 DEF DivStep, rem
  <2>2. IsNumber(t.rem, s - w)
    <3>1. IsNumber(Sub(rem, d), (s - w) % Modulus)
      BY <1>7, SubIs
    <3>2. s - w \in Nat /\ s - w < Modulus
      BY <1>3, <1>6, <1>12, Sizes DEF Positive
    <3>3. QED
      BY <3>1, <3>2, SmallModulus
  <2>3. IsNumber(t.quotient, Pow2[k] * (2 * q + 1))
    <3>1. IsNumber(SetBit(l.quotient, k), Pow2[k + 1] * q + Pow2[k])
      BY <1>1, <1>2, SetBitIs
    <3>2. Pow2[k] * (2 * q + 1) = Pow2[k + 1] * q + Pow2[k]
      BY <1>10
    <3>3. QED
      BY <3>1, <3>2
  <2>4. 2 * q + 1 \in Nat /\ s - w \in Nat /\ s - w < w
    BY <1>2, <1>3, <1>4, <1>6, <1>12 DEF s
  <2>5. v \div Pow2[k] = w * (2 * q + 1) + (s - w)
    <3>1. w * (2 * q + 1) = 2 * (w * q) + w
      BY <1>3
    <3>2. QED
      BY <1>3, <1>5, <1>6, <3>1
  <2> HIDE DEF t
  <2>6. QED
    BY <2>1, <2>2, <2>3, <2>4, <2>5 DEF Divides, k
<1>13. QED
  BY <1>11, <1>12 DEF k

\* operator/= divides, rounding down; by 0 it changes nothing.
LEMMA DivisionIs ==
  ASSUME NEW a, NEW v, IsNumber(a, v), NEW d, NEW w, IsNumber(d, w)
  PROVE  IsNumber(Div(a, d), IF w = 0 THEN v ELSE v \div w)
<1>1. a \in Uint /\ d \in Uint /\ NumberOf(d) = w
  BY DEF IsNumber
<1>2. v \in Nat /\ v < Modulus /\ w \in Nat /\ Size \in Nat
  BY NumberDigits, Sizes DEF Positive
<1>3. PICK long :
        /\ long[0] = [rem |-> Zero, quotient |-> Zero]
        /\ \A n \in 1..Size : long[n] = DivStep(a, d, Size - n, long[n - 1])
        /\ Div(a, d) = IF IsZero(d) THEN a ELSE long[Size].quotient
  BY <1>1, DivSteps
<1>4. IsZero(d) <=> w = 0
  BY <1>1, ZeroIs
<1>5. CASE w = 0
  BY <1>3, <1>4, <1>5
<1>6. CASE w # 0
  <2> DEFINE S == {n \in Nat : n <= Size => Divides(v, w, n, long[n])}
  <2>1. 0 \in S
    <3>1. v \div Modulus = 0
      BY <1>2, SmallRemainder, Sizes
    <3>2. Size - 0 = Size /\ Pow2[Size] * 0 = 0 /\ w * 0 + 0 = 0 /\ 0 < w
      BY <1>2, <1>6, Pow2Def
    <3>3. IsNumber(long[0].rem, 0) /\ IsNumber(long[0].quotient, 0)
      BY <1>3, ZeroIs
    <3>4. Divides(v, w, 0, long[0])
      BY <3>1, <3>2, <3>3, Sizes DEF Divides
    <3>5. QED
      BY <3>4
  <2>2. ASSUME NEW n \in Nat, n \in S
        PROVE  n + 1 \in S
    <3>1. SUFFICES ASSUME n + 1 <= Size
                   PROVE  Divides(v, w, n + 1, long[n + 1])
      OBVIOUS
    <3> DEFINE m == n + 1
    <3>2. m \in 1..Size /\ m - 1 = n /\ Divides(v, w, n, long[n])
      BY <1>2, <2>2, <3>1
    <3> HIDE DEF m
    <3>3. Divides(v, w, m, DivStep(a, d, Size - m, long[n]))
      BY <1>2, <1>6, <3>2, DivStepDivides
    <3>4. long[m] = DivStep(a, d, Size - m, long[n])
      BY <1>3, <3>2
    <3>5. QED
      BY <3>3, <3>4 DEF m
  <2>3. Nat \subseteq S
    <3> HIDE DEF S
    <3>1. QED
      BY <2>1, <2>2, NatSetInduction
  <2>4. Divides(v, w, Size, long[Size])
    BY <1>2, <2>3
  <2>5. PICK q \in Nat, r \in Nat :
          /\ r < w /\ IsNumber(long[Size].quotient, Pow2[0] * q)
          /\ v \div Pow2[0] = w * q + r
    <3>1. Size - Size = 0
      BY <1>2
    <3>2. QED
      BY <2>4, <3>1 DEF Divides
  <2>6. IsNumber(long[Size].quotient, q) /\ v = w * q + r
    <3>1. v \div 1 = v /\ 1 * q = q
      BY <1>2
    <3>2. QED
      BY <2>5, <3>1, Pow2Def
  <2>7. v \div w = q
    <3>1. w \in Positive /\ r \in 0..(w - 1)
      BY <1>2, <1>6, <2>5 DEF Positive
    <3>2. QED
      BY <1>2, <2>6, <3>1, DivIs
  <2>8. QED
    BY <1>3, <1>4, <1>6, <2>6, <2>7
<1>7. QED
  BY <1>5, <1>6

----------------------------------------------------------------------------
(* Compact targets, work, ASERT.                                           *)

\* SetCompact gives the target that nBits stand for.
LEMMA CompactIs ==
  ASSUME NEW c \in Compact
  PROVE  IsNumber(SetCompact(c), ValueOfCompact(c) % Modulus) /\ ValueOfCompact(c) \in Nat
<1>1. ByteBits \in Nat /\ ByteBits > 0 /\ WordBits = 4 * ByteBits
  BY Sizes DEF Positive
<1>2. c.size \in Nat /\ c.word \in Nat /\ c.word < SignBit
  <2>1. 3 * ByteBits - 1 \in Nat
    BY <1>1
  <2>2. SignBit \in Nat /\ Limbs \in Nat
    BY <2>1, Pow2Def, Limits DEF SignBit
  <2>3. QED
    BY <2>2 DEF Compact
<1>3. \A x \in Nat : x <= c.word => x \in 0..(WordBase - 1)
  <2> DEFINE A == 3 * ByteBits - 1
             B == ByteBits + 1
  <2>1. A \in Nat /\ B \in Nat /\ WordBits = A + B
    BY <1>1
  <2> HIDE DEF A, B
  <2>2. WordBase = Pow2[A] * Pow2[B] /\ Pow2[A] \in Nat \ {0} /\ Pow2[B] \in Nat \ {0}
    BY <2>1, Pow2Sum, Pow2Def DEF WordBase
  <2>3. Pow2[A] * Pow2[B] >= Pow2[A]
    BY <2>2
  <2>4. WordBase \in Nat /\ SignBit = Pow2[A]
    BY Sizes DEF SignBit, A, Positive
  <2>5. QED
    BY <1>2, <2>2, <2>3, <2>4
<1>4. CASE c.size <= 3
  <2> DEFINE n == ByteBits * (3 - c.size)
             x == c.word \div Pow2[n]
  <2>1. n \in Nat
    <3>1. 3 - c.size \in Nat
      BY <1>2, <1>4
    <3>2. QED
      BY <1>1, <3>1
  <2> HIDE DEF n
  <2>2. x \in Nat /\ x <= c.word
    <3>1. /\ x \in Nat /\ c.word % Pow2[n] \in 0..(Pow2[n] - 1) /\ Pow2[n] \in Positive
          /\ c.word = Pow2[n] * x + (c.word % Pow2[n])
      BY <1>2, <2>1, DivMod, Pow2Positive
    <3> DEFINE m == c.word % Pow2[n]
    <3> HIDE DEF x, m
    <3>2. Pow2[n] * x >= x /\ Pow2[n] * x \in Nat
      BY <3>1 DEF Positive
    <3>3. m \in Nat /\ c.word = Pow2[n] * x + m
      BY <3>1 DEF m, Positive
    <3>4. QED
      BY <1>2, <3>1, <3>2, <3>3
  <2>3. IsNumber(Small(x), x) /\ x < Modulus
    BY <1>3, <2>2, SmallIs
  <2>4. SetCompact(c) = Small(x) /\ ValueOfCompact(c) = x
    BY <1>4 DEF SetCompact, ValueOfCompact, WordShr, n
  <2>5. QED
    BY <2>2, <2>3, <2>4, SmallModulus
<1>5. CASE ~(c.size <= 3)
  <2> DEFINE n == ByteBits * (c.size - 3)
  <2>1. n \in Nat
    <3>1. c.size - 3 \in Nat
      BY <1>2, <1>5
    <3>2. QED
      BY <1>1, <3>1
  <2>2. IsNumber(Small(c.word), c.word)
    BY <1>2, <1>3, SmallIs
  <2>3. SetCompact(c) = Shl(Small(c.word), n) /\ ValueOfCompact(c) = c.word * Pow2[n]
    BY <1>5 DEF SetCompact, ValueOfCompact
  <2> HIDE DEF n
  <2>4. IsNumber(Shl(Small(c.word), n), (c.word * Pow2[n]) % Modulus)
    BY <2>1, <2>2, ShlIs
  <2>5. c.word * Pow2[n] \in Nat
    <3>1. Pow2[n] \in Nat
      BY <2>1, Pow2Def
    <3>2. QED
      BY <1>2, <3>1
  <2>6. QED
    BY <2>3, <2>4, <2>5
<1>6. QED
  BY <1>4, <1>5

\* The least target.
LEMMA OneIs == IsNumber(Small(1), 1) /\ 1 < Modulus
<1>1. 1 \in 0..(WordBase - 1)
  BY Sizes DEF Positive
<1>2. QED
  BY <1>1, SmallIs

\* ~target / (target + 1) + 1 is 2^256 / (target + 1).
LEMMA BlockProofIs ==
  ASSUME NEW a, NEW v, IsNumber(a, v)
  PROVE  IsNumber(BlockProof(a), (Modulus \div (v + 1)) % Modulus)
<1> DEFINE M == Modulus
           w == (v + 1) % M
           c == M - 1 - v
           q == IF w = 0 THEN c ELSE c \div w
<1>1. v \in Nat /\ v < M /\ M \in Nat /\ M \in Positive /\ 1 < M /\ c \in Nat
  BY NumberDigits, OneIs, Sizes DEF Positive
<1>2. IsNumber(Complement(a), c)
  BY ComplementIs
<1>3. IsNumber(Add(a, Small(1)), w)
  BY OneIs, AddIs
<1> HIDE DEF c, w
<1>4. IsNumber(Div(Complement(a), Add(a, Small(1))), q)
  BY <1>2, <1>3, DivisionIs
<1> HIDE DEF q
<1>5. IsNumber(BlockProof(a), (q + 1) % M)
  BY <1>4, OneIs, AddIs DEF BlockProof
<1> HIDE DEF M
<1>6. q + 1 = M \div (v + 1)
  <2>1. CASE v + 1 = M
    <3>1. w = 0 /\ c = 0
      <4>1. v + 1 = M * 1 + 0 /\ 0 \in 0..(M - 1)
        BY <1>1, <2>1
      <4>2. QED
        BY <1>1, <2>1, <4>1, DivIs DEF w, c
    <3>2. M \div M = 1
      <4>1. M = M * 1 + 0 /\ 0 \in 0..(M - 1)
        BY <1>1
      <4>2. QED
        BY <1>1, <4>1, DivIs
    <3>3. QED
      BY <2>1, <3>1, <3>2 DEF q
  <2>2. CASE v + 1 # M
    <3> DEFINE n == v + 1
               z == 1
    <3>1. n \in Nat /\ n \in Positive /\ n < M /\ z \in Int
      BY <1>1, <2>2 DEF Positive
    <3>2. w = n
      BY <1>1, <3>1, SmallRemainder DEF w
    <3>3. M = c + n * z
      BY <1>1 DEF c
    <3> HIDE DEF n, z
    <3>4. (c + n * z) \div n = (c \div n) + z
      <4>1. c \in Int /\ n \in Positive /\ z \in Int
        BY <1>1, <3>1
      <4>2. QED
        BY ONLY <4>1, DivPlus
    <3>5. w # 0
      BY <3>1, <3>2 DEF Positive
    <3>6. q = c \div n
      BY <3>2, <3>5 DEF q
    <3>7. QED
      BY <3>3, <3>4, <3>6 DEF n, z
  <2>3. QED
    BY <2>1, <2>2
<1>7. QED
  BY <1>5, <1>6 DEF M

\* ASERT's exponent is an integer, early blocks and late ones.
LEMMA ExponentType ==
  ASSUME NEW t \in Times, NEW h \in Heights
  PROVE  Exponent(t, h) \in Int
<1>1. /\ t \in Int /\ h \in Int /\ AnchorTime \in Int /\ AnchorHeight \in Int
      /\ Spacing \in Int /\ HalfLife \in Nat \ {0} /\ Radix \in Int
  <2>1. RadixBits \in Nat
    BY OperandsAssumption
  <2>2. Radix \in Nat \ {0}
    BY <2>1, Pow2Def DEF Radix
  <2>3. QED
    BY <2>2, OperandsAssumption
<1> DEFINE x == (t - AnchorTime - Spacing * (h - AnchorHeight + 1)) * Radix
<1>2. x \in Int
  <2>1. Spacing * (h - AnchorHeight + 1) \in Int
    BY <1>1
  <2>2. t - AnchorTime - Spacing * (h - AnchorHeight + 1) \in Int
    BY <1>1, <2>1
  <2>3. QED
    BY <1>1, <2>2
<1> HIDE DEF x
<1>3. Quotient(x, HalfLife) \in Int
  <2>1. x \div HalfLife \in Int /\ (-x) \div HalfLife \in Int
    BY <1>1, <1>2
  <2>2. QED
    BY <2>1 DEF Quotient
<1>4. QED
  BY <1>3 DEF Exponent, x

\* The product is exact, the check after the shift tells whether the shift
\* lost anything, and the two limits are the limits of the integer.
LEMMA AsertIs ==
  ASSUME NEW e \in Int
  PROVE  /\ IsNumber(CalculateASERT(SetCompact(AnchorBits), SetCompact(PowLimit), e), AsertValue(e))
         /\ AsertValue(e) % Modulus = AsertValue(e)
<1> DEFINE ref == SetCompact(AnchorBits)
           limit == SetCompact(PowLimit)
           A == ValueOfCompact(AnchorBits)
           L == ValueOfCompact(PowLimit)
           f == Factor[e % Radix]
           shifts == e \div Radix - RadixBits
           next == Mul(ref, f)
           N == A * f
           M == Modulus
<1>0. M \in Nat /\ M \in Positive
  BY Sizes DEF Positive
<1>1. A \in Nat /\ L \in Nat /\ L > 0 /\ L < M
  BY <1>0, CompactIs, OperandsAssumption, TargetsAssumption
<1>2. f \in Nat /\ N \in Nat /\ N < M /\ shifts \in Int
  <2>1. RadixBits \in Nat /\ Radix \in Positive
    BY OperandsAssumption, Pow2Positive DEF Radix
  <2>2. e % Radix \in 0..(Radix - 1) /\ e \div Radix \in Int
    BY <2>1, DivMod
  <2>3. f \in 0..(WordBase - 1)
    BY <2>2, OperandsAssumption
  <2>4. f \in Nat
    BY <2>3, Sizes DEF Positive
  <2>5. N < M
    BY <2>2, TargetsAssumption
  <2> HIDE DEF A, f
  <2>6. N \in Nat
    BY <1>1, <2>4
  <2>7. QED
    BY <2>1, <2>2, <2>4, <2>5, <2>6
<1>3. IsNumber(limit, L)
  <2>1. IsNumber(limit, L % M)
    BY CompactIs, OperandsAssumption
  <2>2. QED
    BY <1>1, <2>1, SmallModulus
<1> HIDE DEF A, L, f, N
<1>4. IsNumber(next, N)
  <2>1. IsNumber(ref, A % M)
    BY CompactIs, OperandsAssumption DEF A
  <2>2. IsNumber(next, ((A % M) * f) % M)
    BY <1>2, <2>1, MulIs
  <2>3. ((A % M) * f) % M = (A * f) % M
    <3>1. A \in Int /\ f \in Int /\ M \in Positive
      BY <1>0, <1>1, <1>2
    <3> HIDE DEF M
    <3>2. QED
      BY ONLY <3>1, ModTimes
  <2>4. QED
    BY <1>2, <2>2, <2>3, SmallModulus DEF N
<1> HIDE DEF ref, limit, next
\* What Clamp makes of a number.
<1>5. ASSUME NEW a, NEW n, IsNumber(a, n)
      PROVE  IsNumber(Clamp(a, limit), IF n = 0 THEN 1 ELSE IF n > L THEN L ELSE n)
  <2>1. a \in Uint /\ NumberOf(a) = n /\ limit \in Uint /\ NumberOf(limit) = L
    BY <1>3, <1>5 DEF IsNumber
  <2>2. n \in Nat
    BY <1>5, NumberDigits
  <2>3. (IsZero(a) <=> n = 0) /\ (Less(limit, a) <=> L < n)
    BY <2>1, ZeroIs, LessIs
  <2>4. QED
    BY <1>1, <1>3, <1>5, <2>2, <2>3, OneIs DEF Clamp
<1> DEFINE Calculated == CalculateASERT(ref, limit, e)
           ToLimits(n) == IF n = 0 THEN 1 ELSE IF n > L THEN L ELSE n
<1>6. CASE shifts <= 0
  <2> DEFINE s == -shifts
             n == N \div Pow2[s]
  <2>1. s \in Nat
    BY <1>2, <1>6
  <2>2. Calculated = Clamp(Shr(next, s), limit)
    BY <1>6 DEF CalculateASERT, next, f
  <2>3. AsertValue(e) = ToLimits(n)
    BY <1>6 DEF AsertValue, N, A, L, f
  <2> HIDE DEF s, n, shifts
  <2>4. IsNumber(Shr(next, s), n)
    BY <1>4, <2>1, ShrIs DEF n
  <2>5. IsNumber(Calculated, ToLimits(n))
    <3> HIDE DEF Calculated
    <3>1. QED
      BY <1>5, <2>2, <2>4
  <2>6. n \in Nat
    BY <2>4, NumberDigits
  <2>7. QED
    <3>1. ToLimits(n) \in Nat /\ ToLimits(n) < Modulus
      BY <1>0, <1>1, <2>6, OneIs
    <3>2. IsNumber(Calculated, AsertValue(e)) /\ AsertValue(e) \in Nat /\ AsertValue(e) < Modulus
      BY <2>3, <2>5, <3>1
    <3>3. AsertValue(e) % Modulus = AsertValue(e)
      BY <3>2, SmallModulus
    <3>4. QED
      BY <3>2, <3>3 DEF ref, limit
<1>7. CASE ~(shifts <= 0)
  <2> DEFINE s == shifts
             P == Pow2[s]
             n == N * P
             up == Shl(next, s)
             back == Shr(up, s)
  <2>1. s \in Nat /\ P \in Positive /\ n \in Nat
    <3>1. s \in Nat
      BY <1>2, <1>7
    <3>2. P \in Nat \ {0}
      BY <3>1, Pow2Def
    <3>3. n \in Nat
      BY <1>2, <3>2
    <3>4. QED
      BY <3>1, <3>2, <3>3 DEF Positive
  <2>2. Calculated = Clamp(IF back # next THEN limit ELSE up, limit)
    BY <1>7 DEF CalculateASERT, next, f
  <2>3. AsertValue(e) = ToLimits(n)
    BY <1>7 DEF AsertValue, N, A, L, f
  <2> HIDE DEF s, shifts
  <2>4. IsNumber(up, n % M)
    BY <1>4, <2>1, ShlIs
  <2> HIDE DEF up
  <2>5. IsNumber(back, (n % M) \div P)
    BY <2>1, <2>4, ShrIs
  <2> HIDE DEF back, Calculated
  <2>6. ASSUME n < M
        PROVE  IsNumber(Calculated, ToLimits(n))
    <3>1. n % M = n
      BY <2>1, <2>6, SmallModulus
    <3>2. n \div P = N
      <4>1. n = P * N + 0 /\ 0 \in 0..(P - 1)
        <5> HIDE DEF P
        <5>1. N * P = P * N /\ P * N \in Int
          BY <1>2, <2>1 DEF Positive
        <5>2. QED
          BY <2>1, <5>1 DEF Positive
      <4> HIDE DEF n, P
      <4>2. QED
        BY <1>2, <2>1, <4>1, DivIs
    <3>3. back = next
      BY <1>4, <2>5, <3>1, <3>2, SameNumber
    <3>4. IsNumber(Calculated, ToLimits(n))
      <4> HIDE DEF n
      <4>1. IsNumber(up, n)
        BY <2>4, <3>1
      <4>2. Calculated = Clamp(up, limit)
        BY <2>2, <3>3
      <4>3. QED
        BY <1>5, <4>1, <4>2
    <3>5. QED
      BY <3>4
  <2>7. ASSUME ~(n < M)
        PROVE  IsNumber(Calculated, ToLimits(n))
    <3>1. (n % M) \div P # N
      <4> DEFINE y == n % M
      <4>1. y \in Nat /\ y < M
        <5>1. y \in 0..(M - 1)
          <6> HIDE DEF n, M
          <6>1. QED
            BY <1>0, <2>1, DivMod
        <5>2. QED
          BY <1>0, <5>1
      <4> HIDE DEF y
      <4>2. SUFFICES ASSUME y \div P = N
                     PROVE  FALSE
        BY DEF y
      <4>3. y = P * N + (y % P) /\ y % P \in 0..(P - 1)
        <5> HIDE DEF P
        <5>1. QED
          BY <2>1, <4>1, <4>2, DivMod
      <4>4. P * N = n
        <5> HIDE DEF P
        <5>1. QED
          BY <1>2, <2>1 DEF Positive
      <4>5. y % P >= 0 /\ y % P \in Int
        BY <2>1, <4>3 DEF Positive
      <4> HIDE DEF n, P, M
      <4>6. QED
        BY <1>0, <2>1, <2>7, <4>1, <4>3, <4>4, <4>5
    <3>2. back # next
      <4>1. NumberOf(back) = (n % M) \div P /\ NumberOf(next) = N
        BY <1>4, <2>5 DEF IsNumber
      <4>2. QED
        BY <3>1, <4>1
    <3>3. IsNumber(Calculated, L)
      <4>1. IsNumber(Clamp(limit, limit), IF L = 0 THEN 1 ELSE IF L > L THEN L ELSE L)
        BY <1>3, <1>5
      <4>2. Calculated = Clamp(limit, limit)
        BY <2>2, <3>2
      <4>3. QED
        BY <1>1, <4>1, <4>2
    <3>4. ToLimits(n) = L
      <4> HIDE DEF n, M
      <4>1. QED
        BY <1>0, <1>1, <2>1, <2>7
    <3>5. QED
      BY <3>3, <3>4
  <2>8. IsNumber(Calculated, ToLimits(n))
    BY <2>6, <2>7
  <2>9. QED
    <3>1. ToLimits(n) \in Nat /\ ToLimits(n) < Modulus
      <4> HIDE DEF n
      <4>1. QED
        BY <1>0, <1>1, <2>1, OneIs
    <3>2. IsNumber(Calculated, AsertValue(e)) /\ AsertValue(e) \in Nat /\ AsertValue(e) < Modulus
      BY <2>3, <2>8, <3>1
    <3>3. AsertValue(e) % Modulus = AsertValue(e)
      BY <3>2, SmallModulus
    <3>4. QED
      BY <3>2, <3>3 DEF ref, limit, Calculated
<1>8. QED
  BY <1>6, <1>7

----------------------------------------------------------------------------
(* The register.                                                           *)

\* The inductive invariant: the register is an arith_uint256, the integer fits
\* it, and the words stand for the integer.
Exact == IsNumber(reg, val)

\* The register is 0 at first.
LEMMA ExactInit == ArithInit => Exact
BY ZeroIs DEF ArithInit, Exact

\* An operation that is exact leaves the register exact.
LEMMA BecomesExact ==
  ASSUME NEW r, NEW v \in Int, Becomes(r, v), IsNumber(r, v % Modulus)
  PROVE  Exact'
<1>1. reg' = r /\ val' = v % Modulus
  BY DEF Becomes
<1>2. QED
  BY <1>1 DEF Exact, IsNumber, NumberOf, Uint, Limb

\* Every operation is exact: one step per action.
LEMMA ExactStep == Exact /\ [ArithNext]_arithVars => Exact'
<1> SUFFICES ASSUME Exact, [ArithNext]_arithVars
             PROVE  Exact'
  OBVIOUS
<1>0. /\ IsNumber(reg, val) /\ val \in Nat /\ val < Modulus /\ val % Modulus = val
      /\ Modulus \in Nat
  <2>1. IsNumber(reg, val)
    BY DEF Exact
  <2>2. val \in Nat /\ val < Modulus
    BY <2>1, NumberDigits
  <2>3. QED
    BY <2>1, <2>2, SmallModulus, Sizes DEF Positive
<1>1. ASSUME NEW v \in Start, Load(v)
      PROVE  Exact'
  <2>1. v \in Nat
    BY OperandsAssumption
  <2>2. QED
    BY <1>1, <2>1, BytesIs, BecomesExact DEF Load
<1>2. ASSUME NEW c \in Compacts, LoadCompact(c)
      PROVE  Exact'
  <2>1. c \in Compact
    BY OperandsAssumption
  <2>2. QED
    BY <1>2, <2>1, CompactIs, BecomesExact DEF LoadCompact
<1>3. ASSUME Reload
      PROVE  Exact'
  <2>1. ToUint256(reg) = BytesOf(val)
    BY <1>0, ToBytesIs
  <2>2. Becomes(FromUint256(BytesOf(val)), val)
    BY <1>3, <2>1 DEF Reload
  <2>3. QED
    BY <1>0, <2>2, BytesIs, BecomesExact
<1>4. ASSUME NEW n \in Shifts, ShiftLeft(n)
      PROVE  Exact'
  <2>1. n \in Nat /\ Pow2[n] \in Nat
    BY OperandsAssumption, Pow2Def
  <2>2. IsNumber(Shl(reg, n), (val * Pow2[n]) % Modulus)
    BY <1>0, <2>1, ShlIs
  <2>3. val * Pow2[n] \in Int
    BY <1>0, <2>1
  <2>4. QED
    BY <1>4, <2>2, <2>3, BecomesExact DEF ShiftLeft
<1>5. ASSUME NEW n \in Shifts, ShiftRight(n)
      PROVE  Exact'
  <2>1. n \in Nat
    BY OperandsAssumption
  <2>2. IsNumber(Shr(reg, n), val \div Pow2[n])
    BY <1>0, <2>1, ShrIs
  <2>3. (val \div Pow2[n]) \in Nat /\ (val \div Pow2[n]) % Modulus = val \div Pow2[n]
    BY <2>2, NumberDigits, SmallModulus
  <2>4. QED
    BY <1>5, <2>2, <2>3, BecomesExact DEF ShiftRight
<1>6. ASSUME NEW f \in Factors, Times1(f)
      PROVE  Exact'
  <2>1. f \in Nat
    BY OperandsAssumption, Sizes DEF Positive
  <2>2. IsNumber(Mul(reg, f), (val * f) % Modulus)
    BY <1>0, <2>1, MulIs
  <2>3. val * f \in Int
    BY <1>0, <2>1
  <2>4. QED
    BY <1>6, <2>2, <2>3, BecomesExact DEF Times1
<1>7. ASSUME NEW v \in Operands
      PROVE  IsNumber(Small(v), v) /\ v \in Nat
  <2>1. v \in 0..(WordBase - 1) /\ WordBase \in Nat
    BY OperandsAssumption, Sizes DEF Positive
  <2>2. QED
    BY <2>1, SmallIs
<1>8. ASSUME NEW v \in Operands, Plus(v)
      PROVE  Exact'
  <2>1. IsNumber(Add(reg, Small(v)), (val + v) % Modulus) /\ val + v \in Int
    BY <1>0, <1>7, AddIs
  <2>2. QED
    BY <1>8, <2>1, BecomesExact DEF Plus
<1>9. ASSUME NEW v \in Operands, Minus(v)
      PROVE  Exact'
  <2>1. IsNumber(Sub(reg, Small(v)), (val - v) % Modulus) /\ val - v \in Int
    BY <1>0, <1>7, SubIs
  <2>2. QED
    BY <1>9, <2>1, BecomesExact DEF Minus
<1>10. ASSUME NEW v \in Operands, Over(v)
       PROVE  Exact'
  <2> DEFINE q == IF v = 0 THEN val ELSE val \div v
  <2>1. IsNumber(Div(reg, Small(v)), q)
    BY <1>0, <1>7, DivisionIs
  <2>2. q \in Nat /\ q % Modulus = q
    <3> HIDE DEF q
    <3>1. QED
      BY <2>1, NumberDigits, SmallModulus
  <2>3. Becomes(Div(reg, Small(v)), q)
    BY <1>10 DEF Over
  <2> HIDE DEF q
  <2>4. QED
    BY <2>1, <2>2, <2>3, BecomesExact
<1>11. ASSUME Proof
       PROVE  Exact'
  <2>1. IsNumber(BlockProof(reg), (Modulus \div (val + 1)) % Modulus)
    BY <1>0, BlockProofIs
  <2>2. Modulus \div (val + 1) \in Int
    <3> DEFINE n == val + 1
    <3>1. n \in Positive /\ Modulus \in Int
      BY <1>0 DEF Positive
    <3> HIDE DEF n
    <3>2. Modulus \div n \in Int
      BY <3>1, DivMod
    <3>3. QED
      BY <3>2 DEF n
  <2>3. QED
    BY <1>11, <2>1, <2>2, BecomesExact DEF Proof
<1>12. ASSUME NEW t \in Times, NEW h \in Heights, Retarget(t, h)
       PROVE  Exact'
  <2> DEFINE e == Exponent(t, h)
             r == CalculateASERT(SetCompact(AnchorBits), SetCompact(PowLimit), e)
  <2>1. e \in Int
    BY ExponentType
  <2>2. Becomes(r, AsertValue(e))
    BY <1>12 DEF Retarget
  <2> HIDE DEF e
  <2>3. IsNumber(r, AsertValue(e)) /\ AsertValue(e) % Modulus = AsertValue(e)
    BY <2>1, AsertIs
  <2> HIDE DEF r
  <2>4. AsertValue(e) \in Int
    BY <2>3, NumberDigits
  <2>5. QED
    BY <2>2, <2>3, <2>4, BecomesExact
<1>13. ASSUME UNCHANGED arithVars
       PROVE  Exact'
  BY <1>13 DEF arithVars, Exact, IsNumber, NumberOf, Uint, Limb
<1>14. QED
  BY <1>1, <1>2, <1>3, <1>4, <1>5, <1>6, <1>8, <1>9, <1>10, <1>11, <1>12, <1>13 DEF ArithNext

\* For words and numbers of words of any size: after any sequence of loads,
\* shifts, sums, products, quotients, proofs of work and retargets, the words
\* of the arith_uint256 stand for the integer that exact arithmetic gives.
THEOREM ArithmeticIsExact == ArithSpec => []ArithAgrees
<1>1. Exact => ArithAgrees
  BY DEF Exact, IsNumber, ArithAgrees
<1>2. QED
  BY ExactInit, ExactStep, <1>1, PTL DEF ArithSpec

----------------------------------------------------------------------------
(* Hashes.                                                                 *)

\* A set is part of one that is closed under HashPair.
LEMMA ClosedUnderPairs ==
  ASSUME NEW B
  PROVE  \E V : B \subseteq V /\ \A x, y \in V : HashPair(x, y) \in V
<1> DEFINE More(X) == X \cup (X \X X)
           Def(g, n) == /\ g[0] = B
                        /\ \A i \in 0..(n - 1) : g[i + 1] = More(g[i])
           S == {n \in Nat : \E g : Def(g, n)}
<1>1. Nat \subseteq S
  <2>1. 0 \in S
    <3>1. Def([i \in 0..0 |-> B], 0)
      OBVIOUS
    <3>2. QED
      BY <3>1
  <2>2. ASSUME NEW n \in Nat, n \in S
        PROVE  n + 1 \in S
    <3>1. PICK g : Def(g, n)
      BY <2>2
    <3> DEFINE v == More(g[n])
               h == [i \in 0..(n + 1) |-> IF i = n + 1 THEN v ELSE g[i]]
    <3>2. Def(h, n + 1)
      <4> HIDE DEF More, v
      <4>1. h[0] = B
        BY <3>1
      <4>2. ASSUME NEW i \in 0..(n + 1 - 1)
            PROVE  h[i + 1] = More(h[i])
        <5>1. CASE i = n
          BY <5>1 DEF v
        <5>2. CASE i # n
          <6>1. i \in 0..(n - 1) /\ i + 1 # n + 1 /\ i # n + 1
            BY <5>2
          <6>2. g[i + 1] = More(g[i])
            BY <3>1, <6>1
          <6>3. h[i + 1] = g[i + 1] /\ h[i] = g[i]
            BY <6>1
          <6>4. QED
            BY <6>2, <6>3
        <5>3. QED
          BY <5>1, <5>2
      <4>3. \A i \in 0..(n + 1 - 1) : h[i + 1] = More(h[i])
        BY <4>2
      <4> HIDE DEF h
      <4>4. QED
        BY <4>1, <4>3
    <3> HIDE DEF Def
    <3>3. QED
      BY <3>2
  <2>3. QED
    <3> HIDE DEF S
    <3>1. QED
      BY <2>1, <2>2, NatSetInduction
<1> HIDE DEF More
<1>2. ASSUME NEW n \in Nat, NEW m \in Nat, NEW g, NEW h, Def(g, n), Def(h, m)
      PROVE  \A i \in Nat : i <= n /\ i <= m => g[i] = h[i]
  <2> DEFINE E == {i \in Nat : i <= n /\ i <= m => g[i] = h[i]}
  <2>1. 0 \in E
    BY <1>2
  <2>2. ASSUME NEW i \in Nat, i \in E
        PROVE  i + 1 \in E
    <3>1. SUFFICES ASSUME i + 1 <= n, i + 1 <= m
                   PROVE  g[i + 1] = h[i + 1]
      OBVIOUS
    <3>2. g[i] = h[i] /\ i \in 0..(n - 1) /\ i \in 0..(m - 1)
      BY <2>2, <3>1
    <3>3. QED
      BY <1>2, <3>2
  <2>3. Nat \subseteq E
    <3> HIDE DEF E
    <3>1. QED
      BY <2>1, <2>2, NatSetInduction
  <2>4. QED
    BY <2>3
<1> DEFINE G(n) == CHOOSE g : Def(g, n)
           H(n) == G(n)[n]
           V == UNION {H(n) : n \in Nat}
<1>3. ASSUME NEW n \in Nat
      PROVE  Def(G(n), n)
  <2> HIDE DEF Def
  <2>1. QED
    BY <1>1
<1> HIDE DEF G
<1>4. H(0) = B
  BY <1>3
<1>5. ASSUME NEW n \in Nat
      PROVE  H(n + 1) = More(H(n))
  <2>1. Def(G(n), n) /\ Def(G(n + 1), n + 1)
    <3> HIDE DEF Def
    <3>1. QED
      BY <1>3
  <2>2. G(n + 1)[n] = G(n)[n]
    <3> HIDE DEF Def
    <3>1. QED
      BY <2>1, <1>2
  <2>3. G(n + 1)[n + 1] = More(G(n + 1)[n])
    BY <2>1
  <2>4. QED
    BY <2>2, <2>3
<1> HIDE DEF H
<1>6. ASSUME NEW m \in Nat
      PROVE  \A n \in Nat : H(m) \subseteq H(m + n)
  <2> DEFINE E == {n \in Nat : H(m) \subseteq H(m + n)}
  <2>1. 0 \in E
    OBVIOUS
  <2>2. ASSUME NEW n \in Nat, n \in E
        PROVE  n + 1 \in E
    <3>1. H(m + (n + 1)) = More(H(m + n))
      <4>1. m + n \in Nat /\ m + (n + 1) = (m + n) + 1
        OBVIOUS
      <4>2. QED
        BY <4>1, <1>5
    <3>2. QED
      BY <2>2, <3>1 DEF More
  <2>3. Nat \subseteq E
    <3> HIDE DEF E
    <3>1. QED
      BY <2>1, <2>2, NatSetInduction
  <2>4. QED
    BY <2>3
<1>7. B \subseteq V
  BY <1>4
<1>8. ASSUME NEW x \in V, NEW y \in V
      PROVE  HashPair(x, y) \in V
  <2>1. PICK m \in Nat : x \in H(m)
    OBVIOUS
  <2>2. PICK n \in Nat : y \in H(n)
    OBVIOUS
  <2>3. x \in H(m + n) /\ y \in H(m + n)
    <3>1. H(m) \subseteq H(m + n) /\ H(n) \subseteq H(n + m) /\ m + n = n + m
      BY <1>6
    <3>2. QED
      BY <2>1, <2>2, <3>1
  <2>4. m + n \in Nat /\ (m + n) + 1 \in Nat
    OBVIOUS
  <2>5. HashPair(x, y) \in H((m + n) + 1)
    BY <2>3, <2>4, <1>5 DEF More, HashPair
  <2>6. QED
    BY <2>4, <2>5
<1>9. QED
  <2> HIDE DEF V
  <2>1. QED
    BY <1>7, <1>8

----------------------------------------------------------------------------
(* The tree of a block.                                                    *)

\* The right child of a node, which is the left one where there is no other.
RightOf(n, h, p) == IF 2 * p + 1 < TreeWidth(n, h) THEN 2 * p + 1 ELSE 2 * p

\* The steps of a recursion that stays in W, and what it computes from z.
Steps(W) == [Nat -> [W -> W]]

Recurs(f, z, step) == f[0] = z /\ \A k \in Nat : f[k + 1] = step[k + 1][f[k]]

\* A recursion over the natural numbers computes something.
LEMMA StepRecursion ==
  ASSUME NEW W, NEW z \in W, NEW step \in Steps(W)
  PROVE  \E f \in [Nat -> W] : Recurs(f, z, step)
<1>1. z \in W /\ step \in [Nat -> [W -> W]]
  BY DEF Steps
<1>2. \E f \in [Nat -> W] : f[0] = z /\ \A k \in Nat : f[k + 1] = step[k + 1][f[k]]
  BY <1>1, Recursion, SMTT(30)
<1>3. QED
  BY <1>2 DEF Recurs

\* What a recursion over the levels of the tree goes through: something in V for
\* each place of a level.
Level(P, V) == [P -> V]

\* The recursive function in CalcHash is what its definition says.
LEMMA CalcHashIs ==
  ASSUME NEW n
  PROVE  /\ \A p \in Nat : CalcHash(n, 0, p) = <<p + 1>>
         /\ \A h, p \in Nat :
              CalcHash(n, h + 1, p)
                = HashPair(CalcHash(n, h, 2 * p), CalcHash(n, h, RightOf(n, h, p)))
<1> DEFINE Is(f) ==
             f = [k \in Nat |->
                   [p \in Nat |->
                     IF k = 0 THEN <<p + 1>>
                     ELSE HashPair(f[k - 1][2 * p],
                                   f[k - 1][IF 2 * p + 1 < TreeWidth(n, k - 1)
                                              THEN 2 * p + 1 ELSE 2 * p])]]
           c == CHOOSE f : Is(f)
<1>1. PICK V : /\ {<<p + 1>> : p \in Nat} \subseteq V
               /\ \A x, y \in V : HashPair(x, y) \in V
  BY ClosedUnderPairs
<1> DEFINE W == Level(Nat, V)
           z == [p \in Nat |-> <<p + 1>>]
           over(k, g) == [p \in Nat |-> HashPair(g[2 * p], g[RightOf(n, k - 1, p)])]
           step == [k \in Nat |-> [g \in W |-> over(k, g)]]
<1>2. z \in W
  BY <1>1 DEF Level
<1>3. step \in [Nat -> [W -> W]]
  <2>1. ASSUME NEW k \in Nat, NEW g \in W
        PROVE  over(k, g) \in W
    <3>1. ASSUME NEW p \in Nat
          PROVE  HashPair(g[2 * p], g[RightOf(n, k - 1, p)]) \in V
      <4>1. RightOf(n, k - 1, p) \in Nat /\ 2 * p \in Nat
        BY DEF RightOf
      <4>2. QED
        BY <4>1, <1>1 DEF Level
    <3>2. QED
      BY <3>1 DEF Level
  <2> HIDE DEF over, W
  <2>2. QED
    BY <2>1
<1>4. PICK f \in [Nat -> W] : f[0] = z /\ \A k \in Nat : f[k + 1] = step[k + 1][f[k]]
  <2> HIDE DEF z, step
  <2>1. z \in W /\ step \in Steps(W)
    BY <1>2, <1>3 DEF Steps
  <2>2. \E f \in [Nat -> W] : Recurs(f, z, step)
    BY ONLY <2>1, StepRecursion
  <2>3. QED
    BY <2>2 DEF Recurs
<1>5. ASSUME NEW k \in Nat
      PROVE  f[k + 1] = over(k + 1, f[k])
  <2>1. f[k] \in W /\ k + 1 \in Nat
    <3> HIDE DEF W
    <3>1. QED
      BY <1>4
  <2>2. step[k + 1][f[k]] = over(k + 1, f[k])
    <3> HIDE DEF W, over
    <3>1. QED
      BY <2>1
  <2>3. f[k + 1] = step[k + 1][f[k]]
    <3> HIDE DEF step
    <3>1. QED
      BY <1>4
  <2> HIDE DEF step, over
  <2>4. QED
    BY <2>2, <2>3
<1>6. ASSUME NEW k \in Nat
      PROVE  f[k] = [p \in Nat |->
                     IF k = 0 THEN <<p + 1>>
                     ELSE HashPair(f[k - 1][2 * p],
                                   f[k - 1][IF 2 * p + 1 < TreeWidth(n, k - 1)
                                              THEN 2 * p + 1 ELSE 2 * p])]
  <2>1. CASE k = 0
    BY <2>1, <1>4
  <2>2. CASE k # 0
    <3>1. k - 1 \in Nat /\ (k - 1) + 1 = k
      BY <2>2
    <3>2. f[k] = over(k, f[k - 1])
      <4> HIDE DEF over
      <4>1. f[(k - 1) + 1] = over((k - 1) + 1, f[k - 1])
        BY <3>1, <1>5
      <4>2. QED
        BY <3>1, <4>1
    <3>3. QED
      BY <2>2, <3>2 DEF RightOf
  <2>3. QED
    BY <2>1, <2>2
<1>7. Is(f)
  <2>1. f = [k \in Nat |-> f[k]]
    BY <1>4
  <2>2. QED
    BY <2>1, <1>6
<1>8. Is(c)
  <2> HIDE DEF Is
  <2>1. QED
    BY <1>7
<1>9. \A h, p : CalcHash(n, h, p) = c[h][p]
  BY DEF CalcHash
<1> HIDE DEF c
<1>10. ASSUME NEW p \in Nat
       PROVE  c[0][p] = <<p + 1>>
  BY <1>8
<1>11. ASSUME NEW h \in Nat, NEW p \in Nat
       PROVE  c[h + 1][p] = HashPair(c[h][2 * p], c[h][RightOf(n, h, p)])
  <2>1. h + 1 \in Nat /\ h + 1 # 0 /\ (h + 1) - 1 = h
    OBVIOUS
  <2>2. c[h + 1][p] = HashPair(c[(h + 1) - 1][2 * p],
                               c[(h + 1) - 1][IF 2 * p + 1 < TreeWidth(n, (h + 1) - 1)
                                                THEN 2 * p + 1 ELSE 2 * p])
    <3>1. \A k \in Nat : k # 0 =>
            c[k][p] = HashPair(c[k - 1][2 * p],
                               c[k - 1][IF 2 * p + 1 < TreeWidth(n, k - 1)
                                          THEN 2 * p + 1 ELSE 2 * p])
      <4>1. ASSUME NEW k \in Nat, k # 0
            PROVE  c[k][p] = HashPair(c[k - 1][2 * p],
                               c[k - 1][IF 2 * p + 1 < TreeWidth(n, k - 1)
                                          THEN 2 * p + 1 ELSE 2 * p])
        <5>1. c[k] = [q \in Nat |->
                       IF k = 0 THEN <<q + 1>>
                       ELSE HashPair(c[k - 1][2 * q],
                                     c[k - 1][IF 2 * q + 1 < TreeWidth(n, k - 1)
                                                THEN 2 * q + 1 ELSE 2 * q])]
          BY <1>8
        <5>2. QED
          BY <4>1, <5>1
      <4>2. QED
        BY <4>1
    <3>2. QED
      BY <2>1, <3>1
  <2>3. QED
    BY <2>1, <2>2 DEF RightOf
<1>12. QED
  <2>1. \A p \in Nat : c[0][p] = <<p + 1>>
    BY <1>10
  <2>2. \A h, p \in Nat : c[h + 1][p] = HashPair(c[h][2 * p], c[h][RightOf(n, h, p)])
    BY <1>11
  <2>3. ASSUME NEW p \in Nat
        PROVE  CalcHash(n, 0, p) = <<p + 1>>
    BY <1>9, <2>1
  <2>4. ASSUME NEW h \in Nat, NEW p \in Nat
        PROVE  CalcHash(n, h + 1, p)
                 = HashPair(CalcHash(n, h, 2 * p), CalcHash(n, h, RightOf(n, h, p)))
    BY <1>9, <2>2
  <2>5. QED
    BY <2>3, <2>4

\* The hash of a leaf is that of its transaction.
LEMMA LeafHash ==
  ASSUME NEW n, NEW p \in Nat
  PROVE  CalcHash(n, 0, p) = <<p + 1>>
BY CalcHashIs

\* The hash of a node is that of its two children's.
LEMMA ParentHash ==
  ASSUME NEW n, NEW h \in Nat, h # 0, NEW p \in Nat
  PROVE  CalcHash(n, h, p)
           = <<CalcHash(n, h - 1, 2 * p), CalcHash(n, h - 1, RightOf(n, h - 1, p))>>
<1>1. h - 1 \in Nat /\ (h - 1) + 1 = h
  OBVIOUS
<1>2. CalcHash(n, (h - 1) + 1, p)
        = HashPair(CalcHash(n, h - 1, 2 * p), CalcHash(n, h - 1, RightOf(n, h - 1, p)))
  BY <1>1, CalcHashIs
<1>3. QED
  BY <1>1, <1>2 DEF HashPair

\* Hashes do not collide: a hash of the tree has one place in it.
LEMMA OnePlace ==
  ASSUME NEW n, NEW h \in Nat, NEW k \in Nat, NEW p \in Nat, NEW q \in Nat,
         CalcHash(n, h, p) = CalcHash(n, k, q)
  PROVE  h = k /\ p = q
<1> DEFINE S == {i \in Nat : \A j, x, y \in Nat :
                   CalcHash(n, i, x) = CalcHash(n, j, y) => i = j /\ x = y}
<1>1. 0 \in S
  <2>1. ASSUME NEW j \in Nat, NEW x \in Nat, NEW y \in Nat,
               CalcHash(n, 0, x) = CalcHash(n, j, y)
        PROVE  0 = j /\ x = y
    <3>1. CASE j = 0
      <4>1. <<x + 1>> = <<y + 1>>
        BY <2>1, <3>1, CalcHashIs
      <4>2. QED
        BY <3>1, <4>1
    <3>2. CASE j # 0
      <4>1. j - 1 \in Nat /\ (j - 1) + 1 = j
        BY <3>2
      <4>2. PICK a, b : CalcHash(n, j, y) = <<a, b>>
        BY <3>2, ParentHash
      <4>3. <<x + 1>> = <<a, b>>
        BY <2>1, <4>2, CalcHashIs
      <4>4. QED
        BY <4>3
    <3>3. QED
      BY <3>1, <3>2
  <2>2. QED
    BY <2>1
<1>2. ASSUME NEW i \in Nat, i \in S
      PROVE  i + 1 \in S
  <2>1. ASSUME NEW j \in Nat, NEW x \in Nat, NEW y \in Nat,
               CalcHash(n, i + 1, x) = CalcHash(n, j, y)
        PROVE  i + 1 = j /\ x = y
    <3>1. CASE j = 0
      <4>1. PICK a, b : CalcHash(n, i + 1, x) = <<a, b>>
        <5>1. i + 1 \in Nat /\ i + 1 # 0
          OBVIOUS
        <5>2. QED
          BY <5>1, ParentHash
      <4>2. <<y + 1>> = <<a, b>>
        BY <2>1, <3>1, <4>1, CalcHashIs
      <4>3. QED
        BY <4>2
    <3>2. CASE j # 0
      <4>1. j - 1 \in Nat /\ (j - 1) + 1 = j /\ 2 * x \in Nat /\ 2 * y \in Nat
        BY <3>2
      <4>2. PICK a : CalcHash(n, i + 1, x) = <<CalcHash(n, i, 2 * x), a>>
        <5>1. i + 1 \in Nat /\ i + 1 # 0 /\ (i + 1) - 1 = i
          OBVIOUS
        <5>2. CalcHash(n, i + 1, x)
                = <<CalcHash(n, (i + 1) - 1, 2 * x),
                    CalcHash(n, (i + 1) - 1, RightOf(n, (i + 1) - 1, x))>>
          BY <5>1, ParentHash
        <5>3. QED
          BY <5>1, <5>2
      <4>3. PICK b : CalcHash(n, j, y) = <<CalcHash(n, j - 1, 2 * y), b>>
        BY <3>2, ParentHash
      <4>4. CalcHash(n, i, 2 * x) = CalcHash(n, j - 1, 2 * y)
        BY <2>1, <4>2, <4>3
      <4>5. i = j - 1 /\ 2 * x = 2 * y
        BY <1>2, <4>1, <4>4
      <4>6. QED
        BY <4>5
    <3>3. QED
      BY <3>1, <3>2
  <2>2. QED
    BY <2>1
<1>3. Nat \subseteq S
  <2> HIDE DEF S
  <2>1. QED
    BY <1>1, <1>2, NatSetInduction
<1>4. QED
  BY <1>3

----------------------------------------------------------------------------
(* The widths of the levels.                                               *)

\* A set of natural numbers has a least one.
LEMMA LeastNat ==
  ASSUME NEW S, S \subseteq Nat, S # {}
  PROVE  \E x \in S : \A y \in S : x <= y
<1>1. PICK x \in S : \A y \in S : ~(<<y, x>> \in OpToRel(<, Nat))
  BY WFMin, NatLessThanWellFounded
<1>2. ASSUME NEW y \in S
      PROVE  x <= y
  <2>1. SUFFICES ASSUME y < x PROVE FALSE
    OBVIOUS
  <2>2. <<y, x>> \in OpToRel(<, Nat)
    BY <2>1 DEF OpToRel
  <2>3. QED
    BY <2>2, <1>1
<1>3. QED
  BY <1>2

\* 2^n is above n.
LEMMA Pow2Above == \A n \in Nat : n < Pow2[n]
<1> DEFINE S == {n \in Nat : n < Pow2[n]}
<1>1. 0 \in S
  BY Pow2Def
<1>2. ASSUME NEW n \in Nat, n \in S
      PROVE  n + 1 \in S
  BY <1>2, Pow2Def
<1>3. Nat \subseteq S
  <2> HIDE DEF S
  <2>1. QED
    BY <1>1, <1>2, NatSetInduction
<1>4. QED
  BY <1>3

\* Rounding up: the pieces of size c that cover n.
LEMMA Covers ==
  ASSUME NEW n \in Nat, NEW c \in Positive, NEW p \in Nat
  PROVE  p < (n + c - 1) \div c <=> p * c < n
<1> DEFINE q == (n + c - 1) \div c
           r == (n + c - 1) % c
<1>1. q \in Int /\ r \in 0..(c - 1) /\ n + c - 1 = c * q + r
  <2>1. n + c - 1 \in Int
    BY DEF Positive
  <2>2. QED
    BY <2>1, DivMod
<1> HIDE DEF q, r
<1>2. CASE p < q
  <2>1. PICK d \in Nat : q = p + 1 + d
    <3>1. q - p - 1 \in Nat /\ q = p + 1 + (q - p - 1)
      BY <1>1, <1>2
    <3>2. QED
      BY <3>1
  <2>2. c * q = p * c + c + c * d /\ c * d \in Nat /\ p * c \in Nat
    BY <2>1 DEF Positive
  <2>3. p * c < n
    BY <1>1, <2>2 DEF Positive
  <2>4. QED
    BY <1>2, <2>3 DEF q
<1>3. CASE ~(p < q)
  <2>1. PICK d \in Nat : p = q + d
    <3>1. p - q \in Nat /\ p = q + (p - q)
      BY <1>1, <1>3
    <3>2. QED
      BY <3>1
  <2>2. p * c = c * q + c * d /\ c * d \in Nat /\ c * q \in Int
    BY <1>1, <2>1 DEF Positive
  <2>3. ~(p * c < n)
    BY <1>1, <2>2 DEF Positive
  <2>4. QED
    BY <1>3, <2>3 DEF q
<1>4. QED
  BY <1>2, <1>3

\* TreeWidth is a natural number, whatever overflows.
LEMMA TreeWidthType ==
  ASSUME NEW n \in Nat, NEW h \in Nat
  PROVE  TreeWidth(n, h) \in Nat
<1>1. Pow2[h] \in Positive /\ CountBase \in Positive
  BY Pow2Positive, FilteredAssumption DEF Positive
<1>2. n + Pow2[h] - 1 \in Int
  BY <1>1 DEF Positive
<1>3. (n + Pow2[h] - 1) % CountBase \in Nat
  BY <1>1, <1>2, DivMod
<1> DEFINE x == (n + Pow2[h] - 1) % CountBase
<1> HIDE DEF x
<1>4. x \div Pow2[h] \in Nat
  BY <1>1, <1>3, DivMod DEF x
<1>5. QED
  BY <1>4 DEF x, TreeWidth

\* The loop of nHeight ends, at the first level of at most one node.
LEMMA HeightIs ==
  ASSUME NEW n \in Nat, n # 0
  PROVE  /\ Height(n) \in Nat /\ Height(n) <= n /\ TreeWidth(n, Height(n)) <= 1
         /\ \A k \in Nat : k < Height(n) => TreeWidth(n, k) > 1
<1> DEFINE S == {h \in 0..n : TreeWidth(n, h) <= 1}
           P == Pow2[n]
           x == (n + P - 1) % CountBase
<1>1. P \in Positive /\ CountBase \in Positive /\ n < P
  BY Pow2Positive, Pow2Above, FilteredAssumption DEF Positive
<1> HIDE DEF P
<1>2. x \in Nat /\ x < 2 * P
  <2> DEFINE y == n + P - 1
  <2>1. y \in Nat /\ y < 2 * P
    BY <1>1 DEF Positive
  <2> HIDE DEF y
  <2>2. y % CountBase \in Nat /\ y % CountBase <= y
    <3>1. /\ y \div CountBase \in Nat /\ y % CountBase \in 0..(CountBase - 1)
          /\ y = CountBase * (y \div CountBase) + (y % CountBase)
      BY <1>1, <2>1, DivMod
    <3> DEFINE q == y \div CountBase
               r == y % CountBase
    <3> HIDE DEF q, r
    <3>2. CountBase * q \in Nat
      BY <1>1, <3>1 DEF Positive, q
    <3>3. r \in Nat /\ r <= y
      BY <1>1, <2>1, <3>1, <3>2 DEF Positive, q, r
    <3>4. QED
      BY <3>3 DEF r
  <2>3. QED
    BY <1>1, <2>1, <2>2 DEF y, Positive
<1> HIDE DEF x
<1>3. x \div P <= 1
  <2>1. /\ x \div P \in Int /\ x % P \in 0..(P - 1)
        /\ x = P * (x \div P) + (x % P)
    BY <1>1, <1>2, DivMod
  <2> DEFINE q == x \div P
  <2>2. SUFFICES ASSUME q >= 2 PROVE FALSE
    BY <2>1
  <2>3. PICK d \in Nat : q = 2 + d
    <3>1. q - 2 \in Nat /\ q = 2 + (q - 2)
      BY <2>1, <2>2
    <3>2. QED
      BY <3>1
  <2> HIDE DEF q
  <2>4. P * q = 2 * P + P * d /\ P * d \in Nat
    BY <1>1, <2>3 DEF Positive
  <2>5. QED
    BY <1>1, <1>2, <2>1, <2>4 DEF Positive, q
<1>4. n \in S
  BY <1>3 DEF TreeWidth, x, P
<1>5. PICK h \in S : \A k \in S : h <= k
  <2>1. S \subseteq Nat /\ S # {}
    BY <1>4
  <2> HIDE DEF S
  <2>2. QED
    BY <2>1, LeastNat
<1>6. ASSUME NEW k \in 0..(h - 1)
      PROVE  TreeWidth(n, k) > 1
  <2>1. k \in 0..n /\ k < h /\ k \in Nat
    BY <1>5
  <2>2. TreeWidth(n, k) \in Nat
    BY <2>1, TreeWidthType
  <2>3. ~(TreeWidth(n, k) <= 1)
    <3>1. SUFFICES ASSUME TreeWidth(n, k) <= 1 PROVE FALSE
      OBVIOUS
    <3>2. k \in S
      BY <2>1, <3>1
    <3>3. h <= k /\ h \in Nat
      BY <3>2, <1>5
    <3>4. QED
      BY <2>1, <3>3
  <2>4. QED
    BY <2>2, <2>3
<1>7. \E i \in 0..n : TreeWidth(n, i) <= 1 /\ \A k \in 0..(i - 1) : TreeWidth(n, k) > 1
  BY <1>5, <1>6
<1>8. /\ Height(n) \in 0..n /\ TreeWidth(n, Height(n)) <= 1
      /\ \A k \in 0..(Height(n) - 1) : TreeWidth(n, k) > 1
  BY <1>7 DEF Height
<1>9. QED
  BY <1>8

\* A level of the tree of a block has a node for each piece of 2^h
\* transactions, the last one perhaps shorter: nothing overflows.
LEMMA WidthIs ==
  ASSUME NEW n \in 1..MaxTx, NEW h \in Nat, h <= Height(n)
  PROVE  /\ TreeWidth(n, h) \in Nat
         /\ \A p \in Nat : p < TreeWidth(n, h) <=> p * Pow2[h] < n
<1> DEFINE Fits(k) == n + Pow2[k] - 1 < CountBase
           S == {k \in Nat : k <= Height(n) => Fits(k)}
<1>1. n \in Nat /\ n >= 1 /\ 3 * n <= CountBase /\ CountBase \in Nat /\ Height(n) \in Nat
  BY FilteredAssumption, HeightIs
<1>2. ASSUME NEW k \in Nat, Fits(k)
      PROVE  /\ TreeWidth(n, k) = (n + Pow2[k] - 1) \div Pow2[k]
             /\ \A p \in Nat : p < TreeWidth(n, k) <=> p * Pow2[k] < n
  <2>1. Pow2[k] \in Positive /\ n + Pow2[k] - 1 \in Nat
    BY Pow2Positive, <1>1 DEF Positive
  <2> DEFINE y == n + Pow2[k] - 1
  <2>2. y \in Nat /\ y < CountBase /\ CountBase \in Positive
    BY <1>1, <1>2, <2>1 DEF Positive
  <2> HIDE DEF y
  <2>3. y % CountBase = y
    BY <2>2, SmallRemainder
  <2>4. TreeWidth(n, k) = (n + Pow2[k] - 1) \div Pow2[k]
    BY <2>3 DEF y, TreeWidth
  <2>5. QED
    BY <2>1, <2>4, <1>1, Covers
<1>3. 0 \in S
  BY <1>1, Pow2Def
<1>4. ASSUME NEW k \in Nat, k \in S
      PROVE  k + 1 \in S
  <2>1. SUFFICES ASSUME k + 1 <= Height(n) PROVE Fits(k + 1)
    OBVIOUS
  <2>2. Fits(k) /\ k < Height(n)
    BY <1>1, <1>4, <2>1
  <2>3. TreeWidth(n, k) > 1
    BY <1>1, <2>2, HeightIs
  <2>4. Pow2[k] < n
    <3>1. 1 < TreeWidth(n, k) <=> 1 * Pow2[k] < n
      BY <1>2, <2>2
    <3>2. Pow2[k] \in Nat
      BY Pow2Positive DEF Positive
    <3>3. QED
      BY <2>3, <3>1, <3>2
  <2>5. Pow2[k + 1] = 2 * Pow2[k] /\ Pow2[k] \in Nat
    BY Pow2Def
  <2>6. QED
    BY <1>1, <2>4, <2>5
<1>5. Nat \subseteq S
  <2> HIDE DEF S
  <2>1. QED
    BY <1>3, <1>4, NatSetInduction
<1>6. Fits(h)
  BY <1>5
<1>7. QED
  BY <1>1, <1>2, <1>6, TreeWidthType

\* The children of a node.
LEMMA Children ==
  ASSUME NEW n \in 1..MaxTx, NEW h \in Nat, h + 1 <= Height(n), NEW p \in Nat
  PROVE  p < TreeWidth(n, h + 1) <=> 2 * p < TreeWidth(n, h)
<1>1. Pow2[h + 1] = 2 * Pow2[h] /\ Pow2[h] \in Nat
  BY Pow2Def
<1>2. Height(n) \in Nat
  BY HeightIs
<1>3. p < TreeWidth(n, h + 1) <=> p * Pow2[h + 1] < n
  BY <1>2, WidthIs
<1>4. 2 * p < TreeWidth(n, h) <=> (2 * p) * Pow2[h] < n
  BY <1>2, WidthIs
<1>5. p * Pow2[h + 1] = (2 * p) * Pow2[h]
  BY <1>1
<1>6. QED
  BY <1>3, <1>4, <1>5

\* The widths halve, rounded up.
LEMMA WidthHalves ==
  ASSUME NEW n \in 1..MaxTx, NEW h \in Nat, h + 1 <= Height(n)
  PROVE  TreeWidth(n, h + 1) = CeilDiv(TreeWidth(n, h), 2)
<1> DEFINE v == TreeWidth(n, h)
           w == TreeWidth(n, h + 1)
<1>1. v \in Nat /\ w \in Nat
  <2>1. n \in Nat /\ h + 1 \in Nat
    BY FilteredAssumption
  <2>2. QED
    BY <2>1, TreeWidthType
<1>2. \A p \in Nat : p < w <=> 2 * p < v
  BY Children
<1> HIDE DEF v, w
<1>3. ~(2 * w < v)
  BY <1>1, <1>2
<1>4. w # 0 => 2 * (w - 1) < v
  <2>1. CASE w # 0
    <3>1. w - 1 \in Nat /\ w - 1 < w
      BY <1>1, <2>1
    <3>2. QED
      BY <3>1, <1>2
  <2>2. QED
    BY <2>1
<1>5. w = (v + 2 - 1) \div 2
  <2>1. CASE w = 0
    BY <1>1, <1>3, <2>1
  <2>2. CASE w # 0
    BY <1>1, <1>3, <1>4, <2>2
  <2>3. QED
    BY <2>1, <2>2
<1>6. QED
  BY <1>5 DEF v, w, CeilDiv

\* The highest level has one node.
LEMMA OneRoot ==
  ASSUME NEW n \in 1..MaxTx
  PROVE  Height(n) \in Nat /\ TreeWidth(n, Height(n)) = 1 /\ n <= Pow2[Height(n)]
<1>1. n \in Nat /\ n # 0 /\ Height(n) \in Nat /\ TreeWidth(n, Height(n)) <= 1
  BY FilteredAssumption, HeightIs
<1>2. /\ TreeWidth(n, Height(n)) \in Nat
      /\ \A p \in Nat : p < TreeWidth(n, Height(n)) <=> p * Pow2[Height(n)] < n
  BY <1>1, WidthIs
<1>3. Pow2[Height(n)] \in Nat
  BY <1>1, Pow2Positive DEF Positive
<1>4. 0 < TreeWidth(n, Height(n))
  <2>1. 0 * Pow2[Height(n)] < n
    BY <1>1, <1>3
  <2>2. QED
    BY <1>2, <2>1
<1>5. TreeWidth(n, Height(n)) = 1
  BY <1>1, <1>2, <1>4
<1>6. ~(1 * Pow2[Height(n)] < n)
  BY <1>2, <1>5
<1>7. QED
  BY <1>1, <1>3, <1>5, <1>6

\* The row of hashes at height h.
Row(n, h) == [i \in 1..TreeWidth(n, h) |-> CalcHash(n, h, i - 1)]

\* A round of the loop of ComputeMerkleRoot goes from a row to the next.
LEMMA NextRow ==
  ASSUME NEW n \in 1..MaxTx, NEW h \in Nat, h + 1 <= Height(n)
  PROVE  NextLevel(Row(n, h)) = Row(n, h + 1)
<1> DEFINE w == TreeWidth(n, h)
<1>1. w \in Nat /\ n \in Nat
  <2>1. n \in Nat
    BY FilteredAssumption
  <2>2. QED
    BY <2>1, TreeWidthType
<1>2. Len(Row(n, h)) = w
  <2>1. Row(n, h) = [i \in 1..w |-> CalcHash(n, h, i - 1)]
    BY DEF Row
  <2> HIDE DEF w
  <2>2. QED
    BY <1>1, <2>1
<1>3. TreeWidth(n, h + 1) = CeilDiv(w, 2)
  BY WidthHalves
<1>4. \A i \in 1..w : Row(n, h)[i] = CalcHash(n, h, i - 1)
  BY DEF Row
<1>5. RightOf(n, h, 0) = IF 1 < w THEN 1 ELSE 0
  BY DEF RightOf
<1>6. ASSUME NEW i \in 1..CeilDiv(w, 2)
      PROVE  HashPair(Row(n, h)[2 * i - 1],
                      Row(n, h)[IF 2 * i <= w THEN 2 * i ELSE 2 * i - 1])
               = CalcHash(n, h + 1, i - 1)
  <2>1. i - 1 \in Nat /\ 2 * i - 1 \in 1..w
    <3> HIDE DEF w
    <3>1. QED
      BY <1>1 DEF CeilDiv
  <2>2. CalcHash(n, h + 1, i - 1)
          = HashPair(CalcHash(n, h, 2 * (i - 1)), CalcHash(n, h, RightOf(n, h, i - 1)))
    BY <2>1, CalcHashIs
  <2>3. Row(n, h)[2 * i - 1] = CalcHash(n, h, 2 * (i - 1))
    <3>1. (2 * i - 1) - 1 = 2 * (i - 1)
      OBVIOUS
    <3>2. Row(n, h)[2 * i - 1] = CalcHash(n, h, (2 * i - 1) - 1)
      BY <2>1, <1>4
    <3>3. QED
      BY <3>1, <3>2
  <2>4. CASE 2 * i <= w
    <3>1. 2 * i \in 1..w /\ RightOf(n, h, i - 1) = 2 * i - 1
      <4>1. 2 * i \in 1..w /\ 2 * (i - 1) + 1 < w /\ 2 * (i - 1) + 1 = 2 * i - 1
        <5> HIDE DEF w
        <5>1. QED
          BY <1>1, <2>1, <2>4
      <4>2. QED
        BY <4>1 DEF RightOf
    <3>2. Row(n, h)[2 * i] = CalcHash(n, h, 2 * i - 1)
      BY <3>1, <1>4
    <3>3. QED
      BY <2>2, <2>3, <2>4, <3>1, <3>2
  <2>5. CASE ~(2 * i <= w)
    <3>1. RightOf(n, h, i - 1) = 2 * (i - 1)
      <4>1. ~(2 * (i - 1) + 1 < w)
        <5> HIDE DEF w
        <5>1. QED
          BY <1>1, <2>1, <2>5
      <4>2. QED
        BY <4>1 DEF RightOf
    <3>2. QED
      BY <2>2, <2>3, <2>5, <3>1
  <2>6. QED
    BY <2>4, <2>5
<1>7. NextLevel(Row(n, h))
        = [i \in 1..CeilDiv(w, 2) |->
             HashPair(Row(n, h)[2 * i - 1],
                      Row(n, h)[IF 2 * i <= w THEN 2 * i ELSE 2 * i - 1])]
  BY <1>2 DEF NextLevel
<1>8. Row(n, h + 1) = [i \in 1..CeilDiv(w, 2) |-> CalcHash(n, h + 1, i - 1)]
  BY <1>3 DEF Row
<1>9. QED
  BY <1>6, <1>7, <1>8

\* The recursive function in ComputeMerkleRoot is what its definition says.
LEMMA LevelsExist ==
  ASSUME NEW V, \A x, y \in V : HashPair(x, y) \in V, NEW txids \in Seq(V)
  PROVE  \E level : level = [h \in Nat |-> IF h = 0 THEN txids ELSE NextLevel(level[h - 1])]
<1> DEFINE step == [h \in Nat |-> [s \in Seq(V) |-> NextLevel(s)]]
<1>1. ASSUME NEW s \in Seq(V)
      PROVE  NextLevel(s) \in Seq(V)
  <2> DEFINE w == CeilDiv(Len(s), 2)
  <2>1. w \in Nat /\ Len(s) \in Nat
    BY DEF CeilDiv
  <2>2. ASSUME NEW i \in 1..w
        PROVE  HashPair(s[2 * i - 1], s[IF 2 * i <= Len(s) THEN 2 * i ELSE 2 * i - 1]) \in V
    <3>1. 2 * i - 1 \in 1..Len(s)
      BY <2>1 DEF CeilDiv
    <3>2. (IF 2 * i <= Len(s) THEN 2 * i ELSE 2 * i - 1) \in 1..Len(s)
      BY <2>1, <3>1
    <3>3. \A j \in 1..Len(s) : s[j] \in V
      OBVIOUS
    <3>4. QED
      BY <3>1, <3>2, <3>3
  <2>3. NextLevel(s) = [i \in 1..w |-> HashPair(s[2 * i - 1],
                                  s[IF 2 * i <= Len(s) THEN 2 * i ELSE 2 * i - 1])]
    BY DEF NextLevel
  <2> HIDE DEF w
  <2>4. NextLevel(s) \in [1..w -> V]
    BY <2>2, <2>3
  <2>5. QED
    BY <2>1, <2>4
<1>2. PICK W : W = Seq(V)
  OBVIOUS
<1>3. step \in [Nat -> [W -> W]] /\ txids \in W
  BY <1>1, <1>2
<1>4. PICK f \in [Nat -> W] : f[0] = txids /\ \A h \in Nat : f[h + 1] = step[h + 1][f[h]]
  <2> HIDE DEF step
  <2>1. step \in Steps(W) /\ txids \in W
    BY <1>3 DEF Steps
  <2>2. \E f \in [Nat -> W] : Recurs(f, txids, step)
    BY ONLY <2>1, StepRecursion
  <2>3. QED
    BY <2>2 DEF Recurs
<1>5. ASSUME NEW h \in Nat
      PROVE  f[h] = IF h = 0 THEN txids ELSE NextLevel(f[h - 1])
  <2>1. CASE h = 0
    BY <2>1, <1>4
  <2>2. CASE h # 0
    <3>1. h - 1 \in Nat /\ (h - 1) + 1 = h /\ f[h - 1] \in W
      BY <2>2, <1>4
    <3>2. f[(h - 1) + 1] = step[(h - 1) + 1][f[h - 1]]
      <4> HIDE DEF step
      <4>1. QED
        BY <3>1, <1>4
    <3>3. step[h][f[h - 1]] = NextLevel(f[h - 1])
      BY <3>1, <1>2
    <3>4. f[h] = NextLevel(f[h - 1])
      <4> HIDE DEF step
      <4>1. QED
        BY <3>1, <3>2, <3>3
    <3>5. QED
      BY <2>2, <3>4
  <2>3. QED
    BY <2>1, <2>2
<1>6. f = [h \in Nat |-> IF h = 0 THEN txids ELSE NextLevel(f[h - 1])]
  BY <1>4, <1>5
<1>7. QED
  BY <1>6

\* The client and the node compute one root.
LEMMA RootIs ==
  ASSUME NEW n \in 1..MaxTx
  PROVE  ComputeMerkleRoot(Txids(n)) = CalcHash(n, Height(n), 0)
<1> DEFINE Is(f) == f = [h \in Nat |-> IF h = 0 THEN Txids(n) ELSE NextLevel(f[h - 1])]
           level == CHOOSE f : Is(f)
           Top(h) == Len(level[h]) <= 1 /\ \A k \in 0..(h - 1) : Len(level[k]) > 1
<1>1. Is(level)
  <2>1. PICK V : /\ {<<p + 1>> : p \in Nat} \subseteq V
                 /\ \A x, y \in V : HashPair(x, y) \in V
    BY ClosedUnderPairs
  <2>2. Txids(n) \in Seq(V)
    <3>1. \A t \in 1..n : <<t>> \in V
      <4>1. ASSUME NEW t \in 1..n
            PROVE  <<t>> \in V
        <5>1. t - 1 \in Nat /\ (t - 1) + 1 = t
          OBVIOUS
        <5>2. <<(t - 1) + 1>> \in V
          BY <2>1, <5>1
        <5>3. QED
          BY <5>1, <5>2
      <4>2. QED
        BY <4>1
    <3>2. n \in Nat
      BY FilteredAssumption
    <3>3. QED
      BY <3>1, <3>2 DEF Txids
  <2>3. \E f : Is(f)
    BY <2>1, <2>2, LevelsExist
  <2> HIDE DEF Is
  <2>4. QED
    BY <2>3
<1>2. ComputeMerkleRoot(Txids(n))
        = level[CHOOSE h \in 0..Len(Txids(n)) : Top(h)][1]
  BY DEF ComputeMerkleRoot
<1> HIDE DEF level
<1>3. n \in Nat /\ n # 0 /\ Height(n) \in Nat /\ Height(n) <= n
  BY FilteredAssumption, HeightIs
<1> DEFINE S == {h \in Nat : h <= Height(n) => level[h] = Row(n, h)}
<1>4. 0 \in S
  <2>1. level[0] = Txids(n)
    BY <1>1
  <2>2. TreeWidth(n, 0) = n
    <3>1. 0 \in Nat /\ 0 <= Height(n) /\ Pow2[0] = 1
      BY <1>3, Pow2Def
    <3>2. TreeWidth(n, 0) \in Nat /\ \A p \in Nat : p < TreeWidth(n, 0) <=> p * Pow2[0] < n
      BY <3>1, WidthIs
    <3> DEFINE w == TreeWidth(n, 0)
    <3> HIDE DEF w
    <3>3. w \in Nat /\ \A p \in Nat : p < w <=> p < n
      BY <3>1, <3>2 DEF w
    <3>4. ~(n < w) /\ ~(w < n)
      BY <1>3, <3>3
    <3>5. w = n
      BY <1>3, <3>3, <3>4
    <3>6. QED
      BY <3>5 DEF w
  <2>3. ASSUME NEW t \in 1..n
        PROVE  CalcHash(n, 0, t - 1) = <<t>>
    <3>1. t - 1 \in Nat /\ (t - 1) + 1 = t
      OBVIOUS
    <3>2. QED
      BY <3>1, LeafHash
  <2>4. Row(n, 0) = Txids(n)
    BY <2>2, <2>3 DEF Row, Txids
  <2>5. QED
    BY <2>1, <2>4
<1>5. ASSUME NEW h \in Nat, h \in S
      PROVE  h + 1 \in S
  <2>1. SUFFICES ASSUME h + 1 <= Height(n) PROVE level[h + 1] = Row(n, h + 1)
    OBVIOUS
  <2>2. level[h] = Row(n, h)
    BY <1>3, <1>5, <2>1
  <2>3. level[h + 1] = NextLevel(level[h])
    <3>1. h + 1 \in Nat /\ h + 1 # 0 /\ (h + 1) - 1 = h
      OBVIOUS
    <3>2. level[h + 1] = IF h + 1 = 0 THEN Txids(n) ELSE NextLevel(level[(h + 1) - 1])
      BY <1>1, <3>1
    <3>3. QED
      BY <3>1, <3>2
  <2>4. QED
    BY <2>1, <2>2, <2>3, NextRow
<1>6. Nat \subseteq S
  <2> HIDE DEF S
  <2>1. QED
    BY <1>4, <1>5, NatSetInduction
<1>7. ASSUME NEW h \in Nat, h <= Height(n)
      PROVE  level[h] = Row(n, h) /\ Len(level[h]) = TreeWidth(n, h)
  <2>1. level[h] = Row(n, h)
    BY <1>6, <1>7
  <2>2. TreeWidth(n, h) \in Nat
    BY <1>3, TreeWidthType
  <2>3. Len(Row(n, h)) = TreeWidth(n, h)
    BY <2>2 DEF Row
  <2>4. QED
    BY <2>1, <2>3
<1>8. Top(Height(n))
  <2>1. Len(level[Height(n)]) <= 1
    BY <1>3, <1>7, HeightIs
  <2>2. ASSUME NEW k \in 0..(Height(n) - 1)
        PROVE  Len(level[k]) > 1
    <3>1. k \in Nat /\ k < Height(n) /\ k <= Height(n)
      BY <1>3
    <3>2. QED
      BY <1>3, <3>1, <1>7, HeightIs
  <2>3. QED
    BY <2>1, <2>2
<1>9. Len(Txids(n)) = n
  BY <1>3 DEF Txids
<1>10. ASSUME NEW h \in 0..n, Top(h)
       PROVE  h = Height(n)
  <2>1. CASE h < Height(n)
    <3>1. h \in Nat /\ h \in 0..(Height(n) - 1)
      BY <1>3, <2>1
    <3>2. TreeWidth(n, h) > 1 /\ TreeWidth(n, h) \in Nat
      BY <1>3, <2>1, <3>1, HeightIs, TreeWidthType
    <3>3. Len(level[h]) = TreeWidth(n, h)
      BY <2>1, <3>1, <1>3, <1>7
    <3>4. QED
      BY <1>10, <3>2, <3>3
  <2>2. CASE h > Height(n)
    <3>1. Height(n) \in 0..(h - 1)
      BY <1>3, <2>2
    <3>2. Len(level[Height(n)]) > 1
      BY <1>10, <3>1
    <3>3. Len(level[Height(n)]) = 1
      <4>1. Height(n) <= Height(n)
        BY <1>3
      <4>2. QED
        BY <1>3, <1>7, <4>1, OneRoot
    <3>4. QED
      BY <3>2, <3>3
  <2>3. QED
    BY <1>3, <2>1, <2>2
<1>11. (CHOOSE h \in 0..Len(Txids(n)) : Top(h)) = Height(n)
  <2>1. Height(n) \in 0..n
    BY <1>3
  <2> HIDE DEF Top
  <2>2. QED
    BY <1>8, <1>9, <1>10, <2>1
<1>12. level[Height(n)][1] = CalcHash(n, Height(n), 0)
  <2>1. level[Height(n)] = Row(n, Height(n)) /\ TreeWidth(n, Height(n)) = 1
    BY <1>3, <1>7, OneRoot
  <2>2. QED
    BY <2>1 DEF Row
<1>13. QED
  BY <1>2, <1>11, <1>12

----------------------------------------------------------------------------
(* The two walks through the tree.                                         *)

\* Whether a node is above a transaction of F.
IsParent(F, h, pos) == \E t \in F : t > pos * Pow2[h] /\ t <= (pos + 1) * Pow2[h]

\* What the node writes at height h, if it writes g at the height below.
BuildLevel(n, F, h, g) ==
  [pos \in Nat |->
     IF h = 0 \/ ~IsParent(F, h, pos)
       THEN [bits |-> <<IsParent(F, h, pos)>>, hashes |-> <<CalcHash(n, h, pos)>>]
     ELSE IF 2 * pos + 1 < TreeWidth(n, h - 1)
       THEN [bits |-> <<TRUE>> \o (g[2 * pos].bits \o g[2 * pos + 1].bits),
             hashes |-> g[2 * pos].hashes \o g[2 * pos + 1].hashes]
     ELSE [bits |-> <<TRUE>> \o g[2 * pos].bits, hashes |-> g[2 * pos].hashes]]

\* What the client finds at height h, if it finds g at the height below.
VisitLevel(m, h, g) ==
  [at \in Cursor |->
     IF at.bits >= Len(m.bits) THEN Exhausted(at.bits, at.hashes)
     ELSE IF h = 0 \/ ~m.bits[at.bits + 1]
       THEN Leaf(m, h, at.bits + 1, at.hashes, m.bits[at.bits + 1])
     ELSE LET left == g[[pos |-> 2 * at.pos, bits |-> at.bits + 1, hashes |-> at.hashes]]
          IN  IF 2 * at.pos + 1 < TreeWidth(m.n, h - 1)
                THEN Join(left, g[[pos |-> 2 * at.pos + 1, bits |-> left.bits,
                                   hashes |-> left.hashes]])
                ELSE [left EXCEPT !.hash = HashPair(@, @)]]

\* The walk of the client through all heights.
IsVisit(m, visit) == \A h \in Nat : visit[h] = VisitLevel(m, h, visit[h - 1])

\* A place of it.
CursorAt(pos, b, k) == [pos |-> pos, bits |-> b, hashes |-> k]

\* What is written of a node, and what is found of it.
Written(V) == [bits : Seq(BOOLEAN), hashes : Seq(V)]
Found(V) == [bits : Nat, hashes : Nat, bad : BOOLEAN, match : Seq(V), hash : V]

\* The hashes at all places.
Hashes(n) == {CalcHash(n, h, p) : h \in Nat, p \in Nat}

\* What the node writes at a height is of the type of Written.
LEMMA BuildLevelType ==
  ASSUME NEW n, NEW F, NEW h \in Nat, NEW g, h # 0 => g \in Level(Nat, Written(Hashes(n)))
  PROVE  BuildLevel(n, F, h, g) \in Level(Nat, Written(Hashes(n)))
<1> DEFINE V == Hashes(n)
           body(pos) ==
             IF h = 0 \/ ~IsParent(F, h, pos)
               THEN [bits |-> <<IsParent(F, h, pos)>>, hashes |-> <<CalcHash(n, h, pos)>>]
             ELSE IF 2 * pos + 1 < TreeWidth(n, h - 1)
               THEN [bits |-> <<TRUE>> \o (g[2 * pos].bits \o g[2 * pos + 1].bits),
                     hashes |-> g[2 * pos].hashes \o g[2 * pos + 1].hashes]
             ELSE [bits |-> <<TRUE>> \o g[2 * pos].bits, hashes |-> g[2 * pos].hashes]
<1>1. ASSUME NEW pos \in Nat
      PROVE  body(pos) \in Written(V)
  <2>1. CASE h = 0 \/ ~IsParent(F, h, pos)
    <3>1. CalcHash(n, h, pos) \in V
      BY DEF Hashes
    <3>2. IsParent(F, h, pos) \in BOOLEAN
      BY DEF IsParent
    <3>3. <<IsParent(F, h, pos)>> \in Seq(BOOLEAN)
      BY <3>2
    <3> HIDE DEF V
    <3>4. <<CalcHash(n, h, pos)>> \in Seq(V)
      BY <3>1
    <3>5. QED
      BY <2>1, <3>3, <3>4 DEF Written
  <2>2. CASE ~(h = 0 \/ ~IsParent(F, h, pos))
    <3>1. g[2 * pos] \in Written(V) /\ g[2 * pos + 1] \in Written(V)
      BY <2>2 DEF Level
    <3> HIDE DEF V
    <3>2. <<TRUE>> \in Seq(BOOLEAN)
      OBVIOUS
    <3>3. QED
      BY <2>2, <3>1, <3>2 DEF Written
  <2>3. QED
    BY <2>1, <2>2
<1>2. BuildLevel(n, F, h, g) = [pos \in Nat |-> body(pos)]
  BY DEF BuildLevel
<1> HIDE DEF body
<1>3. QED
  BY <1>1, <1>2 DEF Level

\* The recursive function in TraverseAndBuild is what its definition says.
LEMMA BuildIs ==
  ASSUME NEW n, NEW F
  PROVE  \E build \in [Nat -> Level(Nat, Written(Hashes(n)))] :
           /\ TraverseAndBuild(n, F) = build[Height(n)][0]
           /\ \A h \in Nat : build[h] = BuildLevel(n, F, h, build[h - 1])
<1> DEFINE Is(f) == f = [h \in Nat |-> BuildLevel(n, F, h, f[h - 1])]
           b == CHOOSE f : Is(f)
           W == Level(Nat, Written(Hashes(n)))
           z == BuildLevel(n, F, 0, <<>>)
           step == [h \in Nat |-> [g \in W |-> BuildLevel(n, F, h, g)]]
<1>1. z \in W
  BY BuildLevelType
<1>2. step \in Steps(W)
  <2>1. ASSUME NEW h \in Nat, NEW g \in W
        PROVE  BuildLevel(n, F, h, g) \in W
    BY BuildLevelType
  <2> HIDE DEF W
  <2>2. QED
    BY <2>1 DEF Steps
<1>3. PICK f \in [Nat -> W] : Recurs(f, z, step)
  <2> HIDE DEF z, step
  <2>1. z \in W /\ step \in Steps(W)
    BY <1>1, <1>2
  <2>2. QED
    BY ONLY <2>1, StepRecursion
<1> HIDE DEF W
<1>4. ASSUME NEW h \in Nat
      PROVE  f[h] = BuildLevel(n, F, h, f[h - 1])
  <2>1. CASE h = 0
    <3>1. BuildLevel(n, F, 0, <<>>) = BuildLevel(n, F, 0, f[0 - 1])
      BY DEF BuildLevel
    <3>2. QED
      BY <2>1, <3>1, <1>3 DEF Recurs
  <2>2. CASE h # 0
    <3>1. h - 1 \in Nat /\ (h - 1) + 1 = h /\ f[h - 1] \in W
      BY <2>2, <1>3
    <3>2. f[(h - 1) + 1] = step[(h - 1) + 1][f[h - 1]]
      <4> HIDE DEF step
      <4>1. QED
        BY <3>1, <1>3 DEF Recurs
    <3>3. step[h][f[h - 1]] = BuildLevel(n, F, h, f[h - 1])
      BY <3>1
    <3>4. QED
      <4> HIDE DEF step
      <4>1. QED
        BY <3>1, <3>2, <3>3
  <2>3. QED
    BY <2>1, <2>2
<1>5. Is(f)
  <2>1. f = [h \in Nat |-> f[h]]
    BY <1>3
  <2>2. QED
    BY <2>1, <1>4
<1>6. Is(b)
  <2> HIDE DEF Is
  <2>1. QED
    BY <1>5
<1>7. TraverseAndBuild(n, F) = b[Height(n)][0]
  BY DEF TraverseAndBuild, BuildLevel, IsParent
<1> HIDE DEF b
<1>8. ASSUME NEW h \in Nat
      PROVE  b[h] = BuildLevel(n, F, h, b[h - 1])
  BY <1>6
<1> DEFINE S == {h \in Nat : b[h] \in W}
<1>9. Nat \subseteq S
  <2>1. 0 \in S
    BY <1>8, BuildLevelType DEF W
  <2>2. ASSUME NEW h \in Nat, h \in S
        PROVE  h + 1 \in S
    <3>1. h + 1 \in Nat /\ (h + 1) - 1 = h
      OBVIOUS
    <3>2. BuildLevel(n, F, h + 1, b[h]) \in W
      BY <2>2, <3>1, BuildLevelType DEF W
    <3>3. b[h + 1] = BuildLevel(n, F, h + 1, b[(h + 1) - 1])
      BY <3>1, <1>8
    <3>4. QED
      BY <3>1, <3>2, <3>3
  <2>3. QED
    <3> HIDE DEF S
    <3>1. QED
      BY <2>1, <2>2, NatSetInduction
<1>10. b \in [Nat -> W]
  <2>1. b = [h \in Nat |-> b[h]]
    BY <1>6, <1>8
  <2>2. \A h \in Nat : b[h] \in W
    BY <1>9
  <2>3. QED
    BY <2>1, <2>2
<1>11. QED
  BY <1>7, <1>8, <1>10 DEF W

\* What the client finds at a height is of the type of Found.
LEMMA VisitLevelType ==
  ASSUME NEW V, <<>> \in V, \A x, y \in V : HashPair(x, y) \in V,
         NEW m, m.hashes \in Seq(V), m.bits \in Seq(BOOLEAN),
         NEW h \in Nat, NEW g, h # 0 => g \in Level(Cursor, Found(V))
  PROVE  VisitLevel(m, h, g) \in Level(Cursor, Found(V))
<1> DEFINE body(at) ==
             IF at.bits >= Len(m.bits) THEN Exhausted(at.bits, at.hashes)
             ELSE IF h = 0 \/ ~m.bits[at.bits + 1]
               THEN Leaf(m, h, at.bits + 1, at.hashes, m.bits[at.bits + 1])
             ELSE LET left == g[[pos |-> 2 * at.pos, bits |-> at.bits + 1,
                                 hashes |-> at.hashes]]
                  IN  IF 2 * at.pos + 1 < TreeWidth(m.n, h - 1)
                        THEN Join(left, g[[pos |-> 2 * at.pos + 1, bits |-> left.bits,
                                           hashes |-> left.hashes]])
                        ELSE [left EXCEPT !.hash = HashPair(@, @)]
<1>1. ASSUME NEW at \in Cursor
      PROVE  body(at) \in Found(V)
  <2>1. at.pos \in Nat /\ at.bits \in Nat /\ at.hashes \in Nat
    BY DEF Cursor
  <2>2. <<>> \in Seq(V)
    OBVIOUS
  <2>3. CASE at.bits >= Len(m.bits)
    BY <2>1, <2>2, <2>3 DEF Exhausted, Found
  <2>4. CASE ~(at.bits >= Len(m.bits)) /\ (h = 0 \/ ~m.bits[at.bits + 1])
    <3>1. at.bits + 1 \in Nat
      BY <2>1
    <3>2. PICK par, b : par = m.bits[at.bits + 1] /\ b = at.bits + 1
      OBVIOUS
    <3>3. CASE at.hashes >= Len(m.hashes)
      <4>1. Leaf(m, h, b, at.hashes, par) = Exhausted(b, at.hashes)
        BY <3>3 DEF Leaf
      <4>2. Exhausted(b, at.hashes) \in Found(V)
        BY <2>1, <2>2, <3>1, <3>2 DEF Exhausted, Found
      <4>3. QED
        BY <2>4, <3>2, <4>1, <4>2
    <3>4. CASE ~(at.hashes >= Len(m.hashes))
      <4>1. m.hashes[at.hashes + 1] \in V
        BY <2>1, <3>4
      <4>2. PICK s : s \in Seq(V) /\ s = IF h = 0 /\ par THEN <<m.hashes[at.hashes + 1]>> ELSE <<>>
        <5>1. <<m.hashes[at.hashes + 1]>> \in Seq(V)
          BY <4>1
        <5>2. QED
          BY <5>1, <2>2
      <4>3. Leaf(m, h, b, at.hashes, par)
              = [bits |-> b, hashes |-> at.hashes + 1, bad |-> FALSE,
                 match |-> s, hash |-> m.hashes[at.hashes + 1]]
        BY <3>4, <4>2 DEF Leaf
      <4>4. Leaf(m, h, b, at.hashes, par) \in Found(V)
        <5>1. at.hashes + 1 \in Nat
          BY <2>1
        <5>2. b \in Nat
          BY <3>1, <3>2
        <5>3. [bits |-> b, hashes |-> at.hashes + 1, bad |-> FALSE,
               match |-> s, hash |-> m.hashes[at.hashes + 1]] \in Found(V)
          BY ONLY <5>1, <5>2, <4>1, <4>2 DEF Found
        <5>4. QED
          BY <4>3, <5>3
      <4>5. QED
        BY <2>4, <3>2, <4>4
    <3>5. QED
      BY <3>3, <3>4
  <2>5. CASE ~(at.bits >= Len(m.bits)) /\ ~(h = 0 \/ ~m.bits[at.bits + 1])
    <3> DEFINE atl == [pos |-> 2 * at.pos, bits |-> at.bits + 1, hashes |-> at.hashes]
               left == g[atl]
               atr == [pos |-> 2 * at.pos + 1, bits |-> left.bits, hashes |-> left.hashes]
               right == g[atr]
    <3>1. atl \in Cursor
      BY <2>1 DEF Cursor
    <3>2. left \in Found(V)
      <4> HIDE DEF atl
      <4>1. QED
        BY <2>5, <3>1 DEF Level
    <3>3. atr \in Cursor
      <4> HIDE DEF left
      <4>1. QED
        BY <2>1, <3>2 DEF Cursor, Found
    <3>4. right \in Found(V)
      <4> HIDE DEF atr
      <4>1. QED
        BY <2>5, <3>3 DEF Level
    <3>5. body(at) = IF 2 * at.pos + 1 < TreeWidth(m.n, h - 1) THEN Join(left, right)
                     ELSE [left EXCEPT !.hash = HashPair(@, @)]
      BY <2>5
    <3> HIDE DEF left, right
    <3>6. Join(left, right) \in Found(V)
      <4>1. (right.hash = left.hash) \in BOOLEAN
        OBVIOUS
      <4>2. left.match \o right.match \in Seq(V)
        BY <3>2, <3>4 DEF Found
      <4>3. HashPair(left.hash, right.hash) \in V
        BY <3>2, <3>4 DEF Found
      <4>4. (left.bad \/ right.bad \/ right.hash = left.hash) \in BOOLEAN
        OBVIOUS
      <4>5. QED
        BY <3>2, <3>4, <4>2, <4>3, <4>4 DEF Join, Found
    <3>7. [left EXCEPT !.hash = HashPair(@, @)] \in Found(V)
      BY <3>2 DEF Found
    <3>8. QED
      BY <3>5, <3>6, <3>7
  <2>6. QED
    BY <2>3, <2>4, <2>5
<1>2. VisitLevel(m, h, g) = [at \in Cursor |-> body(at)]
  BY DEF VisitLevel
<1> HIDE DEF body
<1>3. QED
  BY <1>1, <1>2 DEF Level

\* The recursive function in Traverse is what its definition says.
LEMMA VisitIs ==
  ASSUME NEW X, NEW m, m.hashes \in Seq(X), m.bits \in Seq(BOOLEAN)
  PROVE  \E V, visit :
           /\ X \subseteq V /\ visit \in [Nat -> Level(Cursor, Found(V))]
           /\ Traverse(m) = visit[Height(m.n)][CursorAt(0, 0, 0)] /\ IsVisit(m, visit)
<1> DEFINE Is(f) == f = [h \in Nat |-> VisitLevel(m, h, f[h - 1])]
           v == CHOOSE f : Is(f)
<1>1. PICK V : X \cup {<<>>} \subseteq V /\ \A x, y \in V : HashPair(x, y) \in V
  BY ClosedUnderPairs
<1> DEFINE W == Level(Cursor, Found(V))
           z == VisitLevel(m, 0, <<>>)
           step == [h \in Nat |-> [g \in W |-> VisitLevel(m, h, g)]]
<1>2. <<>> \in V /\ m.hashes \in Seq(V)
  BY <1>1
<1>3. ASSUME NEW h \in Nat, NEW g, h # 0 => g \in W
      PROVE  VisitLevel(m, h, g) \in W
  BY <1>1, <1>2, <1>3, VisitLevelType
<1>4. z \in W
  <2> HIDE DEF W
  <2>1. QED
    BY <1>3
<1>5. step \in Steps(W)
  <2> HIDE DEF W
  <2>1. QED
    BY <1>3 DEF Steps
<1>6. PICK f \in [Nat -> W] : Recurs(f, z, step)
  <2> HIDE DEF z, step
  <2>1. z \in W /\ step \in Steps(W)
    BY <1>4, <1>5
  <2>2. QED
    BY ONLY <2>1, StepRecursion
<1> HIDE DEF W
<1>7. ASSUME NEW h \in Nat
      PROVE  f[h] = VisitLevel(m, h, f[h - 1])
  <2>1. CASE h = 0
    <3>1. VisitLevel(m, 0, <<>>) = VisitLevel(m, 0, f[0 - 1])
      BY DEF VisitLevel
    <3>2. QED
      BY <2>1, <3>1, <1>6 DEF Recurs
  <2>2. CASE h # 0
    <3>1. h - 1 \in Nat /\ (h - 1) + 1 = h /\ f[h - 1] \in W
      BY <2>2, <1>6
    <3>2. f[(h - 1) + 1] = step[(h - 1) + 1][f[h - 1]]
      <4> HIDE DEF step
      <4>1. QED
        BY <3>1, <1>6 DEF Recurs
    <3>3. step[h][f[h - 1]] = VisitLevel(m, h, f[h - 1])
      BY <3>1
    <3>4. QED
      <4> HIDE DEF step
      <4>1. QED
        BY <3>1, <3>2, <3>3
  <2>3. QED
    BY <2>1, <2>2
<1>8. Is(f)
  <2>1. f = [h \in Nat |-> f[h]]
    BY <1>6
  <2>2. QED
    BY <2>1, <1>7
<1>9. Is(v)
  <2> HIDE DEF Is
  <2>1. QED
    BY <1>8
<1>10. Traverse(m) = v[Height(m.n)][[pos |-> 0, bits |-> 0, hashes |-> 0]]
  BY DEF Traverse, VisitLevel
<1> HIDE DEF v
<1>11. ASSUME NEW h \in Nat
       PROVE  v[h] = VisitLevel(m, h, v[h - 1])
  BY <1>9
<1> DEFINE S == {h \in Nat : v[h] \in W}
<1>12. Nat \subseteq S
  <2>1. 0 \in S
    BY <1>11, <1>3
  <2>2. ASSUME NEW h \in Nat, h \in S
        PROVE  h + 1 \in S
    <3>1. h + 1 \in Nat /\ (h + 1) - 1 = h
      OBVIOUS
    <3>2. VisitLevel(m, h + 1, v[h]) \in W
      BY <2>2, <3>1, <1>3
    <3>3. v[h + 1] = VisitLevel(m, h + 1, v[(h + 1) - 1])
      BY <3>1, <1>11
    <3>4. QED
      BY <3>1, <3>2, <3>3
  <2>3. QED
    <3> HIDE DEF S
    <3>1. QED
      BY <2>1, <2>2, NatSetInduction
<1>13. v \in [Nat -> W]
  <2>1. v = [h \in Nat |-> v[h]]
    BY <1>9, <1>11
  <2>2. \A h \in Nat : v[h] \in W
    BY <1>12
  <2>3. QED
    BY <2>1, <2>2
<1>14. QED
  BY <1>1, <1>10, <1>11, <1>13 DEF W, IsVisit, CursorAt

\* What it finds there when the bits are used up.
LEMMA VisitEnds ==
  ASSUME NEW m, NEW visit, IsVisit(m, visit), NEW h \in Nat, NEW at \in Cursor,
         at.bits >= Len(m.bits)
  PROVE  visit[h][at] = Exhausted(at.bits, at.hashes)
<1>1. visit[h] = VisitLevel(m, h, visit[h - 1])
  BY DEF IsVisit
<1>2. QED
  BY <1>1 DEF VisitLevel

\* Where it goes no deeper.
LEMMA VisitLeaf ==
  ASSUME NEW m, NEW visit, IsVisit(m, visit), NEW h \in Nat, NEW at \in Cursor,
         ~(at.bits >= Len(m.bits)), h = 0 \/ ~m.bits[at.bits + 1]
  PROVE  visit[h][at] = Leaf(m, h, at.bits + 1, at.hashes, m.bits[at.bits + 1])
<1>1. visit[h] = VisitLevel(m, h, visit[h - 1])
  BY DEF IsVisit
<1>2. QED
  BY <1>1 DEF VisitLevel

\* What it found of the children, if that is g at their height.
LeftChild(g, at) == g[CursorAt(2 * at.pos, at.bits + 1, at.hashes)]

RightChild(g, at) ==
  g[CursorAt(2 * at.pos + 1, LeftChild(g, at).bits, LeftChild(g, at).hashes)]

\* Where it visits the children.
LEMMA VisitParent ==
  ASSUME NEW m, NEW visit, IsVisit(m, visit), NEW h \in Nat, NEW at \in Cursor,
         ~(at.bits >= Len(m.bits)), h # 0, m.bits[at.bits + 1]
  PROVE  visit[h][at] =
           IF 2 * at.pos + 1 < TreeWidth(m.n, h - 1)
             THEN Join(LeftChild(visit[h - 1], at), RightChild(visit[h - 1], at))
             ELSE [LeftChild(visit[h - 1], at) EXCEPT !.hash = HashPair(@, @)]
<1>1. visit[h] = VisitLevel(m, h, visit[h - 1])
  BY DEF IsVisit
<1> DEFINE g == visit[h - 1]
<1> HIDE DEF g
<1>2. visit[h][at] =
        IF 2 * at.pos + 1 < TreeWidth(m.n, h - 1) THEN Join(LeftChild(g, at), RightChild(g, at))
        ELSE [LeftChild(g, at) EXCEPT !.hash = HashPair(@, @)]
  BY <1>1 DEF VisitLevel, CursorAt, g, LeftChild, RightChild
<1>3. QED
  BY <1>2 DEF g

\* What two children that are found say of their parent.
LEMMA JoinIs ==
  ASSUME NEW left, NEW right
  PROVE  /\ Join(left, right).bits = right.bits /\ Join(left, right).hashes = right.hashes
         /\ Join(left, right).match = left.match \o right.match
         /\ Join(left, right).hash = HashPair(left.hash, right.hash)
         /\ ~Join(left, right).bad <=> ~left.bad /\ ~right.bad /\ right.hash # left.hash
BY DEF Join

----------------------------------------------------------------------------
(* What is found in any message.                                           *)

\* Hashes at height d of the tree of n transactions, from left to right, from
\* place lo on and before place hi.
Placed(n, d, lo, hi, match) ==
  /\ \A i \in DOMAIN match : \E q \in Nat :
       q < TreeWidth(n, d) /\ lo <= q /\ q < hi /\ match[i] = CalcHash(n, d, q)
  /\ \A i, j \in DOMAIN match : i < j =>
       \E q, r \in Nat : q < r /\ match[i] = CalcHash(n, d, q) /\ match[j] = CalcHash(n, d, r)

\* Those of the left child stand before those of the right one.
LEMMA PlacedJoin ==
  ASSUME NEW n, NEW d, NEW lo \in Nat, NEW mid \in Nat, NEW hi \in Nat, lo <= mid, mid <= hi,
         NEW V, NEW s \in Seq(V), NEW t \in Seq(V),
         TreeWidth(n, d) \in Nat,
         Placed(n, d, lo, mid, s), Placed(n, d, mid, hi, t)
  PROVE  Placed(n, d, lo, hi, s \o t)
<1> DEFINE u == s \o t
           In(i, a, b, q) == /\ q < TreeWidth(n, d) /\ a <= q /\ q < b
                             /\ u[i] = CalcHash(n, d, q)
<1>1. /\ DOMAIN u = 1..(Len(s) + Len(t)) /\ DOMAIN s = 1..Len(s) /\ DOMAIN t = 1..Len(t)
      /\ Len(s) \in Nat /\ Len(t) \in Nat
  OBVIOUS
<1>2. \A i \in 1..Len(s) : u[i] = s[i]
  OBVIOUS
<1>3. ASSUME NEW i \in 1..(Len(s) + Len(t)), i > Len(s)
      PROVE  i - Len(s) \in 1..Len(t) /\ u[i] = t[i - Len(s)]
  BY <1>1, <1>3
<1> HIDE DEF u
<1>4. ASSUME NEW i \in 1..(Len(s) + Len(t))
      PROVE  \E q \in Nat : IF i <= Len(s) THEN In(i, lo, mid, q) ELSE In(i, mid, hi, q)
  <2>1. CASE i <= Len(s)
    <3>1. i \in 1..Len(s)
      BY <1>1, <2>1
    <3>2. QED
      BY <1>1, <1>2, <2>1, <3>1 DEF Placed
  <2>2. CASE ~(i <= Len(s))
    <3>1. i - Len(s) \in DOMAIN t /\ u[i] = t[i - Len(s)]
      BY <1>1, <1>3, <2>2
    <3>2. PICK q \in Nat :
            q < TreeWidth(n, d) /\ mid <= q /\ q < hi /\ t[i - Len(s)] = CalcHash(n, d, q)
      BY <3>1 DEF Placed
    <3>3. QED
      BY <2>2, <3>1, <3>2
  <2>3. QED
    BY <2>1, <2>2
<1>5. ASSUME NEW i \in DOMAIN u
      PROVE  \E q \in Nat : In(i, lo, hi, q)
  <2>1. i \in 1..(Len(s) + Len(t))
    BY <1>1
  <2>2. PICK q \in Nat : IF i <= Len(s) THEN In(i, lo, mid, q) ELSE In(i, mid, hi, q)
    BY <1>4, <2>1
  <2>3. QED
    BY <2>2
<1>6. ASSUME NEW i \in DOMAIN u, NEW j \in DOMAIN u, i < j
      PROVE  \E q, r \in Nat : q < r /\ u[i] = CalcHash(n, d, q) /\ u[j] = CalcHash(n, d, r)
  <2>1. i \in 1..(Len(s) + Len(t)) /\ j \in 1..(Len(s) + Len(t))
    BY <1>1
  <2>2. CASE j <= Len(s)
    <3>1. i \in DOMAIN s /\ j \in DOMAIN s /\ u[i] = s[i] /\ u[j] = s[j]
      BY <1>1, <1>2, <1>6, <2>1, <2>2
    <3>2. QED
      BY <3>1, <1>6 DEF Placed
  <2>3. CASE i > Len(s)
    <3>1. /\ i - Len(s) \in DOMAIN t /\ j - Len(s) \in DOMAIN t
          /\ i - Len(s) < j - Len(s)
          /\ u[i] = t[i - Len(s)] /\ u[j] = t[j - Len(s)]
      <4>1. j > Len(s) /\ i - Len(s) < j - Len(s)
        BY <1>1, <1>6, <2>1, <2>3
      <4>2. QED
        BY <1>1, <1>3, <2>1, <2>3, <4>1
    <3>2. QED
      BY <3>1 DEF Placed
  <2>4. CASE i <= Len(s) /\ ~(j <= Len(s))
    <3>1. PICK q \in Nat : In(i, lo, mid, q)
      BY <1>4, <2>1, <2>4
    <3>2. PICK r \in Nat : In(j, mid, hi, r)
      BY <1>4, <2>1, <2>4
    <3>3. QED
      BY <3>1, <3>2
  <2>5. QED
    BY <1>1, <2>1, <2>2, <2>3, <2>4
<1>7. QED
  BY <1>5, <1>6 DEF Placed, u

\* A larger span.
LEMMA PlacedWiden ==
  ASSUME NEW n, NEW d, NEW lo \in Nat, NEW hi \in Nat, NEW match,
         NEW a \in Nat, NEW b \in Nat, a <= lo, hi <= b, TreeWidth(n, d) \in Nat,
         Placed(n, d, lo, hi, match)
  PROVE  Placed(n, d, a, b, match)
<1>1. ASSUME NEW i \in DOMAIN match
      PROVE  \E q \in Nat : q < TreeWidth(n, d) /\ a <= q /\ q < b /\ match[i] = CalcHash(n, d, q)
  <2>1. PICK q \in Nat :
          q < TreeWidth(n, d) /\ lo <= q /\ q < hi /\ match[i] = CalcHash(n, d, q)
    BY DEF Placed
  <2>2. a <= q /\ q < b
    BY <2>1
  <2>3. QED
    BY <2>1, <2>2
<1>2. QED
  BY <1>1 DEF Placed

\* A node that is found at place p of height k of the tree, not bad: the matches
\* under it are under that place, as deep as they were found.
LEMMA FoundPlaced ==
  ASSUME NEW n \in 1..MaxTx, NEW m, NEW V, NEW visit \in [Nat -> Level(Cursor, Found(V))],
         IsVisit(m, visit)
  PROVE  \A h \in Nat : \A at \in Cursor : \A k, p \in Nat :
           /\ k <= Height(n) /\ p < TreeWidth(n, k)
           /\ ~visit[h][at].bad /\ visit[h][at].hash = CalcHash(n, k, p)
           => \/ visit[h][at].match = <<>>
              \/ h <= k /\ Placed(n, k - h, p * Pow2[h], (p + 1) * Pow2[h], visit[h][at].match)
<1> DEFINE Good(h, at, k, p) ==
             \/ visit[h][at].match = <<>>
             \/ h <= k /\ Placed(n, k - h, p * Pow2[h], (p + 1) * Pow2[h], visit[h][at].match)
           Hyp(h, at, k, p) ==
             /\ k <= Height(n) /\ p < TreeWidth(n, k)
             /\ ~visit[h][at].bad /\ visit[h][at].hash = CalcHash(n, k, p)
           S == {h \in Nat : \A at \in Cursor : \A k, p \in Nat :
                               Hyp(h, at, k, p) => Good(h, at, k, p)}
<1>1. n \in Nat /\ n # 0 /\ Height(n) \in Nat
  BY FilteredAssumption, HeightIs
<1>2. ASSUME NEW h \in Nat, NEW at \in Cursor
      PROVE  visit[h][at] \in Found(V)
  BY DEF Level
<1>3. ASSUME NEW at \in Cursor
      PROVE  at.pos \in Nat /\ at.bits \in Nat /\ at.hashes \in Nat
  BY DEF Cursor
<1>4. ASSUME NEW at \in Cursor, NEW k \in Nat, NEW p \in Nat, Hyp(0, at, k, p)
      PROVE  Good(0, at, k, p)
  <2> DEFINE c == visit[0][at]
  <2>1. ~(at.bits >= Len(m.bits)) /\ c = Leaf(m, 0, at.bits + 1, at.hashes, m.bits[at.bits + 1])
    <3>1. 0 \in Nat
      OBVIOUS
    <3>2. at.bits >= Len(m.bits) => c = Exhausted(at.bits, at.hashes)
      BY <3>1, VisitEnds
    <3>3. ~(at.bits >= Len(m.bits))
      BY <1>4, <3>2 DEF Exhausted
    <3>4. QED
      BY <3>1, <3>3, VisitLeaf
  <2>2. ~(at.hashes >= Len(m.hashes))
    BY <1>4, <2>1 DEF Leaf, Exhausted
  <2>3. c.match = <<>> \/ c.match = <<c.hash>>
    BY <2>1, <2>2 DEF Leaf
  <2>4. CASE c.match = <<c.hash>>
    <3>1. 0 <= k /\ k - 0 = k /\ p * Pow2[0] = p /\ (p + 1) * Pow2[0] = p + 1
      BY Pow2Def
    <3>2. c.match = <<CalcHash(n, k, p)>>
      BY <2>4, <1>4
    <3>3. Placed(n, k, p, p + 1, <<CalcHash(n, k, p)>>)
      <4>1. \A i \in DOMAIN <<CalcHash(n, k, p)>> : i = 1
        OBVIOUS
      <4>2. p < TreeWidth(n, k) /\ p <= p /\ p < p + 1
        BY <1>4
      <4>3. QED
        BY <4>1, <4>2 DEF Placed
    <3>4. QED
      BY <3>1, <3>2, <3>3
  <2>5. QED
    BY <2>3, <2>4
<1>5. ASSUME NEW h \in Nat, h \in S, NEW at \in Cursor, NEW k \in Nat, NEW p \in Nat,
             Hyp(h + 1, at, k, p)
      PROVE  Good(h + 1, at, k, p)
  <2> DEFINE parent == m.bits[at.bits + 1]
  <2>1. PICK g \in Nat : g = h + 1
    OBVIOUS
  <2>2. g # 0 /\ g - 1 = h
    BY <2>1
  <2>3. PICK c : c = visit[g][at]
    OBVIOUS
  <2>4. ~c.bad /\ c.hash = CalcHash(n, k, p)
    BY <1>5, <2>1, <2>3
  <2>5. ~(at.bits >= Len(m.bits))
    <3>1. at.bits >= Len(m.bits) => c = Exhausted(at.bits, at.hashes)
      BY <2>3, VisitEnds
    <3>2. QED
      BY <2>4, <3>1 DEF Exhausted
  <2>6. CASE ~parent
    <3>1. c = Leaf(m, g, at.bits + 1, at.hashes, parent)
      BY <2>3, <2>5, <2>6, VisitLeaf
    <3>2. c.match = <<>>
      BY <2>2, <3>1 DEF Leaf, Exhausted
    <3>3. QED
      BY <2>1, <2>3, <3>2
  <2>7. CASE parent
    <3> DEFINE atl == CursorAt(2 * at.pos, at.bits + 1, at.hashes)
    <3>1. PICK left, right :
            /\ left = visit[h][atl]
            /\ right = visit[h][CursorAt(2 * at.pos + 1, left.bits, left.hashes)]
            /\ c = IF 2 * at.pos + 1 < TreeWidth(m.n, h) THEN Join(left, right)
                   ELSE [left EXCEPT !.hash = HashPair(@, @)]
      <4>1. c = IF 2 * at.pos + 1 < TreeWidth(m.n, g - 1)
                  THEN Join(LeftChild(visit[g - 1], at), RightChild(visit[g - 1], at))
                  ELSE [LeftChild(visit[g - 1], at) EXCEPT !.hash = HashPair(@, @)]
        BY <2>2, <2>5, <2>7, <2>3, VisitParent
      <4>2. PICK left : left = LeftChild(visit[h], at)
        OBVIOUS
      <4>3. PICK right : right = RightChild(visit[h], at)
        OBVIOUS
      <4>4. c = IF 2 * at.pos + 1 < TreeWidth(m.n, h) THEN Join(left, right)
                ELSE [left EXCEPT !.hash = HashPair(@, @)]
        BY <2>2, <4>1, <4>2, <4>3
      <4>5. QED
        BY <4>2, <4>3, <4>4 DEF LeftChild, RightChild
    <3> DEFINE atr == CursorAt(2 * at.pos + 1, left.bits, left.hashes)
    <3>2. atl \in Cursor /\ left \in Found(V)
      <4>1. atl \in Cursor
        BY <1>3 DEF CursorAt, Cursor
      <4>2. QED
        BY <1>2, <3>1, <4>1
    <3>3. atr \in Cursor /\ right \in Found(V)
      <4>1. atr \in Cursor
        BY <1>3, <3>2 DEF CursorAt, Cursor, Found
      <4>2. QED
        BY <1>2, <3>1, <4>1
    <3> HIDE DEF atl, atr
    <3>4. k # 0
      <4>1. PICK x, y : c.hash = <<x, y>>
        <5>1. c.hash = HashPair(left.hash, right.hash) \/ c.hash = HashPair(left.hash, left.hash)
          BY <3>1, <3>2 DEF Join, Found
        <5>2. QED
          BY <5>1 DEF HashPair
      <4>2. SUFFICES ASSUME k = 0 PROVE FALSE
        OBVIOUS
      <4>3. c.hash = <<p + 1>>
        BY <2>4, <4>2, LeafHash
      <4>4. <<x, y>> = <<p + 1>>
        BY <4>1, <4>3
      <4>5. QED
        BY <4>4
    <3>5. /\ k - 1 \in Nat /\ (k - 1) + 1 = k /\ k - 1 <= Height(n) /\ (k - 1) + 1 <= Height(n)
          /\ TreeWidth(n, k - 1) \in Nat
      <4>1. k - 1 \in Nat /\ (k - 1) + 1 = k /\ k <= Height(n)
        BY <1>5, <3>4
      <4>2. QED
        <5>1. TreeWidth(n, k - 1) \in Nat
          BY <1>1, <4>1, TreeWidthType
        <5>2. k - 1 <= Height(n)
          BY <1>1, <4>1
        <5>3. QED
          BY <4>1, <5>1, <5>2
    <3>6. c.hash = <<CalcHash(n, k - 1, 2 * p), CalcHash(n, k - 1, RightOf(n, k - 1, p))>>
      BY <2>4, <3>4, ParentHash
    <3>7. 2 * p \in Nat /\ 2 * p < TreeWidth(n, k - 1)
      <4>1. p < TreeWidth(n, (k - 1) + 1)
        BY <1>5, <3>5
      <4>2. QED
        BY <3>5, <4>1, Children
    <3> DEFINE d == k - (h + 1)
               P == Pow2[h]
    <3>8. /\ P \in Nat /\ Pow2[h + 1] = 2 * P
          /\ 2 * p * P = p * Pow2[h + 1] /\ (2 * p + 1 + 1) * P = (p + 1) * Pow2[h + 1]
      <4>1. P \in Nat /\ Pow2[h + 1] = 2 * P
        BY Pow2Def
      <4> HIDE DEF P
      <4>2. QED
        BY <4>1
    <3>9. /\ 2 * p * P \in Nat /\ (2 * p + 1) * P \in Nat /\ (2 * p + 1 + 1) * P \in Nat
          /\ 2 * p * P <= (2 * p + 1) * P /\ (2 * p + 1) * P <= (2 * p + 1 + 1) * P
      <4> HIDE DEF P
      <4>1. (2 * p + 1) * P = 2 * p * P + P /\ (2 * p + 1 + 1) * P = (2 * p + 1) * P + P
        BY <3>8
      <4>2. 2 * p * P \in Nat
        BY <3>8
      <4>3. QED
        BY <3>8, <4>1, <4>2
    <3>10. h <= k - 1 => h + 1 <= k /\ (k - 1) - h = d /\ d \in Nat
      BY <3>5
    <3>11. d \in Nat => TreeWidth(n, d) \in Nat
      BY <1>1, TreeWidthType
    <3> DEFINE Half(q, s) == \/ s = <<>>
                             \/ h + 1 <= k /\ d \in Nat /\ Placed(n, d, q * P, (q + 1) * P, s)
    <3>12. ~left.bad /\ left.hash = CalcHash(n, k - 1, 2 * p) => Half(2 * p, left.match)
      <4>1. SUFFICES ASSUME ~left.bad, left.hash = CalcHash(n, k - 1, 2 * p)
                     PROVE  Half(2 * p, left.match)
        OBVIOUS
      <4>2. Hyp(h, atl, k - 1, 2 * p)
        BY <3>1, <3>5, <3>7, <4>1
      <4>3. Good(h, atl, k - 1, 2 * p)
        BY <1>5, <3>2, <3>5, <3>7, <4>2
      <4>4. QED
        BY <3>1, <3>10, <4>3
    <3>13. ASSUME 2 * p + 1 < TreeWidth(n, k - 1), ~right.bad,
                  right.hash = CalcHash(n, k - 1, 2 * p + 1)
           PROVE  Half(2 * p + 1, right.match)
      <4>1. 2 * p + 1 \in Nat
        OBVIOUS
      <4>2. right = visit[h][atr]
        BY <3>1 DEF atr
      <4>3. Hyp(h, atr, k - 1, 2 * p + 1)
        BY <3>5, <3>13, <4>2
      <4>4. Good(h, atr, k - 1, 2 * p + 1)
        BY <1>5, <3>3, <3>5, <4>1, <4>3
      <4>5. QED
        BY <4>2, <3>10, <4>4
    <3>14. CASE 2 * at.pos + 1 < TreeWidth(m.n, h)
      <4>1. c = Join(left, right)
        BY <3>1, <3>14
      <4>2. /\ ~left.bad /\ ~right.bad /\ right.hash # left.hash
            /\ c.match = left.match \o right.match /\ c.hash = <<left.hash, right.hash>>
        <5>1. ~c.bad
          BY <2>4
        <5>2. c.match = left.match \o right.match /\ c.hash = HashPair(left.hash, right.hash)
          BY <4>1, JoinIs
        <5>3. ~left.bad /\ ~right.bad /\ right.hash # left.hash
          BY <4>1, <5>1, JoinIs
        <5>4. QED
          BY <5>2, <5>3 DEF HashPair
      <4>3. /\ left.hash = CalcHash(n, k - 1, 2 * p)
            /\ right.hash = CalcHash(n, k - 1, RightOf(n, k - 1, p))
        BY <3>6, <4>2
      <4>4. 2 * p + 1 < TreeWidth(n, k - 1) /\ right.hash = CalcHash(n, k - 1, 2 * p + 1)
        BY <4>2, <4>3 DEF RightOf
      <4>5. Half(2 * p, left.match) /\ Half(2 * p + 1, right.match)
        BY <3>12, <3>13, <4>2, <4>3, <4>4
      <4>6. left.match \in Seq(V) /\ right.match \in Seq(V)
        BY <3>2, <3>3 DEF Found
      <4> DEFINE s == left.match
                 t == right.match
      <4> HIDE DEF s, t, d, P
      <4>7. s \in Seq(V) /\ t \in Seq(V) /\ c.match = s \o t
        BY <4>2, <4>6 DEF s, t
      <4>8. Half(2 * p, s) /\ Half(2 * p + 1, t)
        BY <4>5 DEF s, t
      <4>9. CASE s = <<>> /\ t = <<>>
        <5>1. c.match = <<>>
          BY <4>7, <4>9
        <5>2. QED
          BY <2>1, <2>3, <5>1
      <4>10. CASE s # <<>> \/ t # <<>>
        <5>1. h + 1 <= k /\ d \in Nat /\ TreeWidth(n, d) \in Nat
          BY <3>11, <4>8, <4>10 DEF d
        <5>2. \A lo, hi \in Nat : Placed(n, d, lo, hi, <<>>)
          BY DEF Placed
        <5>3. /\ Placed(n, d, 2 * p * P, (2 * p + 1) * P, s)
              /\ Placed(n, d, (2 * p + 1) * P, (2 * p + 1 + 1) * P, t)
          BY <3>9, <4>8, <5>2 DEF d, P
        <5>4. Placed(n, d, 2 * p * P, (2 * p + 1 + 1) * P, s \o t)
          BY <3>9, <4>7, <5>1, <5>3, PlacedJoin DEF P
        <5>5. Placed(n, k - (h + 1), p * Pow2[h + 1], (p + 1) * Pow2[h + 1], c.match)
          BY <3>8, <4>7, <5>4 DEF d, P
        <5>6. QED
          BY <2>1, <2>3, <5>1, <5>5
      <4>11. QED
        BY <4>9, <4>10
    <3>15. CASE ~(2 * at.pos + 1 < TreeWidth(m.n, h))
      <4>1. c = [left EXCEPT !.hash = HashPair(@, @)]
        BY <3>1, <3>15
      <4>2. c.match = left.match /\ c.bad = left.bad /\ c.hash = <<left.hash, left.hash>>
        BY <3>2, <4>1 DEF Found, HashPair
      <4>3. ~left.bad /\ left.hash = CalcHash(n, k - 1, 2 * p)
        BY <2>4, <3>6, <4>2
      <4>4. Half(2 * p, left.match)
        BY <3>12, <4>3
      <4>5. CASE left.match = <<>>
        BY <2>1, <2>3, <4>2, <4>5
      <4>6. CASE /\ h + 1 <= k /\ d \in Nat
                 /\ Placed(n, d, 2 * p * P, (2 * p + 1) * P, left.match)
        <5> HIDE DEF d, P
        <5>1. Placed(n, d, 2 * p * P, (2 * p + 1 + 1) * P, left.match)
          <6>1. TreeWidth(n, d) \in Nat /\ 2 * p * P <= 2 * p * P
            BY <3>9, <3>11, <4>6 DEF P, d
          <6>2. QED
            BY <3>9, <4>6, <6>1, PlacedWiden DEF P
        <5>2. Placed(n, k - (h + 1), p * Pow2[h + 1], (p + 1) * Pow2[h + 1], c.match)
          BY <3>8, <4>2, <5>1 DEF d, P
        <5>3. QED
          BY <2>1, <2>3, <4>6, <5>2
      <4>7. QED
        BY <4>4, <4>5, <4>6
    <3>16. QED
      BY <3>14, <3>15
  <2>8. QED
    BY <2>6, <2>7
<1> HIDE DEF Hyp, Good
<1>6. Nat \subseteq S
  <2>1. 0 \in S
    BY <1>4
  <2>2. ASSUME NEW h \in Nat, h \in S
        PROVE  h + 1 \in S
    BY <1>5, <2>2
  <2>3. QED
    <3> HIDE DEF S
    <3>1. QED
      BY <2>1, <2>2, NatSetInduction
<1>7. \A h \in Nat : \A at \in Cursor : \A k, p \in Nat : Hyp(h, at, k, p) => Good(h, at, k, p)
  BY <1>6
<1>8. QED
  BY <1>7 DEF Hyp, Good

\* What MatchesAreOfBlock says of a message and the matches it gave.
OfBlock(n, count, match) ==
  /\ ToSet(match) \subseteq NodesOfTree(n)
  /\ IsInjective(match)
  /\ count = n =>
       /\ ToSet(match) \subseteq ToSet(Txids(n))
       /\ \A i, j \in DOMAIN match : i < j => match[i][1] < match[j][1]

\* Hashes placed in the tree are of the block.
LEMMA PlacedOfBlock ==
  ASSUME NEW n \in 1..MaxTx, NEW d \in Nat, d <= Height(n), NEW lo, NEW hi,
         NEW V, NEW match \in Seq(V), Placed(n, d, lo, hi, match),
         NEW count, count = n => d = 0
  PROVE  OfBlock(n, count, match)
<1>1. n \in Nat /\ Height(n) \in Nat /\ TreeWidth(n, d) \in Nat
  <2>1. n \in Nat /\ Height(n) \in Nat
    BY FilteredAssumption, OneRoot
  <2>2. QED
    BY <2>1, TreeWidthType
<1>2. DOMAIN match = 1..Len(match) /\ Len(match) \in Nat
  OBVIOUS
<1>3. ASSUME NEW i \in DOMAIN match
      PROVE  match[i] \in NodesOfTree(n)
  <2>1. PICK q \in Nat : q < TreeWidth(n, d) /\ match[i] = CalcHash(n, d, q)
    BY DEF Placed
  <2>2. q \in 0..(TreeWidth(n, d) - 1) /\ d \in 0..Height(n)
    BY <1>1, <2>1
  <2>3. QED
    BY <2>1, <2>2 DEF NodesOfTree
<1>4. ASSUME NEW i \in DOMAIN match, NEW j \in DOMAIN match, i < j
      PROVE  match[i] # match[j]
  <2>1. PICK q, r \in Nat : /\ q < r /\ match[i] = CalcHash(n, d, q)
                            /\ match[j] = CalcHash(n, d, r)
    BY <1>4 DEF Placed
  <2>2. q # r
    BY <2>1
  <2>3. QED
    BY <2>1, <2>2, OnePlace
<1>5. IsInjective(match)
  <2>1. ASSUME NEW i \in DOMAIN match, NEW j \in DOMAIN match, match[i] = match[j]
        PROVE  i = j
    <3>1. ~(i < j) /\ ~(j < i)
      BY <1>4, <2>1
    <3>2. QED
      BY <1>2, <3>1
  <2>2. QED
    BY <2>1 DEF IsInjective
<1>6. ASSUME d = 0
      PROVE  /\ ToSet(match) \subseteq ToSet(Txids(n))
             /\ \A i, j \in DOMAIN match : i < j => match[i][1] < match[j][1]
  <2>1. \A p \in Nat : p < TreeWidth(n, 0) <=> p < n
    <3>1. 0 \in Nat /\ 0 <= Height(n) /\ Pow2[0] = 1
      BY <1>1, Pow2Def
    <3>2. \A p \in Nat : p < TreeWidth(n, 0) <=> p * Pow2[0] < n
      BY <3>1, WidthIs
    <3>3. QED
      BY <3>1, <3>2
  <2>2. \A q \in Nat : CalcHash(n, d, q) = <<q + 1>>
    BY <1>6, LeafHash
  <2>3. ASSUME NEW i \in DOMAIN match
        PROVE  match[i] \in ToSet(Txids(n))
    <3>1. PICK q \in Nat : q < TreeWidth(n, d) /\ match[i] = CalcHash(n, d, q)
      BY DEF Placed
    <3>2. q + 1 \in 1..n /\ match[i] = <<q + 1>>
      BY <1>1, <1>6, <2>1, <2>2, <3>1
    <3>3. Txids(n)[q + 1] = <<q + 1>> /\ q + 1 \in DOMAIN Txids(n)
      BY <3>2 DEF Txids
    <3>4. QED
      BY <3>2, <3>3 DEF ToSet
  <2>4. ASSUME NEW i \in DOMAIN match, NEW j \in DOMAIN match, i < j
        PROVE  match[i][1] < match[j][1]
    <3>1. PICK q, r \in Nat : /\ q < r /\ match[i] = CalcHash(n, d, q)
                              /\ match[j] = CalcHash(n, d, r)
      BY <2>4 DEF Placed
    <3>2. match[i] = <<q + 1>> /\ match[j] = <<r + 1>>
      BY <2>2, <3>1
    <3>3. match[i][1] = q + 1 /\ match[j][1] = r + 1
      BY <3>2
    <3>4. QED
      BY <3>1, <3>3
  <2>5. QED
    BY <2>3, <2>4 DEF ToSet
<1>7. ToSet(match) \subseteq NodesOfTree(n)
  BY <1>3 DEF ToSet
<1>8. QED
  BY <1>5, <1>6, <1>7 DEF OfBlock

\* Any message that is accepted against the root of a block gives what is of it.
LEMMA AcceptedOfBlock ==
  ASSUME NEW n \in 1..MaxTx, NEW X, NEW m, m.n \in Nat,
         m.hashes \in Seq(X), m.bits \in Seq(BOOLEAN),
         m.root = ComputeMerkleRoot(Txids(n)), ExtractMatches(m).ok
  PROVE  OfBlock(n, m.n, ExtractMatches(m).match)
<1>1. PICK V, visit :
        /\ X \subseteq V /\ visit \in [Nat -> Level(Cursor, Found(V))]
        /\ Traverse(m) = visit[Height(m.n)][CursorAt(0, 0, 0)] /\ IsVisit(m, visit)
  BY VisitIs
<1> DEFINE H == Height(n)
           h == Height(m.n)
           at == CursorAt(0, 0, 0)
           c == Traverse(m)
<1>2. m.n # 0 /\ ~c.bad /\ c.hash = m.root /\ ExtractMatches(m).match = c.match
  <2>1. Extract(m).ok /\ Extract(m).root = m.root
    BY DEF ExtractMatches, Rejected
  <2>2. ExtractMatches(m).match = Extract(m).match
    BY <2>1 DEF ExtractMatches, Accepted
  <2>3. m.n # 0 /\ ~c.bad
    BY <2>1 DEF Extract
  <2>4. Extract(m).root = c.hash /\ Extract(m).match = c.match
    BY DEF Extract
  <2>5. QED
    BY <2>1, <2>2, <2>3, <2>4
<1>3. n \in Nat /\ H \in Nat /\ h \in Nat /\ 0 < TreeWidth(n, H)
  BY <1>2, OneRoot, HeightIs, FilteredAssumption
<1>4. c.hash = CalcHash(n, H, 0)
  BY <1>2, RootIs
<1>5. at \in Cursor
  BY DEF Cursor, CursorAt
<1>6. c \in Found(V)
  <2> HIDE DEF at
  <2>1. visit[h][at] \in Found(V)
    BY <1>1, <1>3, <1>5 DEF Level
  <2>2. QED
    BY <1>1, <2>1 DEF at
<1>7. IsVisit(m, visit)
  BY <1>1
<1>8. \/ c.match = <<>>
      \/ h <= H /\ Placed(n, H - h, 0 * Pow2[h], (0 + 1) * Pow2[h], c.match)
  <2> HIDE DEF at, h, c
  <2>1. visit \in [Nat -> Level(Cursor, Found(V))] /\ c = visit[h][at]
    BY <1>1 DEF at, h, c
  <2>2. 0 \in Nat /\ H <= H
    BY <1>3
  <2>3. ~visit[h][at].bad /\ visit[h][at].hash = CalcHash(n, H, 0)
    BY <1>2, <1>4, <2>1 DEF c
  <2>4. \/ visit[h][at].match = <<>>
        \/ h <= H /\ Placed(n, H - h, 0 * Pow2[h], (0 + 1) * Pow2[h], visit[h][at].match)
    BY <1>3, <1>5, <1>7, <2>1, <2>2, <2>3, FoundPlaced
  <2>5. QED
    BY <2>1, <2>4
<1> HIDE DEF c
<1>9. c.match \in Seq(V)
  BY <1>6 DEF Found
<1>10. CASE c.match = <<>>
  <2>1. Placed(n, 0, 0, 0, c.match)
    BY <1>10 DEF Placed
  <2>2. 0 \in Nat /\ 0 <= H
    BY <1>3
  <2>3. OfBlock(n, m.n, c.match)
    BY <1>9, <2>1, <2>2, PlacedOfBlock
  <2>4. QED
    BY <1>2, <2>3
<1>11. CASE h <= H /\ Placed(n, H - h, 0 * Pow2[h], (0 + 1) * Pow2[h], c.match)
  <2>1. H - h \in Nat /\ H - h <= H
    BY <1>3, <1>11
  <2>2. m.n = n => H - h = 0
    BY <1>3
  <2>3. OfBlock(n, m.n, c.match)
    BY <1>9, <1>11, <2>1, <2>2, PlacedOfBlock
  <2>4. QED
    BY <1>2, <2>3
<1>12. QED
  BY <1>8, <1>10, <1>11

----------------------------------------------------------------------------
(* What is found in the message of the node.                               *)

\* The sequence u has s after its first b elements.
HasAt(u, b, s) == b + Len(s) <= Len(u) /\ \A i \in 1..Len(s) : u[b + i] = s[i]

\* What has a concatenation has its parts, one after the other.
LEMMA HasParts ==
  ASSUME NEW V, NEW u, NEW b \in Nat, NEW s \in Seq(V), NEW t \in Seq(V),
         Len(u) \in Nat, HasAt(u, b, s \o t)
  PROVE  HasAt(u, b, s) /\ HasAt(u, b + Len(s), t)
<1> DEFINE st == s \o t
<1>1. /\ Len(s) \in Nat /\ Len(t) \in Nat /\ Len(st) = Len(s) + Len(t)
      /\ \A i \in 1..Len(s) : st[i] = s[i]
      /\ \A i \in 1..Len(t) : st[Len(s) + i] = t[i]
  OBVIOUS
<1>2. b + Len(st) <= Len(u) /\ \A i \in 1..Len(st) : u[b + i] = st[i]
  BY DEF HasAt
<1> HIDE DEF st
<1>3. HasAt(u, b, s)
  <2>1. b + Len(s) <= Len(u)
    BY <1>1, <1>2
  <2>2. ASSUME NEW i \in 1..Len(s)
        PROVE  u[b + i] = s[i]
    <3>1. i \in 1..Len(st)
      BY <1>1
    <3>2. QED
      BY <1>1, <1>2, <3>1
  <2>3. QED
    BY <2>1, <2>2 DEF HasAt
<1>4. HasAt(u, b + Len(s), t)
  <2>1. (b + Len(s)) + Len(t) <= Len(u)
    BY <1>1, <1>2
  <2>2. ASSUME NEW i \in 1..Len(t)
        PROVE  u[(b + Len(s)) + i] = t[i]
    <3>1. Len(s) + i \in 1..Len(st) /\ b + (Len(s) + i) = (b + Len(s)) + i
      BY <1>1
    <3>2. u[b + (Len(s) + i)] = st[Len(s) + i]
      BY <1>2, <3>1
    <3>3. QED
      BY <1>1, <3>1, <3>2
  <2>3. QED
    BY <2>1, <2>2 DEF HasAt
<1>5. QED
  BY <1>3, <1>4

\* The message m has what was written of a node from bit b and hash k on.
Holds(m, b, k, w) == HasAt(m.bits, b, w.bits) /\ HasAt(m.hashes, k, w.hashes)

\* The writing of the node through all heights.
IsBuild(n, F, build) == \A h \in Nat : build[h] = BuildLevel(n, F, h, build[h - 1])

\* What it writes of a node with two children, and of one with a left child only.
WriteBoth(l, r) == [bits |-> <<TRUE>> \o (l.bits \o r.bits), hashes |-> l.hashes \o r.hashes]

WriteLeft(l) == [bits |-> <<TRUE>> \o l.bits, hashes |-> l.hashes]

\* What it writes where it goes no deeper.
LEMMA BuildLeaf ==
  ASSUME NEW n, NEW F, NEW build, IsBuild(n, F, build), NEW h \in Nat, NEW pos \in Nat,
         h = 0 \/ ~IsParent(F, h, pos)
  PROVE  /\ Len(build[h][pos].bits) = 1 /\ (build[h][pos].bits[1] <=> IsParent(F, h, pos))
         /\ Len(build[h][pos].hashes) = 1 /\ build[h][pos].hashes[1] = CalcHash(n, h, pos)
<1>1. build[h] = BuildLevel(n, F, h, build[h - 1])
  BY DEF IsBuild
<1>2. build[h][pos] = [bits |-> <<IsParent(F, h, pos)>>, hashes |-> <<CalcHash(n, h, pos)>>]
  BY <1>1 DEF BuildLevel
<1>3. QED
  BY <1>2

\* What it writes of its children.
LEMMA BuildParent ==
  ASSUME NEW n, NEW F, NEW build, IsBuild(n, F, build), NEW h \in Nat, NEW pos \in Nat,
         h # 0, IsParent(F, h, pos)
  PROVE  build[h][pos] =
           IF 2 * pos + 1 < TreeWidth(n, h - 1)
             THEN WriteBoth(build[h - 1][2 * pos], build[h - 1][2 * pos + 1])
             ELSE WriteLeft(build[h - 1][2 * pos])
<1>1. build[h] = BuildLevel(n, F, h, build[h - 1])
  BY DEF IsBuild
<1> DEFINE g == build[h - 1]
<1> HIDE DEF g
<1>2. build[h][pos] = IF 2 * pos + 1 < TreeWidth(n, h - 1)
                        THEN WriteBoth(g[2 * pos], g[2 * pos + 1]) ELSE WriteLeft(g[2 * pos])
  BY <1>1 DEF BuildLevel, WriteBoth, WriteLeft, g
<1>3. QED
  BY <1>2 DEF g

\* A sequence of elements of U is one of elements of any larger set.
LEMMA SeqWiden ==
  ASSUME NEW U, NEW X, U \subseteq X, NEW s, s \in Seq(U)
  PROVE  s \in Seq(X)
OBVIOUS

\* Lengths add up.
LEMMA LenConcat ==
  ASSUME NEW V, NEW s \in Seq(V), NEW t \in Seq(V)
  PROVE  /\ s \o t \in Seq(V) /\ Len(s \o t) = Len(s) + Len(t)
         /\ Len(s) \in Nat /\ Len(t) \in Nat
OBVIOUS

\* The sizes of what it writes of children.
LEMMA WriteSizes ==
  ASSUME NEW V, NEW l, NEW r, l \in Written(V), r \in Written(V)
  PROVE  /\ Len(WriteBoth(l, r).bits) = 1 + (Len(l.bits) + Len(r.bits))
         /\ Len(WriteBoth(l, r).hashes) = Len(l.hashes) + Len(r.hashes)
         /\ Len(WriteLeft(l).bits) = 1 + Len(l.bits) /\ Len(WriteLeft(l).hashes) = Len(l.hashes)
         /\ Len(l.bits) \in Nat /\ Len(r.bits) \in Nat
         /\ Len(l.hashes) \in Nat /\ Len(r.hashes) \in Nat
<1>1. /\ l.bits \in Seq(BOOLEAN) /\ r.bits \in Seq(BOOLEAN)
      /\ l.hashes \in Seq(V) /\ r.hashes \in Seq(V)
  BY DEF Written
<1>2. <<TRUE>> \in Seq(BOOLEAN) /\ Len(<<TRUE>>) = 1
  OBVIOUS
<1>3. /\ l.bits \o r.bits \in Seq(BOOLEAN) /\ Len(l.bits \o r.bits) = Len(l.bits) + Len(r.bits)
      /\ Len(l.bits) \in Nat /\ Len(r.bits) \in Nat
  BY <1>1, LenConcat
<1>4. Len(<<TRUE>> \o (l.bits \o r.bits)) = 1 + (Len(l.bits) + Len(r.bits))
  <2>1. Len(<<TRUE>> \o (l.bits \o r.bits)) = Len(<<TRUE>>) + Len(l.bits \o r.bits)
    BY <1>1, <1>2, <1>3, LenConcat
  <2>2. QED
    BY <1>2, <1>3, <2>1
<1>5. Len(<<TRUE>> \o l.bits) = 1 + Len(l.bits)
  <2>1. Len(<<TRUE>> \o l.bits) = Len(<<TRUE>>) + Len(l.bits)
    BY <1>1, <1>2, LenConcat
  <2>2. QED
    BY <1>2, <2>1
<1>6. /\ Len(l.hashes \o r.hashes) = Len(l.hashes) + Len(r.hashes)
      /\ Len(l.hashes) \in Nat /\ Len(r.hashes) \in Nat
  BY <1>1, LenConcat
<1>7. QED
  BY <1>3, <1>4, <1>5, <1>6 DEF WriteBoth, WriteLeft

\* Something is written of each node, no more hashes than bits.
LEMMA WrittenSizes ==
  ASSUME NEW n, NEW F, NEW build \in [Nat -> Level(Nat, Written(Hashes(n)))],
         IsBuild(n, F, build)
  PROVE  \A h, pos \in Nat :
           1 <= Len(build[h][pos].hashes) /\ Len(build[h][pos].hashes) <= Len(build[h][pos].bits)
<1> DEFINE Sized(w) == 1 <= Len(w.hashes) /\ Len(w.hashes) <= Len(w.bits)
           S == {h \in Nat : \A pos \in Nat : Sized(build[h][pos])}
<1>1. ASSUME NEW h \in Nat, NEW pos \in Nat, h = 0 \/ ~IsParent(F, h, pos)
      PROVE  Sized(build[h][pos])
  <2>1. PICK w : w = build[h][pos]
    OBVIOUS
  <2>2. Len(w.bits) = 1 /\ Len(w.hashes) = 1
    BY <1>1, <2>1, BuildLeaf
  <2>3. QED
    BY <2>1, <2>2
<1>2. ASSUME NEW h \in Nat, h \in S, NEW pos \in Nat, IsParent(F, h + 1, pos)
      PROVE  Sized(build[h + 1][pos])
  <2>1. PICK g \in Nat : g = h + 1
    OBVIOUS
  <2>2. PICK w : w = build[g][pos]
    OBVIOUS
  <2>3. PICK l : l = build[h][2 * pos]
    OBVIOUS
  <2>4. PICK r : r = build[h][2 * pos + 1]
    OBVIOUS
  <2>5. l \in Written(Hashes(n)) /\ r \in Written(Hashes(n)) /\ Sized(l) /\ Sized(r)
    <3>1. 2 * pos \in Nat /\ 2 * pos + 1 \in Nat
      OBVIOUS
    <3>2. l \in Written(Hashes(n)) /\ r \in Written(Hashes(n))
      BY <2>3, <2>4, <3>1 DEF Level
    <3>3. Sized(l) /\ Sized(r)
      BY <1>2, <2>3, <2>4, <3>1
    <3>4. QED
      BY <3>2, <3>3
  <2>6. g # 0 /\ g - 1 = h /\ IsParent(F, g, pos)
    BY <1>2, <2>1
  <2>7. w = IF 2 * pos + 1 < TreeWidth(n, h) THEN WriteBoth(l, r) ELSE WriteLeft(l)
    <3>1. w = IF 2 * pos + 1 < TreeWidth(n, g - 1)
                THEN WriteBoth(build[g - 1][2 * pos], build[g - 1][2 * pos + 1])
                ELSE WriteLeft(build[g - 1][2 * pos])
      BY <2>2, <2>6, BuildParent
    <3>2. QED
      BY <2>3, <2>4, <2>6, <3>1
  <2>8. /\ Len(WriteBoth(l, r).bits) = 1 + (Len(l.bits) + Len(r.bits))
        /\ Len(WriteBoth(l, r).hashes) = Len(l.hashes) + Len(r.hashes)
        /\ Len(WriteLeft(l).bits) = 1 + Len(l.bits) /\ Len(WriteLeft(l).hashes) = Len(l.hashes)
        /\ Len(l.bits) \in Nat /\ Len(r.bits) \in Nat
        /\ Len(l.hashes) \in Nat /\ Len(r.hashes) \in Nat
    BY <2>5, WriteSizes
  <2>9. Sized(WriteBoth(l, r)) /\ Sized(WriteLeft(l))
    <3>1. /\ 1 <= Len(l.hashes) /\ Len(l.hashes) <= Len(l.bits)
          /\ 1 <= Len(r.hashes) /\ Len(r.hashes) <= Len(r.bits)
      BY <2>5
    <3>2. /\ 1 <= Len(WriteBoth(l, r).hashes)
          /\ Len(WriteBoth(l, r).hashes) <= Len(WriteBoth(l, r).bits)
          /\ 1 <= Len(WriteLeft(l).hashes) /\ Len(WriteLeft(l).hashes) <= Len(WriteLeft(l).bits)
      <4>1. PICK lb, rb, lk, rk \in Nat : /\ lb = Len(l.bits) /\ rb = Len(r.bits)
                                          /\ lk = Len(l.hashes) /\ rk = Len(r.hashes)
        BY <2>8
      <4>2. 1 <= lk /\ lk <= lb /\ 1 <= rk /\ rk <= rb
        BY <3>1, <4>1
      <4>3. 1 <= lk + rk /\ lk + rk <= 1 + (lb + rb) /\ lk <= 1 + lb
        BY <4>2
      <4>4. QED
        BY <2>8, <4>1, <4>2, <4>3
    <3>3. QED
      BY <3>2
  <2>10. QED
    BY <2>1, <2>2, <2>7, <2>9
<1>3. Nat \subseteq S
  <2>1. 0 \in S
    <3> HIDE DEF Sized
    <3>1. QED
      BY <1>1
  <2>2. ASSUME NEW h \in Nat, h \in S
        PROVE  h + 1 \in S
    <3> HIDE DEF Sized
    <3>1. h + 1 \in Nat
      OBVIOUS
    <3>2. ASSUME NEW pos \in Nat
          PROVE  Sized(build[h + 1][pos])
      BY <1>1, <1>2, <2>2, <3>1
    <3>3. QED
      BY <3>1, <3>2
  <2>3. QED
    <3> HIDE DEF S
    <3>1. QED
      BY <2>1, <2>2, NatSetInduction
<1>4. QED
  BY <1>3

\* The transactions of F up to the t-th, in order.
IsUpTo(F, upTo) ==
  /\ upTo[0] = <<>>
  /\ \A t \in Nat : upTo[t + 1] = IF t + 1 \in F THEN Append(upTo[t], <<t + 1>>) ELSE upTo[t]

\* Whether none of F is above a and at most b.
NoneIn(F, a, b) == \A t \in F : ~(t > a /\ t <= b)

\* Where F has none they stay.
LEMMA UpToSame ==
  ASSUME NEW F, NEW upTo, IsUpTo(F, upTo), NEW a \in Nat, NEW b \in Nat, a <= b,
         NoneIn(F, a, b)
  PROVE  upTo[b] = upTo[a]
<1> DEFINE S == {i \in Nat : a + i <= b => upTo[a + i] = upTo[a]}
<1>1. 0 \in S
  OBVIOUS
<1>2. ASSUME NEW i \in Nat, i \in S
      PROVE  i + 1 \in S
  <2>1. SUFFICES ASSUME a + (i + 1) <= b PROVE upTo[a + (i + 1)] = upTo[a]
    OBVIOUS
  <2>2. PICK t \in Nat : t = a + i
    OBVIOUS
  <2>3. a + (i + 1) = t + 1 /\ ~(t + 1 \in F) /\ upTo[t] = upTo[a]
    <3>1. t + 1 > a /\ t + 1 <= b /\ a + i <= b /\ a + (i + 1) = t + 1
      BY <2>1, <2>2
    <3>2. QED
      BY <1>2, <2>2, <3>1 DEF NoneIn
  <2>4. upTo[t + 1] = IF t + 1 \in F THEN Append(upTo[t], <<t + 1>>) ELSE upTo[t]
    BY DEF IsUpTo
  <2>5. QED
    BY <2>3, <2>4
<1>3. Nat \subseteq S
  <2> HIDE DEF S
  <2>1. QED
    BY <1>1, <1>2, NatSetInduction
<1>4. b - a \in Nat /\ a + (b - a) = b /\ a + (b - a) <= b
  OBVIOUS
<1>5. QED
  BY <1>3, <1>4

\* The recursive function in RelevantTxids is what its definition says.
LEMMA RelevantIs ==
  ASSUME NEW n \in Nat
  PROVE  \E V, upTo : /\ upTo \in [Nat -> Seq(V)] /\ IsUpTo(Relevant(filter, n), upTo)
                      /\ RelevantTxids(n) = upTo[n]
<1> DEFINE F == Relevant(filter, n)
<1> HIDE DEF F
<1> DEFINE next(t, s) == IF t \in F THEN Append(s, <<t>>) ELSE s
           Is(f) == f = [t \in Nat |-> IF t = 0 THEN <<>>
                                       ELSE IF t \in F THEN Append(f[t - 1], <<t>>)
                                       ELSE f[t - 1]]
           u == CHOOSE f : Is(f)
           V == {<<t>> : t \in Nat}
           step == [t \in Nat |-> [s \in Seq(V) |-> next(t, s)]]
<1>1. PICK W : W = Seq(V)
  OBVIOUS
<1>2. step \in Steps(W) /\ <<>> \in W
  <2>1. ASSUME NEW t \in Nat, NEW s \in Seq(V)
        PROVE  next(t, s) \in Seq(V)
    <3>1. <<t>> \in V
      OBVIOUS
    <3> HIDE DEF V
    <3>2. <<>> \in Seq(V)
      OBVIOUS
    <3>3. QED
      BY <3>1, <3>2
  <2> HIDE DEF V, next
  <2>2. QED
    BY <1>1, <2>1 DEF Steps
<1>3. PICK f \in [Nat -> W] : Recurs(f, <<>>, step)
  <2> HIDE DEF step
  <2>1. <<>> \in W /\ step \in Steps(W)
    BY <1>2
  <2>2. QED
    BY ONLY <2>1, StepRecursion
<1>4. ASSUME NEW t \in Nat
      PROVE  f[t + 1] = next(t + 1, f[t])
  <2>1. f[t + 1] = step[t + 1][f[t]] /\ f[t] \in W /\ t + 1 \in Nat
    <3> HIDE DEF step
    <3>1. QED
      BY <1>3 DEF Recurs
  <2>2. step[t + 1][f[t]] = next(t + 1, f[t])
    <3> HIDE DEF next, V
    <3>1. QED
      BY <1>1, <2>1
  <2> HIDE DEF step, next
  <2>3. QED
    BY <2>1, <2>2
<1>5. f[0] = <<>>
  BY <1>3 DEF Recurs
<1>6. ASSUME NEW t \in Nat
      PROVE  f[t] = IF t = 0 THEN <<>>
                    ELSE IF t \in F THEN Append(f[t - 1], <<t>>) ELSE f[t - 1]
  <2>1. CASE t = 0
    BY <1>5, <2>1
  <2>2. CASE t # 0
    <3>1. t - 1 \in Nat /\ (t - 1) + 1 = t
      BY <2>2
    <3>2. f[(t - 1) + 1] = next((t - 1) + 1, f[t - 1])
      <4> HIDE DEF next
      <4>1. QED
        BY <1>4, <3>1
    <3>3. f[t] = next(t, f[t - 1])
      <4> HIDE DEF next
      <4>1. QED
        BY <3>1, <3>2
    <3>4. QED
      BY <2>2, <3>3
  <2>3. QED
    BY <2>1, <2>2
<1>7. Is(f)
  <2>1. f = [t \in Nat |-> f[t]]
    BY <1>3
  <2>2. QED
    BY <2>1, <1>6
<1>8. Is(u)
  <2> HIDE DEF Is
  <2>1. QED
    BY <1>7
<1>9. RelevantTxids(n) = u[n]
  BY DEF RelevantTxids, F
<1> HIDE DEF u
<1>10. ASSUME NEW t \in Nat
       PROVE  u[t] = IF t = 0 THEN <<>>
                     ELSE IF t \in F THEN Append(u[t - 1], <<t>>) ELSE u[t - 1]
  BY <1>8
<1>11. IsUpTo(F, u)
  <2>1. u[0] = <<>>
    BY <1>10
  <2>2. ASSUME NEW t \in Nat
        PROVE  u[t + 1] = IF t + 1 \in F THEN Append(u[t], <<t + 1>>) ELSE u[t]
    <3>1. PICK s \in Nat : s = t + 1
      OBVIOUS
    <3>2. s # 0 /\ s - 1 = t
      BY <3>1
    <3>3. u[s] = IF s \in F THEN Append(u[s - 1], <<s>>) ELSE u[s - 1]
      BY <1>10, <3>2
    <3>4. QED
      BY <3>1, <3>2, <3>3
  <2>3. QED
    BY <2>1, <2>2 DEF IsUpTo
<1> DEFINE S == {t \in Nat : u[t] \in Seq(V)}
<1>12. Nat \subseteq S
  <2>1. 0 \in S
    <3>1. u[0] = <<>>
      BY <1>10
    <3> HIDE DEF V
    <3>2. <<>> \in Seq(V)
      OBVIOUS
    <3>3. QED
      BY <3>1, <3>2
  <2>2. ASSUME NEW t \in Nat, t \in S
        PROVE  t + 1 \in S
    <3>1. u[t + 1] = IF t + 1 \in F THEN Append(u[t], <<t + 1>>) ELSE u[t]
      BY <1>11 DEF IsUpTo
    <3>2. <<t + 1>> \in V /\ t + 1 \in Nat
      OBVIOUS
    <3> HIDE DEF V
    <3>3. Append(u[t], <<t + 1>>) \in Seq(V) /\ u[t] \in Seq(V)
      BY <2>2, <3>2
    <3>4. QED
      BY <3>1, <3>2, <3>3
  <2>3. QED
    <3> HIDE DEF S
    <3>1. QED
      BY <2>1, <2>2, NatSetInduction
<1>13. u \in [Nat -> Seq(V)]
  <2>1. u = [t \in Nat |-> u[t]]
    BY <1>8, <1>10
  <2>2. \A t \in Nat : u[t] \in Seq(V)
    BY <1>12
  <2> HIDE DEF V
  <2>3. QED
    BY <2>1, <2>2
<1>14. QED
  BY <1>9, <1>11, <1>13 DEF F

\* A node of the block's tree, at the place of its part of the message: the client
\* uses up that part, and finds the hash of the node and the matches under it.
Followed(n, upTo, h, at, w, c) ==
  /\ c.bits = at.bits + Len(w.bits) /\ c.hashes = at.hashes + Len(w.hashes)
  /\ ~c.bad /\ c.hash = CalcHash(n, h, at.pos)
  /\ upTo[(at.pos + 1) * Pow2[h]] = upTo[at.pos * Pow2[h]] \o c.match

\* Where the node wrote one hash, the client uses up that one, and a match is the
\* relevant transaction.
LEMMA FollowedLeaf ==
  ASSUME NEW n \in 1..MaxTx, NEW F, F \subseteq 1..n,
         NEW build, IsBuild(n, F, build),
         NEW m, m.bits \in Seq(BOOLEAN), Len(m.hashes) \in Nat,
         NEW V, NEW visit, IsVisit(m, visit),
         NEW U, NEW upTo, upTo \in [Nat -> Seq(U)], IsUpTo(F, upTo),
         NEW h \in Nat, h <= Height(n), NEW at \in Cursor,
         at.pos < TreeWidth(n, h), Holds(m, at.bits, at.hashes, build[h][at.pos]),
         h = 0 \/ ~IsParent(F, h, at.pos)
  PROVE  Followed(n, upTo, h, at, build[h][at.pos], visit[h][at])
<1>1. PICK p, b, k \in Nat : p = at.pos /\ b = at.bits /\ k = at.hashes
  BY DEF Cursor
<1>2. PICK lb, lk \in Nat : lb = Len(m.bits) /\ lk = Len(m.hashes)
  <2>1. Len(m.bits) \in Nat
    BY LenProperties
  <2>2. QED
    BY <2>1
<1>3. PICK w : w = build[h][p]
  OBVIOUS
<1>4. PICK c : c = visit[h][at]
  OBVIOUS
<1>5. h = 0 \/ ~IsParent(F, h, p)
  BY <1>1
<1>6. /\ Len(w.bits) = 1 /\ (w.bits[1] <=> IsParent(F, h, p))
      /\ Len(w.hashes) = 1 /\ w.hashes[1] = CalcHash(n, h, p)
  <2>1. h \in Nat /\ p \in Nat /\ IsBuild(n, F, build)
    OBVIOUS
  <2>2. /\ Len(build[h][p].bits) = 1 /\ (build[h][p].bits[1] <=> IsParent(F, h, p))
        /\ Len(build[h][p].hashes) = 1 /\ build[h][p].hashes[1] = CalcHash(n, h, p)
    BY ONLY <1>5, <2>1, BuildLeaf
  <2>3. QED
    BY <1>3, <2>2
<1>7. /\ b + 1 <= lb /\ m.bits[b + 1] = w.bits[1]
      /\ k + 1 <= lk /\ m.hashes[k + 1] = w.hashes[1]
  BY <1>1, <1>2, <1>3, <1>6 DEF Holds, HasAt
<1>8. PICK parent : parent = m.bits[b + 1]
  OBVIOUS
<1>9. parent <=> IsParent(F, h, p)
  BY <1>6, <1>7, <1>8
<1>10. ~(b >= lb) /\ ~(k >= lk)
  BY <1>7
<1>11. c = Leaf(m, h, b + 1, k, parent)
  <2>1. ~(at.bits >= Len(m.bits)) /\ (h = 0 \/ ~m.bits[at.bits + 1])
    BY <1>1, <1>2, <1>8, <1>9, <1>10
  <2>2. visit[h][at] = Leaf(m, h, at.bits + 1, at.hashes, m.bits[at.bits + 1])
    BY <2>1, VisitLeaf
  <2>3. QED
    BY <1>1, <1>4, <1>8, <2>2
<1>12. /\ c.bits = b + 1 /\ c.hashes = k + 1 /\ ~c.bad
       /\ c.hash = CalcHash(n, h, p)
       /\ h = 0 /\ parent => c.match = <<CalcHash(n, h, p)>>
       /\ ~(h = 0 /\ parent) => c.match = <<>>
  <2>1. ~(k >= Len(m.hashes)) /\ m.hashes[k + 1] = CalcHash(n, h, p)
    BY <1>2, <1>6, <1>7, <1>10
  <2>2. PICK b1 : b1 = b + 1
    OBVIOUS
  <2>3. c = Leaf(m, h, b1, k, parent)
    BY <1>11, <2>2
  <2>4. /\ c.bits = b1 /\ c.hashes = k + 1 /\ ~c.bad
        /\ c.hash = m.hashes[k + 1]
        /\ h = 0 /\ parent => c.match = <<m.hashes[k + 1]>>
        /\ ~(h = 0 /\ parent) => c.match = <<>>
    <3>1. PICK x : x = m.hashes[k + 1]
      OBVIOUS
    <3>2. PICK found : found = IF h = 0 /\ parent THEN <<x>> ELSE <<>>
      OBVIOUS
    <3>3. c = [bits |-> b1, hashes |-> k + 1, bad |-> FALSE, match |-> found, hash |-> x]
      BY <2>1, <2>3, <3>1, <3>2 DEF Leaf
    <3>4. QED
      BY <3>1, <3>2, <3>3
  <2>5. QED
    BY <2>1, <2>2, <2>4
<1>13. upTo[(p + 1) * Pow2[h]] = upTo[p * Pow2[h]] \o c.match
  <2>1. PICK P \in Nat : P = Pow2[h]
    BY Pow2Positive DEF Positive
  <2>2. PICK a, e \in Nat : a = p * P /\ e = (p + 1) * P /\ a <= e
    <3>1. (p + 1) * P = p * P + P /\ p * P \in Nat
      OBVIOUS
    <3>2. QED
      BY <3>1
  <2>3. upTo[a] \in Seq(U)
    OBVIOUS
  <2>4. IsParent(F, h, p) <=> \E t \in F : t > a /\ t <= e
    BY <2>1, <2>2 DEF IsParent
  <2>5. CASE ~IsParent(F, h, p)
    <3>1. c.match = <<>>
      BY <1>9, <1>12, <2>5
    <3>2. NoneIn(F, a, e)
      BY <2>4, <2>5 DEF NoneIn
    <3>3. upTo[e] = upTo[a]
      <4>1. /\ a \in Nat /\ e \in Nat /\ a <= e
            /\ IsUpTo(F, upTo) /\ NoneIn(F, a, e)
        BY <2>2, <3>2
      <4>2. QED
        BY ONLY <4>1, UpToSame
    <3>4. upTo[a] \o <<>> = upTo[a]
      BY <2>3
    <3>5. QED
      BY <2>1, <2>2, <3>1, <3>3, <3>4
  <2>6. CASE IsParent(F, h, p)
    <3>1. h = 0 /\ parent
      BY <1>1, <1>9, <2>6
    <3>2. P = 1
      BY <2>1, <3>1, Pow2Def
    <3>3. a = p /\ e = a + 1
      BY <2>2, <3>2
    <3>4. a + 1 \in F
      <4>1. PICK t \in F : t > a /\ t <= e
        BY <2>4, <2>6
      <4>2. t \in Nat
        BY FilteredAssumption
      <4>3. t = a + 1
        BY <3>3, <4>1, <4>2
      <4>4. QED
        BY <4>1, <4>3
    <3>5. upTo[a + 1] = Append(upTo[a], <<a + 1>>)
      BY <3>4 DEF IsUpTo
    <3>6. c.match = <<<<a + 1>>>>
      BY <1>12, <3>1, <3>3, LeafHash
    <3>7. PICK x : x = <<a + 1>>
      OBVIOUS
    <3>8. Append(upTo[a], x) = upTo[a] \o <<x>>
      <4>1. PICK W : W = U \cup {x}
        OBVIOUS
      <4>2. upTo[a] \in Seq(W) /\ x \in W
        BY <2>3, <4>1
      <4>3. QED
        BY <4>2, AppendIsConcat
    <3>9. QED
      BY <2>1, <2>2, <3>3, <3>5, <3>6, <3>7, <3>8
  <2>7. QED
    BY <2>5, <2>6
<1>14. Followed(n, upTo, h, at, w, c)
  BY <1>1, <1>6, <1>12, <1>13 DEF Followed
<1>15. QED
  BY <1>1, <1>3, <1>4, <1>14

\* A bit that says parent.
LEMMA HasTrue ==
  ASSUME NEW u, NEW b, HasAt(u, b, <<TRUE>>)
  PROVE  b + 1 <= Len(u) /\ u[b + 1]
<1>1. PICK t : t = <<TRUE>>
  OBVIOUS
<1>2. Len(t) = 1 /\ 1 \in 1..Len(t) /\ t[1] = TRUE
  BY <1>1
<1>3. b + 1 <= Len(u) /\ u[b + 1] = t[1]
  BY <1>1, <1>2 DEF HasAt
<1>4. QED
  BY <1>2, <1>3

\* The message that has what was written of a parent has what was written of
\* its children.
LEMMA HoldsBoth ==
  ASSUME NEW V, NEW m, Len(m.bits) \in Nat, Len(m.hashes) \in Nat,
         NEW b \in Nat, NEW k \in Nat,
         NEW l, l \in Written(V), NEW r, r \in Written(V), Holds(m, b, k, WriteBoth(l, r))
  PROVE  /\ b < Len(m.bits) /\ m.bits[b + 1]
         /\ Holds(m, b + 1, k, l) /\ Holds(m, (b + 1) + Len(l.bits), k + Len(l.hashes), r)
<1>1. /\ l.bits \in Seq(BOOLEAN) /\ r.bits \in Seq(BOOLEAN)
      /\ l.hashes \in Seq(V) /\ r.hashes \in Seq(V)
  BY DEF Written
<1>2. /\ <<TRUE>> \in Seq(BOOLEAN) /\ Len(<<TRUE>>) = 1 /\ <<TRUE>>[1] = TRUE
      /\ l.bits \o r.bits \in Seq(BOOLEAN)
  BY <1>1
<1>3. /\ HasAt(m.bits, b, <<TRUE>> \o (l.bits \o r.bits))
      /\ HasAt(m.hashes, k, l.hashes \o r.hashes)
  BY DEF Holds, WriteBoth
<1>4. HasAt(m.bits, b, <<TRUE>>) /\ HasAt(m.bits, b + Len(<<TRUE>>), l.bits \o r.bits)
  BY <1>2, <1>3, HasParts
<1>5. b + 1 <= Len(m.bits) /\ m.bits[b + 1]
  BY <1>4, HasTrue
<1>6. HasAt(m.bits, b + 1, l.bits \o r.bits) /\ b + 1 \in Nat
  BY <1>2, <1>4
<1>7. HasAt(m.bits, b + 1, l.bits) /\ HasAt(m.bits, (b + 1) + Len(l.bits), r.bits)
  BY <1>1, <1>6, HasParts
<1>8. HasAt(m.hashes, k, l.hashes) /\ HasAt(m.hashes, k + Len(l.hashes), r.hashes)
  BY <1>1, <1>3, HasParts
<1>9. b < Len(m.bits)
  BY <1>5
<1>10. QED
  BY <1>5, <1>7, <1>8, <1>9 DEF Holds

\* The same with a left child only.
LEMMA HoldsLeft ==
  ASSUME NEW V, NEW m, Len(m.bits) \in Nat, NEW b \in Nat, NEW k \in Nat,
         NEW l, l \in Written(V), Holds(m, b, k, WriteLeft(l))
  PROVE  b < Len(m.bits) /\ m.bits[b + 1] /\ Holds(m, b + 1, k, l)
<1>1. l.bits \in Seq(BOOLEAN) /\ l.hashes \in Seq(V)
  BY DEF Written
<1>2. <<TRUE>> \in Seq(BOOLEAN) /\ Len(<<TRUE>>) = 1 /\ <<TRUE>>[1] = TRUE
  OBVIOUS
<1>3. HasAt(m.bits, b, <<TRUE>> \o l.bits) /\ HasAt(m.hashes, k, l.hashes)
  BY DEF Holds, WriteLeft
<1>4. HasAt(m.bits, b, <<TRUE>>) /\ HasAt(m.bits, b + Len(<<TRUE>>), l.bits)
  BY <1>1, <1>2, <1>3, HasParts
<1>5. b + 1 <= Len(m.bits) /\ m.bits[b + 1] /\ HasAt(m.bits, b + 1, l.bits)
  BY <1>2, <1>4, HasTrue
<1>6. b < Len(m.bits)
  BY <1>5
<1>7. QED
  BY <1>3, <1>5, <1>6 DEF Holds

\* The step of FollowedAll from the children to their parent.
LEMMA FollowedBoth ==
  ASSUME NEW n, NEW upTo, NEW U, upTo \in [Nat -> Seq(U)],
         NEW h \in Nat, NEW p \in Nat, NEW b \in Nat, NEW k \in Nat,
         NEW V, NEW W, NEW l, l \in Written(W), NEW r, r \in Written(W),
         NEW left, left \in Found(V), NEW right, right \in Found(V),
         Followed(n, upTo, h, CursorAt(2 * p, b + 1, k), l, left),
         Followed(n, upTo, h, CursorAt(2 * p + 1, left.bits, left.hashes), r, right),
         2 * p + 1 < TreeWidth(n, h)
  PROVE  Followed(n, upTo, h + 1, CursorAt(p, b, k), WriteBoth(l, r), Join(left, right))
<1> DEFINE c == Join(left, right)
           w == WriteBoth(l, r)
           P == Pow2[h]
<1>1. /\ l.bits \in Seq(BOOLEAN) /\ r.bits \in Seq(BOOLEAN)
      /\ l.hashes \in Seq(W) /\ r.hashes \in Seq(W)
      /\ left.match \in Seq(V) /\ right.match \in Seq(V)
  BY DEF Written, Found
<1>2. /\ left.bits = (b + 1) + Len(l.bits) /\ left.hashes = k + Len(l.hashes)
      /\ ~left.bad /\ left.hash = CalcHash(n, h, 2 * p)
      /\ upTo[(2 * p + 1) * P] = upTo[2 * p * P] \o left.match
  BY DEF Followed, CursorAt
<1>3. /\ right.bits = left.bits + Len(r.bits) /\ right.hashes = left.hashes + Len(r.hashes)
      /\ ~right.bad /\ right.hash = CalcHash(n, h, 2 * p + 1)
      /\ upTo[(2 * p + 1 + 1) * P] = upTo[(2 * p + 1) * P] \o right.match
  BY DEF Followed, CursorAt
<1>4. /\ Len(w.bits) = 1 + (Len(l.bits) + Len(r.bits))
      /\ Len(w.hashes) = Len(l.hashes) + Len(r.hashes)
      /\ Len(l.bits) \in Nat /\ Len(r.bits) \in Nat
      /\ Len(l.hashes) \in Nat /\ Len(r.hashes) \in Nat
  <2>1. /\ Len(WriteBoth(l, r).bits) = 1 + (Len(l.bits) + Len(r.bits))
        /\ Len(WriteBoth(l, r).hashes) = Len(l.hashes) + Len(r.hashes)
        /\ Len(WriteLeft(l).bits) = 1 + Len(l.bits) /\ Len(WriteLeft(l).hashes) = Len(l.hashes)
        /\ Len(l.bits) \in Nat /\ Len(r.bits) \in Nat
        /\ Len(l.hashes) \in Nat /\ Len(r.hashes) \in Nat
    <3>1. l \in Written(W) /\ r \in Written(W)
      OBVIOUS
    <3>2. QED
      BY ONLY <3>1, WriteSizes
  <2>2. QED
    BY <2>1
<1>5. right.hash # left.hash
  <2>1. 2 * p \in Nat /\ 2 * p + 1 \in Nat /\ 2 * p # 2 * p + 1
    OBVIOUS
  <2>2. CalcHash(n, h, 2 * p) # CalcHash(n, h, 2 * p + 1)
    BY <2>1, OnePlace
  <2>3. QED
    BY <1>2, <1>3, <2>2
<1>6. /\ c.bits = right.bits /\ c.hashes = right.hashes /\ c.match = left.match \o right.match
      /\ c.hash = HashPair(left.hash, right.hash) /\ ~c.bad
  <2>1. PICK x : x = Join(left, right)
    OBVIOUS
  <2>2. /\ x.bits = right.bits /\ x.hashes = right.hashes /\ x.match = left.match \o right.match
        /\ x.hash = HashPair(left.hash, right.hash)
    BY ONLY <2>1 DEF Join
  <2>3. ~x.bad
    <3>1. ~left.bad /\ ~right.bad /\ right.hash # left.hash
      BY <1>2, <1>3, <1>5
    <3>2. QED
      BY ONLY <2>1, <3>1, JoinIs
  <2>4. QED
    BY <2>1, <2>2, <2>3
<1>7. c.hash = CalcHash(n, h + 1, p)
  <2>1. RightOf(n, h, p) = 2 * p + 1
    BY DEF RightOf
  <2>2. CalcHash(n, h + 1, p) = HashPair(CalcHash(n, h, 2 * p), CalcHash(n, h, RightOf(n, h, p)))
    BY CalcHashIs
  <2>3. QED
    BY <1>2, <1>3, <1>6, <2>1, <2>2
<1>8. /\ P \in Nat /\ p * Pow2[h + 1] = 2 * p * P
      /\ (p + 1) * Pow2[h + 1] = (2 * p + 1 + 1) * P /\ 2 * p * P \in Nat
  <2>1. P \in Nat /\ Pow2[h + 1] = 2 * P
    BY Pow2Def
  <2> HIDE DEF P
  <2>2. QED
    BY <2>1
<1>9. upTo[(p + 1) * Pow2[h + 1]] = upTo[p * Pow2[h + 1]] \o c.match
  <2>1. PICK x : x = upTo[2 * p * P]
    OBVIOUS
  <2>2. x \in Seq(U)
    BY <1>8, <2>1
  <2>3. PICK X, y, z : X = U \cup V /\ y = left.match /\ z = right.match
    OBVIOUS
  <2>4. x \in Seq(X) /\ y \in Seq(X) /\ z \in Seq(X)
    <3>1. y \in Seq(V) /\ z \in Seq(V) /\ U \subseteq X /\ V \subseteq X
      BY <1>1, <2>3
    <3>2. QED
      BY <2>2, <3>1, SeqWiden
  <2>5. (x \o y) \o z = x \o (y \o z)
    BY ONLY <2>4, ConcatAssociative
  <2>6. (x \o left.match) \o right.match = x \o (left.match \o right.match)
    BY <2>3, <2>5
  <2>7. QED
    BY <1>2, <1>3, <1>6, <1>8, <2>1, <2>6
<1>10. c.bits = b + Len(w.bits) /\ c.hashes = k + Len(w.hashes)
  <2>1. PICK lb, rb, lk, rk \in Nat : /\ lb = Len(l.bits) /\ rb = Len(r.bits)
                                      /\ lk = Len(l.hashes) /\ rk = Len(r.hashes)
    BY <1>4
  <2>2. c.bits = (b + 1) + lb + rb /\ c.hashes = k + lk + rk
    BY <1>2, <1>3, <1>6, <2>1
  <2>3. Len(w.bits) = 1 + (lb + rb) /\ Len(w.hashes) = lk + rk
    BY <1>4, <2>1
  <2> HIDE DEF c, w
  <2>4. QED
    BY <2>2, <2>3
<1> HIDE DEF c, w
<1>11. Followed(n, upTo, h + 1, CursorAt(p, b, k), w, c)
  <2>1. CursorAt(p, b, k).pos = p /\ CursorAt(p, b, k).bits = b /\ CursorAt(p, b, k).hashes = k
    BY DEF CursorAt
  <2>2. QED
    BY <1>6, <1>7, <1>9, <1>10, <2>1 DEF Followed, c
<1>12. QED
  BY <1>11 DEF c, w

\* With a left child only, the client follows the node if it follows the child.
LEMMA FollowedOnly ==
  ASSUME NEW n \in 1..MaxTx, NEW F, F \subseteq 1..n, NEW upTo, IsUpTo(F, upTo),
         NEW h \in Nat, h <= Height(n), NEW p \in Nat, NEW b \in Nat, NEW k \in Nat,
         NEW V, NEW W, NEW l, l \in Written(W), NEW left, left \in Found(V),
         Followed(n, upTo, h, CursorAt(2 * p, b + 1, k), l, left),
         ~(2 * p + 1 < TreeWidth(n, h))
  PROVE  Followed(n, upTo, h + 1, CursorAt(p, b, k), WriteLeft(l),
                  [left EXCEPT !.hash = HashPair(@, @)])
<1> DEFINE c == [left EXCEPT !.hash = HashPair(@, @)]
           w == WriteLeft(l)
           P == Pow2[h]
<1>1. l.bits \in Seq(BOOLEAN) /\ l.hashes \in Seq(W)
  BY DEF Written
<1>2. /\ left.bits = (b + 1) + Len(l.bits) /\ left.hashes = k + Len(l.hashes)
      /\ ~left.bad /\ left.hash = CalcHash(n, h, 2 * p)
      /\ upTo[(2 * p + 1) * P] = upTo[2 * p * P] \o left.match
  BY DEF Followed, CursorAt
<1>3. /\ Len(w.bits) = 1 + Len(l.bits) /\ Len(w.hashes) = Len(l.hashes)
      /\ Len(l.bits) \in Nat /\ Len(l.hashes) \in Nat
  <2>1. l \in Written(W)
    OBVIOUS
  <2>2. QED
    BY <2>1, WriteSizes
<1>4. /\ c.bits = left.bits /\ c.hashes = left.hashes /\ c.match = left.match
      /\ c.hash = HashPair(left.hash, left.hash) /\ c.bad = left.bad
  BY DEF Found
<1>5. c.hash = CalcHash(n, h + 1, p)
  <2>1. RightOf(n, h, p) = 2 * p
    BY DEF RightOf
  <2>2. CalcHash(n, h + 1, p) = HashPair(CalcHash(n, h, 2 * p), CalcHash(n, h, RightOf(n, h, p)))
    BY CalcHashIs
  <2>3. QED
    BY <1>2, <1>4, <2>1, <2>2
<1>6. /\ P \in Nat /\ p * Pow2[h + 1] = 2 * p * P
      /\ (p + 1) * Pow2[h + 1] = (2 * p + 1) * P + P /\ (2 * p + 1) * P \in Nat
  <2>1. P \in Nat /\ Pow2[h + 1] = 2 * P
    BY Pow2Def
  <2> HIDE DEF P
  <2>2. QED
    BY <2>1
<1>7. upTo[(p + 1) * Pow2[h + 1]] = upTo[(2 * p + 1) * P]
  <2>1. ~((2 * p + 1) * P < n)
    <3>1. 2 * p + 1 \in Nat
      OBVIOUS
    <3>2. QED
      BY <3>1, WidthIs
  <2>2. PICK a, e \in Nat : a = (2 * p + 1) * P /\ e = a + P
    BY <1>6
  <2>3. a <= e
    BY <1>6, <2>2
  <2>4. NoneIn(F, a, e)
    <3>1. ASSUME NEW t \in F
          PROVE  ~(t > a)
      <4>1. t \in 1..n /\ n \in Nat
        BY FilteredAssumption
      <4>2. ~(a < n)
        BY <2>1, <2>2
      <4>3. QED
        BY <4>1, <4>2
    <3>2. QED
      BY <3>1 DEF NoneIn
  <2>5. upTo[e] = upTo[a]
    <3>1. a \in Nat /\ e \in Nat /\ a <= e /\ IsUpTo(F, upTo) /\ NoneIn(F, a, e)
      BY <2>3, <2>4
    <3>2. QED
      BY ONLY <3>1, UpToSame
  <2>6. QED
    BY <1>6, <2>2, <2>5
<1>8. upTo[(p + 1) * Pow2[h + 1]] = upTo[p * Pow2[h + 1]] \o c.match
  BY <1>2, <1>4, <1>6, <1>7
<1>9. c.bits = b + Len(w.bits) /\ c.hashes = k + Len(w.hashes)
  <2>1. PICK lb, lk \in Nat : lb = Len(l.bits) /\ lk = Len(l.hashes)
    BY <1>3
  <2>2. c.bits = (b + 1) + lb /\ c.hashes = k + lk
    BY <1>2, <1>4, <2>1
  <2>3. Len(w.bits) = 1 + lb /\ Len(w.hashes) = lk
    BY <1>3, <2>1
  <2> HIDE DEF c, w
  <2>4. QED
    BY <2>2, <2>3
<1> HIDE DEF c, w
<1>10. Followed(n, upTo, h + 1, CursorAt(p, b, k), w, c)
  <2>1. CursorAt(p, b, k).pos = p /\ CursorAt(p, b, k).bits = b /\ CursorAt(p, b, k).hashes = k
    BY DEF CursorAt
  <2>2. ~c.bad
    BY <1>2, <1>4
  <2>3. QED
    BY <1>5, <1>8, <1>9, <2>1, <2>2 DEF Followed
<1>11. QED
  BY <1>10 DEF c, w

\* The client follows what the node wrote, at all nodes of the block's tree.
LEMMA FollowedAll ==
  ASSUME NEW n \in 1..MaxTx, NEW F, F \subseteq 1..n,
         NEW build, build \in [Nat -> Level(Nat, Written(Hashes(n)))], IsBuild(n, F, build),
         NEW m, m.n = n, m.bits \in Seq(BOOLEAN), Len(m.hashes) \in Nat,
         NEW V, NEW visit, visit \in [Nat -> Level(Cursor, Found(V))], IsVisit(m, visit),
         NEW U, NEW upTo, upTo \in [Nat -> Seq(U)], IsUpTo(F, upTo)
  PROVE  \A h \in Nat : \A p, b, k \in Nat :
           h <= Height(n) /\ p < TreeWidth(n, h) /\ Holds(m, b, k, build[h][p])
             => Followed(n, upTo, h, CursorAt(p, b, k), build[h][p], visit[h][CursorAt(p, b, k)])
<1> DEFINE Hyp(h, p, b, k) ==
             h <= Height(n) /\ p < TreeWidth(n, h) /\ Holds(m, b, k, build[h][p])
           Good(h, p, b, k) ==
             Followed(n, upTo, h, CursorAt(p, b, k), build[h][p], visit[h][CursorAt(p, b, k)])
           S == {h \in Nat : \A p, b, k \in Nat : Hyp(h, p, b, k) => Good(h, p, b, k)}
<1>1. ASSUME NEW p \in Nat, NEW b \in Nat, NEW k \in Nat
      PROVE  /\ CursorAt(p, b, k) \in Cursor /\ CursorAt(p, b, k).pos = p
             /\ CursorAt(p, b, k).bits = b /\ CursorAt(p, b, k).hashes = k
  BY DEF CursorAt, Cursor
<1>2. ASSUME NEW h \in Nat, NEW p \in Nat, NEW b \in Nat, NEW k \in Nat, Hyp(h, p, b, k),
             h = 0 \/ ~IsParent(F, h, p)
      PROVE  Good(h, p, b, k)
  <2>1. PICK at : at = CursorAt(p, b, k)
    OBVIOUS
  <2>2. at \in Cursor /\ at.pos = p /\ at.bits = b /\ at.hashes = k
    <3>1. /\ CursorAt(p, b, k) \in Cursor /\ CursorAt(p, b, k).pos = p
          /\ CursorAt(p, b, k).bits = b /\ CursorAt(p, b, k).hashes = k
      BY DEF CursorAt, Cursor
    <3>2. QED
      BY <2>1, <3>1
  <2>3. /\ at.pos < TreeWidth(n, h) /\ Holds(m, at.bits, at.hashes, build[h][at.pos])
        /\ h <= Height(n) /\ (h = 0 \/ ~IsParent(F, h, at.pos))
    BY <1>2, <2>2
  <2>4. Followed(n, upTo, h, at, build[h][at.pos], visit[h][at])
    <3>1. at \in Cursor
      BY <2>2
    <3>2. QED
      BY <2>3, <3>1, FollowedLeaf
  <2>5. QED
    BY <2>1, <2>2, <2>4
<1>3. ASSUME NEW h \in Nat, h \in S, NEW g \in Nat, g = h + 1,
             NEW p \in Nat, NEW b \in Nat, NEW k \in Nat,
             Hyp(g, p, b, k), IsParent(F, g, p)
      PROVE  Good(g, p, b, k)
  <2>1. g # 0 /\ g - 1 = h /\ h <= Height(n) /\ h + 1 <= Height(n)
    <3>1. PICK H \in Nat : H = Height(n)
      BY OneRoot
    <3>2. g <= H /\ g = h + 1
      BY <1>3, <3>1
    <3>3. g # 0 /\ g - 1 = h /\ h <= H /\ h + 1 <= H
      BY ONLY <3>2
    <3>4. QED
      BY <3>1, <3>3
  <2>2. PICK w : w = build[g][p]
    OBVIOUS
  <2>3. PICK l : l = build[h][2 * p]
    OBVIOUS
  <2>4. PICK r : r = build[h][2 * p + 1]
    OBVIOUS
  <2>5. 2 * p \in Nat /\ 2 * p + 1 \in Nat /\ b + 1 \in Nat
    OBVIOUS
  <2>6. l \in Written(Hashes(n)) /\ r \in Written(Hashes(n))
    BY <2>3, <2>4, <2>5 DEF Level
  <2>7. w = IF 2 * p + 1 < TreeWidth(n, h) THEN WriteBoth(l, r) ELSE WriteLeft(l)
    <3>1. IsBuild(n, F, build) /\ g \in Nat /\ p \in Nat /\ g # 0 /\ IsParent(F, g, p)
      BY <1>3, <2>1
    <3>2. build[g][p] = IF 2 * p + 1 < TreeWidth(n, g - 1)
                          THEN WriteBoth(build[g - 1][2 * p], build[g - 1][2 * p + 1])
                          ELSE WriteLeft(build[g - 1][2 * p])
      BY ONLY <3>1, BuildParent
    <3>3. QED
      BY <2>1, <2>2, <2>3, <2>4, <3>2
  <2>8. PICK at : at = CursorAt(p, b, k)
    OBVIOUS
  <2>9. at \in Cursor /\ at.pos = p /\ at.bits = b /\ at.hashes = k
    <3>1. /\ CursorAt(p, b, k) \in Cursor /\ CursorAt(p, b, k).pos = p
          /\ CursorAt(p, b, k).bits = b /\ CursorAt(p, b, k).hashes = k
      BY DEF CursorAt, Cursor
    <3>2. QED
      BY <2>8, <3>1
  <2>10. PICK c : c = visit[g][at]
    OBVIOUS
  <2>11. PICK left : left = visit[h][CursorAt(2 * p, b + 1, k)]
    OBVIOUS
  <2>12. left \in Found(V)
    <3>1. CursorAt(2 * p, b + 1, k) \in Cursor
      BY <1>1, <2>5
    <3>2. QED
      BY <2>11, <3>1 DEF Level
  <2>13. PICK right : right = visit[h][CursorAt(2 * p + 1, left.bits, left.hashes)]
    OBVIOUS
  <2>14. left.bits \in Nat /\ left.hashes \in Nat
    BY <2>12 DEF Found
  <2>15. right \in Found(V)
    <3>1. CursorAt(2 * p + 1, left.bits, left.hashes) \in Cursor
      BY <1>1, <2>5, <2>14
    <3>2. QED
      BY <2>13, <3>1 DEF Level
  <2>16. Holds(m, b, k, w) /\ p < TreeWidth(n, g)
    BY <1>3, <2>2
  <2>17. 2 * p < TreeWidth(n, h)
    BY <1>3, <2>1, <2>16, Children
  <2>18. Len(m.bits) \in Nat
    BY LenProperties
  <2>19. ASSUME b < Len(m.bits), m.bits[b + 1]
         PROVE  c = IF 2 * p + 1 < TreeWidth(n, h) THEN Join(left, right)
                    ELSE [left EXCEPT !.hash = HashPair(@, @)]
    <3>1. ~(at.bits >= Len(m.bits)) /\ m.bits[at.bits + 1] /\ g # 0
      <4>1. PICK lb \in Nat : lb = Len(m.bits)
        BY <2>18
      <4>2. b < lb /\ m.bits[b + 1]
        BY <2>19, <4>1
      <4>3. b < lb
        BY <4>2
      <4>4. ~(b >= lb)
        BY ONLY <4>3
      <4>5. QED
        BY <2>1, <2>9, <4>1, <4>2, <4>4
    <3>2. IsVisit(m, visit) /\ g \in Nat /\ at \in Cursor
      BY <2>9
    <3>3. visit[g][at] =
            IF 2 * at.pos + 1 < TreeWidth(m.n, g - 1)
              THEN Join(LeftChild(visit[g - 1], at), RightChild(visit[g - 1], at))
              ELSE [LeftChild(visit[g - 1], at) EXCEPT !.hash = HashPair(@, @)]
      BY ONLY <3>1, <3>2, VisitParent
    <3>4. LeftChild(visit[h], at) = left /\ RightChild(visit[h], at) = right
      BY <2>9, <2>11, <2>13 DEF LeftChild, RightChild
    <3>5. QED
      BY <2>1, <2>9, <2>10, <3>3, <3>4
  <2>20. ASSUME Holds(m, b + 1, k, l)
         PROVE  Followed(n, upTo, h, CursorAt(2 * p, b + 1, k), l, left)
    <3>1. Hyp(h, 2 * p, b + 1, k)
      BY <2>1, <2>3, <2>17, <2>20
    <3>2. Good(h, 2 * p, b + 1, k)
      <4> HIDE DEF Hyp, Good
      <4>1. QED
        BY <1>3, <2>5, <3>1
    <3>3. QED
      BY <2>3, <2>11, <3>2
  <2>21. CASE 2 * p + 1 < TreeWidth(n, h)
    <3>1. Holds(m, b, k, WriteBoth(l, r))
      BY <2>7, <2>16, <2>21
    <3>2. /\ b < Len(m.bits) /\ m.bits[b + 1]
          /\ Holds(m, b + 1, k, l) /\ Holds(m, (b + 1) + Len(l.bits), k + Len(l.hashes), r)
      BY <2>6, <2>18, <3>1, HoldsBoth
    <3>3. Followed(n, upTo, h, CursorAt(2 * p, b + 1, k), l, left)
      BY <2>20, <3>2
    <3>4. left.bits = (b + 1) + Len(l.bits) /\ left.hashes = k + Len(l.hashes)
      BY <3>3 DEF Followed, CursorAt
    <3>5. Holds(m, left.bits, left.hashes, r)
      BY <3>2, <3>4
    <3>6. PICK i, j \in Nat : i = left.bits /\ j = left.hashes
      BY <2>14
    <3>7. Hyp(h, 2 * p + 1, i, j)
      BY <2>1, <2>4, <2>21, <3>5, <3>6
    <3>8. Good(h, 2 * p + 1, i, j)
      <4> HIDE DEF Hyp, Good
      <4>1. QED
        BY <1>3, <2>5, <3>7
    <3>9. Followed(n, upTo, h, CursorAt(2 * p + 1, left.bits, left.hashes), r, right)
      BY <2>4, <2>13, <3>6, <3>8
    <3>10. Followed(n, upTo, h + 1, CursorAt(p, b, k), WriteBoth(l, r), Join(left, right))
      BY <2>6, <2>12, <2>15, <2>21, <3>3, <3>9, FollowedBoth
    <3>11. c = Join(left, right) /\ w = WriteBoth(l, r)
      BY <2>7, <2>19, <2>21, <3>2
    <3>12. QED
      BY <1>3, <2>8, <2>2, <2>10, <3>10, <3>11
  <2>22. CASE ~(2 * p + 1 < TreeWidth(n, h))
    <3>1. Holds(m, b, k, WriteLeft(l))
      BY <2>7, <2>16, <2>22
    <3>2. b < Len(m.bits) /\ m.bits[b + 1] /\ Holds(m, b + 1, k, l)
      BY <2>6, <2>18, <3>1, HoldsLeft
    <3>3. Followed(n, upTo, h, CursorAt(2 * p, b + 1, k), l, left)
      BY <2>20, <3>2
    <3>4. Followed(n, upTo, h + 1, CursorAt(p, b, k), WriteLeft(l),
                   [left EXCEPT !.hash = HashPair(@, @)])
      BY <2>1, <2>6, <2>12, <2>22, <3>3, FollowedOnly
    <3>5. c = [left EXCEPT !.hash = HashPair(@, @)] /\ w = WriteLeft(l)
      BY <2>7, <2>19, <2>22, <3>2
    <3>6. QED
      BY <1>3, <2>8, <2>2, <2>10, <3>4, <3>5
  <2>23. QED
    BY <2>21, <2>22
<1> HIDE DEF Hyp, Good
<1>4. Nat \subseteq S
  <2>1. 0 \in S
    BY <1>2
  <2>2. ASSUME NEW h \in Nat, h \in S
        PROVE  h + 1 \in S
    <3>1. PICK g \in Nat : g = h + 1
      OBVIOUS
    <3>2. \A p, b, k \in Nat : Hyp(g, p, b, k) => Good(g, p, b, k)
      BY <1>2, <1>3, <2>2, <3>1
    <3>3. QED
      BY <3>1, <3>2
  <2>3. QED
    <3> HIDE DEF S
    <3>1. QED
      BY <2>1, <2>2, NatSetInduction
<1>5. \A h \in Nat : \A p, b, k \in Nat : Hyp(h, p, b, k) => Good(h, p, b, k)
  BY <1>4
<1>6. QED
  BY <1>5 DEF Hyp, Good

\* The bytes that hold a number of bits.
LEMMA CeilDivIs ==
  ASSUME NEW a \in Nat, NEW c \in Nat, c # 0
  PROVE  /\ CeilDiv(a, c) \in Nat /\ a <= CeilDiv(a, c) * c /\ CeilDiv(a, c) * c < a + c
         /\ a # 0 => CeilDiv(a, c) # 0
<1> DEFINE q == (a + c - 1) \div c
           r == (a + c - 1) % c
<1>1. q \in Int /\ r \in 0..(c - 1) /\ a + c - 1 = c * q + r
  <2>1. a + c - 1 \in Int /\ c \in Positive
    BY DEF Positive
  <2>2. QED
    BY <2>1, DivMod
<1> HIDE DEF q, r
<1>2. q \in Nat
  <2>1. SUFFICES ASSUME q < 0 PROVE FALSE
    BY <1>1
  <2>2. PICK d \in Nat : q = -1 - d
    <3>1. -1 - q \in Nat /\ q = -1 - (-1 - q)
      BY <1>1, <2>1
    <3>2. QED
      BY <3>1
  <2>3. c * q = -c - c * d /\ c * d \in Nat
    BY <2>2
  <2>4. QED
    BY <1>1, <2>3
<1>3. c * q = q * c /\ c * q \in Nat
  BY <1>2
<1>4. a <= q * c /\ q * c < a + c
  BY <1>1, <1>3
<1>5. a # 0 => q # 0
  BY <1>2, <1>4
<1>6. QED
  BY <1>2, <1>4, <1>5 DEF CeilDiv, q

\* Whole bytes.
LEMMA WholeBytes ==
  ASSUME NEW q \in Nat, NEW c \in Nat, c # 0
  PROVE  (q * c) \div c = q
<1> DEFINE x == (q * c) \div c
           r == (q * c) % c
<1>1. x \in Int /\ r \in 0..(c - 1) /\ q * c = c * x + r
  <2>1. q * c \in Int /\ c \in Positive
    BY DEF Positive
  <2>2. QED
    BY <2>1, DivMod
<1> HIDE DEF x, r
<1>2. ~(x < q)
  <2>1. SUFFICES ASSUME x < q PROVE FALSE
    OBVIOUS
  <2>2. PICK d \in Nat : q = x + 1 + d
    <3>1. q - x - 1 \in Nat /\ q = x + 1 + (q - x - 1)
      BY <1>1, <2>1
    <3>2. QED
      BY <3>1
  <2>3. q * c = c * x + c + c * d /\ c * d \in Nat /\ c * x \in Int
    BY <1>1, <2>2
  <2>4. QED
    BY <1>1, <2>3
<1>3. ~(q < x)
  <2>1. SUFFICES ASSUME q < x PROVE FALSE
    OBVIOUS
  <2>2. PICK d \in Nat : x = q + 1 + d
    <3>1. x - q - 1 \in Nat /\ x = q + 1 + (x - q - 1)
      BY <1>1, <2>1
    <3>2. QED
      BY <3>1
  <2>3. c * x = q * c + c + c * d /\ c * d \in Nat /\ q * c \in Nat
    BY <2>2
  <2>4. QED
    BY <1>1, <2>3
<1>4. x = q
  BY <1>1, <1>2, <1>3
<1>5. QED
  BY <1>4 DEF x

\* The length of the vector of bytes, divided once more: one byte stays one, and
\* more bytes get fewer.
LEMMA DividedTwice ==
  ASSUME NEW q \in Nat, NEW c \in Nat, q # 0, c # 0
  PROVE  /\ q = 1 => CeilDiv(q, c) = q
         /\ q > 1 /\ c > 1 => CeilDiv(q, c) # q
<1> DEFINE x == CeilDiv(q, c)
<1>1. x \in Nat /\ q <= x * c /\ x * c < q + c /\ x # 0
  BY CeilDivIs
<1> HIDE DEF x
<1>2. ASSUME q = 1
      PROVE  x = q
  <2>1. SUFFICES ASSUME x > 1 PROVE FALSE
    BY <1>1, <1>2
  <2>2. PICK d \in Nat : x = 2 + d
    <3>1. x - 2 \in Nat /\ x = 2 + (x - 2)
      BY <1>1, <2>1
    <3>2. QED
      BY <3>1
  <2>3. x * c = 2 * c + d * c /\ d * c \in Nat
    BY <2>2
  <2>4. QED
    BY <1>1, <1>2, <2>3
<1>3. ASSUME q > 1, c > 1
      PROVE  x # q
  <2>1. SUFFICES ASSUME x = q PROVE FALSE
    OBVIOUS
  <2>2. PICK d, e \in Nat : q = 2 + d /\ c = 2 + e
    <3>1. q - 2 \in Nat /\ q = 2 + (q - 2) /\ c - 2 \in Nat /\ c = 2 + (c - 2)
      BY <1>3
    <3>2. QED
      BY <3>1
  <2>3. q * c = 4 + 2 * d + 2 * e + d * e /\ d * e \in Nat
    BY <2>2
  <2>4. PICK y, z \in Nat : y = q * c /\ z = d * e /\ y = 4 + 2 * d + 2 * e + z
    BY <2>3
  <2>5. y < q + c
    BY <1>1, <2>1, <2>4
  <2>6. y < 4 + d + e
    BY ONLY <2>2, <2>5
  <2>7. QED
    BY ONLY <2>4, <2>6
<1>4. QED
  BY <1>2, <1>3 DEF x

\* The flags as they are sent: they begin the bytes.
LEMMA PackedIs ==
  ASSUME NEW s, s \in Seq(BOOLEAN)
  PROVE  /\ Packed(s) \in Seq(BOOLEAN) /\ HasAt(Packed(s), 0, s)
         /\ Len(Packed(s)) = CeilDiv(Len(s), Byte) * Byte
<1> DEFINE x == CeilDiv(Len(s), Byte) * Byte
           pad == [i \in 1..(x - Len(s)) |-> FALSE]
<1>1. Len(s) \in Nat /\ Byte \in Nat /\ Byte # 0
  BY FilteredAssumption, LenProperties
<1>2. x \in Nat /\ Len(s) <= x
  <2>1. CeilDiv(Len(s), Byte) \in Nat /\ Len(s) <= x
    BY <1>1, CeilDivIs
  <2>2. QED
    BY <1>1, <2>1
<1>3. Packed(s) = s \o pad
  BY DEF Packed
<1> HIDE DEF x
<1>4. x - Len(s) \in Nat
  BY <1>1, <1>2
<1>5. pad \in Seq(BOOLEAN) /\ Len(pad) = x - Len(s)
  <2>1. PICK d \in Nat : d = x - Len(s)
    BY <1>4
  <2> DEFINE e == [i \in 1..d |-> FALSE]
  <2>2. e \in Seq(BOOLEAN) /\ Len(e) = d
    <3>1. e \in [1..d -> BOOLEAN]
      OBVIOUS
    <3>2. e \in Seq(BOOLEAN)
      <4>1. [1..d -> BOOLEAN] \in {[1..k -> BOOLEAN] : k \in Nat}
        BY <2>1
      <4>2. Seq(BOOLEAN) = UNION {[1..k -> BOOLEAN] : k \in Nat}
        BY SeqDef
      <4> HIDE DEF e
      <4>3. QED
        BY <3>1, <4>1, <4>2
    <3>3. Len(e) \in Nat /\ DOMAIN e = 1..Len(e)
      BY <3>2, LenProperties
    <3>4. DOMAIN e = 1..d
      OBVIOUS
    <3> HIDE DEF e
    <3>5. d \in 1..Len(e) <=> d \in 1..d
      BY <3>3, <3>4
    <3>6. Len(e) \in 1..Len(e) <=> Len(e) \in 1..d
      BY <3>3, <3>4
    <3>7. QED
      BY <2>1, <3>2, <3>3, <3>5, <3>6
  <2>3. pad = [i \in 1..d |-> FALSE]
    BY ONLY <2>1 DEF pad
  <2>4. QED
    BY ONLY <2>1, <2>2, <2>3
<1> HIDE DEF pad
<1>6. /\ s \o pad \in Seq(BOOLEAN) /\ Len(s \o pad) = Len(s) + Len(pad)
      /\ \A i \in 1..Len(s) : (s \o pad)[i] = s[i]
  BY <1>5
<1>7. Len(s \o pad) = x
  BY <1>1, <1>2, <1>5, <1>6
<1>8. HasAt(s \o pad, 0, s)
  <2>1. 0 + Len(s) <= Len(s \o pad)
    BY <1>1, <1>2, <1>7
  <2>2. ASSUME NEW i \in 1..Len(s)
        PROVE  (s \o pad)[0 + i] = s[i]
    <3>1. 0 + i = i
      OBVIOUS
    <3>2. QED
      BY <1>6, <3>1
  <2>3. QED
    BY <2>1, <2>2 DEF HasAt
<1>9. QED
  BY <1>3, <1>6, <1>7, <1>8 DEF x

\* Whether the walk of the client through the message m uses L bits and K hashes
\* up, finds the root, and gives the relevant transactions of a block of n.
Recovers(m, n, L, K) ==
  /\ Traverse(m).bits = L /\ Traverse(m).hashes = K
  /\ ~Traverse(m).bad /\ Traverse(m).hash = CalcHash(n, Height(n), 0)
  /\ Traverse(m).match = RelevantTxids(n)

\* The message of the node: its L bits in whole bytes, and its K hashes.
Sent(m, n, L, K) ==
  /\ m.n = n /\ m.root = ComputeMerkleRoot(Txids(n))
  /\ m.bits \in Seq(BOOLEAN) /\ Len(m.bits) = CeilDiv(L, Byte) * Byte
  /\ m.hashes \in Seq(Hashes(n)) /\ Len(m.hashes) = K

\* The client goes through the node's message as the node wrote it.
LEMMA HonestWalk ==
  ASSUME NEW n \in 1..MaxTx
  PROVE  \E L, K \in Nat : /\ 1 <= K /\ K <= L
                           /\ Sent(MerkleBlock(filter, n), n, L, K)
                           /\ Recovers(MerkleBlock(filter, n), n, L, K)
<1> DEFINE F == Relevant(filter, n)
           H == Height(n)
           tree == TraverseAndBuild(n, F)
           m == MerkleBlock(filter, n)
           at == CursorAt(0, 0, 0)
<1>1. n \in Nat /\ F \subseteq 1..n /\ H \in Nat /\ TreeWidth(n, H) = 1 /\ n <= Pow2[H]
  BY OneRoot, FilteredAssumption DEF Relevant
<1>2. PICK build \in [Nat -> Level(Nat, Written(Hashes(n)))] :
        tree = build[H][0] /\ IsBuild(n, F, build)
  BY BuildIs DEF IsBuild
<1>3. /\ m.n = n /\ m.root = ComputeMerkleRoot(Txids(n))
      /\ m.hashes = tree.hashes /\ m.bits = Packed(tree.bits)
  BY DEF MerkleBlock
<1> HIDE DEF m, tree, H, F
<1>4. tree \in Written(Hashes(n))
  BY <1>1, <1>2 DEF Level
<1>5. tree.bits \in Seq(BOOLEAN) /\ tree.hashes \in Seq(Hashes(n))
  BY <1>4 DEF Written
<1>6. 1 <= Len(tree.hashes) /\ Len(tree.hashes) <= Len(tree.bits)
  <2>1. \A h, pos \in Nat : /\ 1 <= Len(build[h][pos].hashes)
                            /\ Len(build[h][pos].hashes) <= Len(build[h][pos].bits)
    BY ONLY <1>2, WrittenSizes
  <2>2. H \in Nat /\ 0 \in Nat
    BY <1>1
  <2>3. QED
    BY <1>2, <2>1, <2>2
<1>7. PICK L, K \in Nat : L = Len(tree.bits) /\ K = Len(tree.hashes)
  BY <1>5, LenProperties
<1>8. /\ m.bits \in Seq(BOOLEAN) /\ HasAt(m.bits, 0, tree.bits)
      /\ Len(m.bits) = CeilDiv(L, Byte) * Byte
  <2>1. PICK s : s = tree.bits
    OBVIOUS
  <2>2. s \in Seq(BOOLEAN)
    BY <1>5, <2>1
  <2>3. /\ Packed(s) \in Seq(BOOLEAN) /\ HasAt(Packed(s), 0, s)
        /\ Len(Packed(s)) = CeilDiv(Len(s), Byte) * Byte
    BY ONLY <2>2, PackedIs, FilteredAssumption
  <2>4. QED
    BY <1>3, <1>7, <2>1, <2>3
<1>9. m.hashes \in Seq(Hashes(n)) /\ Len(m.hashes) = K /\ Len(m.hashes) \in Nat
  BY <1>3, <1>5, <1>7
<1>10. Sent(m, n, L, K)
  BY <1>3, <1>8, <1>9 DEF Sent
<1>11. HasAt(m.hashes, 0, tree.hashes)
  BY <1>3, <1>7, <1>9 DEF HasAt
<1>12. Holds(m, 0, 0, tree)
  BY <1>8, <1>11 DEF Holds
<1>13. PICK V, visit : /\ visit \in [Nat -> Level(Cursor, Found(V))]
                       /\ Traverse(m) = visit[Height(m.n)][at] /\ IsVisit(m, visit)
  <2>1. m.hashes \in Seq(Hashes(n)) /\ m.bits \in Seq(BOOLEAN)
    BY <1>8, <1>9
  <2>2. PICK V, visit :
          /\ Hashes(n) \subseteq V /\ visit \in [Nat -> Level(Cursor, Found(V))]
          /\ Traverse(m) = visit[Height(m.n)][CursorAt(0, 0, 0)] /\ IsVisit(m, visit)
    BY ONLY <2>1, VisitIs
  <2>3. QED
    BY <2>2
<1>14. PICK U, upTo : /\ upTo \in [Nat -> Seq(U)] /\ IsUpTo(F, upTo)
                      /\ RelevantTxids(n) = upTo[n]
  BY <1>1, RelevantIs DEF F
<1>15. PICK c : c = Traverse(m)
  OBVIOUS
<1>16. c = visit[H][at] /\ c \in Found(V)
  <2>1. at \in Cursor
    BY DEF CursorAt, Cursor
  <2> HIDE DEF at
  <2>2. c = visit[H][at]
    BY <1>3, <1>13, <1>15 DEF H
  <2>3. QED
    BY <1>1, <1>13, <2>1, <2>2 DEF Level
<1>17. Followed(n, upTo, H, at, tree, c)
  <2>1. build \in [Nat -> Level(Nat, Written(Hashes(n)))] /\ IsBuild(n, F, build)
    BY <1>2
  <2>2. m.n = n /\ m.bits \in Seq(BOOLEAN) /\ Len(m.hashes) \in Nat
    BY <1>3, <1>8, <1>9
  <2>3. visit \in [Nat -> Level(Cursor, Found(V))] /\ IsVisit(m, visit)
    BY <1>13
  <2>4. upTo \in [Nat -> Seq(U)] /\ IsUpTo(F, upTo)
    BY <1>14
  <2>5. F \subseteq 1..n
    BY <1>1
  <2>6. \A h \in Nat : \A p, b, k \in Nat :
          h <= Height(n) /\ p < TreeWidth(n, h) /\ Holds(m, b, k, build[h][p])
            => Followed(n, upTo, h, CursorAt(p, b, k), build[h][p], visit[h][CursorAt(p, b, k)])
    BY ONLY <2>1, <2>2, <2>3, <2>4, <2>5, FollowedAll
  <2>7. 0 \in Nat /\ H \in Nat /\ H <= Height(n) /\ 0 < TreeWidth(n, H)
    BY <1>1 DEF H
  <2>8. QED
    BY <1>2, <1>12, <1>16, <2>6, <2>7
<1>18. c.bits = L /\ c.hashes = K /\ ~c.bad /\ c.hash = CalcHash(n, H, 0)
  BY <1>7, <1>17 DEF Followed, CursorAt
<1>19. c.match = RelevantTxids(n)
  <2>1. PICK w : w = Pow2[H]
    OBVIOUS
  <2>2. w \in Nat /\ n <= w
    BY <1>1, <2>1, Pow2Def
  <2>3. upTo[(0 + 1) * w] = upTo[0 * w] \o c.match
    BY <1>17, <2>1 DEF Followed, CursorAt
  <2>4. (0 + 1) * w = w /\ 0 * w = 0
    BY <2>2
  <2>5. upTo[0] = <<>> /\ c.match \in Seq(V)
    BY <1>14, <1>16 DEF IsUpTo, Found
  <2>6. upTo[w] = c.match
    <3>1. upTo[w] = <<>> \o c.match
      BY ONLY <2>3, <2>4, <2>5
    <3>2. <<>> \o c.match = c.match
      BY ONLY <2>5, ConcatEmptySeq
    <3>3. QED
      BY ONLY <3>1, <3>2
  <2>7. NoneIn(F, n, w)
    BY <1>1 DEF NoneIn
  <2>8. upTo[w] = upTo[n]
    <3>1. n \in Nat /\ w \in Nat /\ n <= w /\ IsUpTo(F, upTo) /\ NoneIn(F, n, w)
      BY <1>1, <1>14, <2>2, <2>7
    <3>2. QED
      BY ONLY <3>1, UpToSame
  <2>9. QED
    BY <1>14, <2>6, <2>8
<1>20. Recovers(m, n, L, K)
  BY <1>15, <1>18, <1>19 DEF Recovers, H
<1>21. QED
  BY <1>6, <1>7, <1>10, <1>20 DEF m

\* What the client makes of the node's message: it goes through where the flags
\* take one byte, and is rejected where they take more, the last test dividing
\* the number of bytes as if it were one of bits.
LEMMA HonestOutcome ==
  ASSUME NEW n \in 1..MaxTx
  PROVE  LET m == MerkleBlock(filter, n) IN
         /\ Len(m.bits) <= Byte => ExtractMatches(m) = Accepted(RelevantTxids(n))
         /\ Byte > 1 /\ Len(m.bits) > Byte => ExtractMatches(m) = Rejected
<1>1. PICK L, K \in Nat : /\ 1 <= K /\ K <= L
                          /\ Sent(MerkleBlock(filter, n), n, L, K)
                          /\ Recovers(MerkleBlock(filter, n), n, L, K)
  BY HonestWalk
<1>2. PICK m : m = MerkleBlock(filter, n)
  OBVIOUS
<1>3. PICK c : c = Traverse(m)
  OBVIOUS
<1>4. /\ m.n = n /\ m.root = c.hash /\ Len(m.hashes) = K /\ m.hashes \in Seq(Hashes(n))
      /\ m.bits \in Seq(BOOLEAN) /\ Len(m.bits) = CeilDiv(L, Byte) * Byte
      /\ c.bits = L /\ c.hashes = K /\ ~c.bad /\ c.match = RelevantTxids(n)
  BY <1>1, <1>2, <1>3, RootIs DEF Sent, Recovers
<1>5. PICK q : q = CeilDiv(L, Byte)
  OBVIOUS
<1>6. Byte \in Nat /\ Byte # 0 /\ n \in Nat /\ n # 0 /\ L # 0
  BY <1>1, FilteredAssumption
<1>7. q \in Nat /\ L <= q * Byte /\ q # 0
  BY <1>5, <1>6, CeilDivIs
<1>8. Len(m.bits) \div Byte = q
  <2>1. q \in Nat /\ Byte \in Nat /\ Byte # 0
    BY <1>6, <1>7
  <2>2. (q * Byte) \div Byte = q
    BY <2>1, WholeBytes
  <2>3. Len(m.bits) = q * Byte
    BY ONLY <1>4, <1>5
  <2>4. QED
    BY ONLY <2>2, <2>3
<1>9. /\ q = 1 => CeilDiv(q, Byte) = q
      /\ q > 1 /\ Byte > 1 => CeilDiv(q, Byte) # q
  BY <1>6, <1>7, DividedTwice
<1>10. /\ q = 1 <=> Len(m.bits) <= Byte
       /\ q > 1 <=> Len(m.bits) > Byte
  <2>1. PICK d \in Nat : q = d + 1
    <3>1. q - 1 \in Nat /\ q = (q - 1) + 1
      BY <1>7
    <3>2. QED
      BY <3>1
  <2>2. q * Byte = d * Byte + Byte /\ d * Byte \in Nat
    BY <1>6, <2>1
  <2>3. d # 0 => d * Byte > 0
    BY <1>6, <2>1
  <2>4. Len(m.bits) = q * Byte
    BY <1>4, <1>5
  <2>5. d = 0 => d * Byte = 0
    BY <1>6
  <2>6. QED
    BY <1>6, <2>1, <2>2, <2>3, <2>4, <2>5
<1>11. Extract(m).ok <=> q = CeilDiv(q, Byte)
  <2>1. m.n # 0 /\ m.hashes # <<>> /\ m.bits # <<>> /\ Len(m.bits) >= Len(m.hashes)
    BY <1>1, <1>4, <1>5, <1>6, <1>7
  <2>2. Extract(m).ok <=> /\ m.n # 0 /\ m.hashes # <<>> /\ m.bits # <<>>
                          /\ Len(m.bits) >= Len(m.hashes) /\ ~c.bad
                          /\ CeilDiv(c.bits, Byte) = CeilDiv(Len(m.bits) \div Byte, Byte)
                          /\ c.hashes = Len(m.hashes)
    BY <1>3 DEF Extract
  <2>3. QED
    BY <1>4, <1>5, <1>8, <2>1, <2>2
<1>12. Extract(m).root = m.root /\ Extract(m).match = RelevantTxids(n)
  BY <1>3, <1>4 DEF Extract
<1>13. ExtractMatches(m) = IF q = CeilDiv(q, Byte) THEN Accepted(RelevantTxids(n)) ELSE Rejected
  BY <1>11, <1>12 DEF ExtractMatches
<1>14. QED
  BY <1>2, <1>9, <1>10, <1>13

----------------------------------------------------------------------------
(* The states of a block on its way from the node to the client.           *)

\* The messages with root r and hashes of X.
Messages(r, X) == [root : {r}, n : Nat, hashes : Seq(X), bits : Seq(BOOLEAN)]

\* The node's message is one of them.
LEMMA HonestMessage ==
  ASSUME NEW n \in 1..MaxTx
  PROVE  MerkleBlock(filter, n) \in Messages(ComputeMerkleRoot(Txids(n)), Hashes(n))
<1>1. PICK L, K \in Nat : Sent(MerkleBlock(filter, n), n, L, K)
  BY HonestWalk
<1>2. PICK r : r = ComputeMerkleRoot(Txids(n))
  OBVIOUS
<1>3. PICK m : m = MerkleBlock(filter, n)
  OBVIOUS
<1>4. PICK hashes, bits : m = [root |-> r, n |-> n, hashes |-> hashes, bits |-> bits]
  BY <1>2, <1>3 DEF MerkleBlock
<1>5. hashes \in Seq(Hashes(n)) /\ bits \in Seq(BOOLEAN)
  BY <1>1, <1>3, <1>4 DEF Sent
<1>6. n \in Nat
  BY FilteredAssumption
<1>7. QED
  BY <1>2, <1>3, <1>4, <1>5, <1>6 DEF Messages

\* A hash taken out of the message leaves hashes.
LEMMA RemoveAtType ==
  ASSUME NEW X, NEW s \in Seq(X), NEW i \in 1..Len(s)
  PROVE  RemoveAt(s, i) \in Seq(X)
<1>1. Len(s) \in Nat /\ \A j \in 1..Len(s) : s[j] \in X
  OBVIOUS
<1>2. SubSeq(s, 1, i - 1) \in Seq(X)
  <2>1. 1 \in Int /\ i - 1 \in Int /\ \A j \in 1..(i - 1) : s[j] \in X
    BY <1>1
  <2>2. QED
    BY <2>1, SubSeqProperties
<1>3. SubSeq(s, i + 1, Len(s)) \in Seq(X)
  <2>1. i + 1 \in Int /\ Len(s) \in Int /\ \A j \in (i + 1)..Len(s) : s[j] \in X
    BY <1>1
  <2>2. QED
    BY <2>1, SubSeqProperties
<1>4. QED
  BY <1>2, <1>3 DEF RemoveAt

\* Whatever Corrupt does to a message, it stays one with that root.
LEMMA CorruptMessage ==
  ASSUME NEW r, NEW X, msg \in Messages(r, X), Corrupt
  PROVE  \E Y : msg' \in Messages(r, Y)
<1> DEFINE Y == X \cup {<<0>>, Last(msg.hashes)}
<1>1. /\ msg.root = r /\ msg.n \in Nat /\ msg.hashes \in Seq(X) /\ msg.bits \in Seq(BOOLEAN)
      /\ msg = [root |-> r, n |-> msg.n, hashes |-> msg.hashes, bits |-> msg.bits]
  BY DEF Messages
<1>2. PICK s, b, k : s = msg.hashes /\ b = msg.bits /\ k = msg.n
  OBVIOUS
<1>3. <<0>> \in Y /\ Last(s) \in Y
  BY <1>2
<1>4. s \in Seq(Y) /\ b \in Seq(BOOLEAN) /\ k \in Nat
  <2>1. s \in Seq(X) /\ X \subseteq Y
    BY <1>1, <1>2
  <2> HIDE DEF Y
  <2>2. s \in Seq(Y)
    BY <2>1, SeqMonotonic
  <2>3. QED
    BY <1>1, <1>2, <2>2
<1>5. msg = [root |-> r, n |-> k, hashes |-> s, bits |-> b]
  BY <1>1, <1>2
<1> HIDE DEF Y
<1>6. ASSUME NEW k2 \in Nat, NEW s2 \in Seq(Y), NEW b2 \in Seq(BOOLEAN),
             msg' = [root |-> r, n |-> k2, hashes |-> s2, bits |-> b2]
      PROVE  msg' \in Messages(r, Y)
  BY <1>6 DEF Messages
<1>7. ASSUME NEW n \in Counts, msg' = [msg EXCEPT !.n = n]
      PROVE  msg' \in Messages(r, Y)
  BY <1>4, <1>5, <1>6, <1>7, FilteredAssumption
<1>8. ASSUME NEW i \in 1..Len(msg.bits), msg' = [msg EXCEPT !.bits[i] = ~@]
      PROVE  msg' \in Messages(r, Y)
  <2>1. [b EXCEPT ![i] = ~b[i]] \in Seq(BOOLEAN)
    <3>1. i \in 1..Len(b)
      BY <1>2, <1>8
    <3>2. (~b[i]) \in BOOLEAN
      BY Zenon
    <3>3. QED
      BY <1>4, <3>1, <3>2, ExceptSeq
  <2>2. msg' = [root |-> r, n |-> k, hashes |-> s, bits |-> [b EXCEPT ![i] = ~b[i]]]
    BY <1>5, <1>8
  <2>3. QED
    BY <1>4, <1>6, <2>1, <2>2
<1>9. ASSUME NEW i \in 1..Len(msg.hashes), msg' = [msg EXCEPT !.hashes[i] = << 0 >>]
      PROVE  msg' \in Messages(r, Y)
  <2>1. [s EXCEPT ![i] = <<0>>] \in Seq(Y)
    BY <1>2, <1>3, <1>4, ExceptSeq
  <2>2. msg' = [root |-> r, n |-> k, hashes |-> [s EXCEPT ![i] = <<0>>], bits |-> b]
    BY <1>5, <1>9
  <2>3. QED
    BY <1>4, <1>6, <2>1, <2>2
<1>10. ASSUME NEW i \in 1..Len(msg.hashes), msg' = [msg EXCEPT !.hashes = RemoveAt(@, i)]
       PROVE  msg' \in Messages(r, Y)
  <2>1. RemoveAt(s, i) \in Seq(Y)
    BY <1>2, <1>4, RemoveAtType
  <2>2. msg' = [root |-> r, n |-> k, hashes |-> RemoveAt(s, i), bits |-> b]
    BY <1>5, <1>10
  <2>3. QED
    BY <1>4, <1>6, <2>1, <2>2
<1>11. ASSUME msg' = [msg EXCEPT !.hashes = Append(@, << 0 >>)]
       PROVE  msg' \in Messages(r, Y)
  <2>1. Append(s, <<0>>) \in Seq(Y)
    BY <1>3, <1>4, AppendProperties
  <2>2. msg' = [root |-> r, n |-> k, hashes |-> Append(s, <<0>>), bits |-> b]
    BY <1>5, <1>11
  <2>3. QED
    BY <1>4, <1>6, <2>1, <2>2
<1>12. ASSUME msg' = [msg EXCEPT !.bits = Packed(Append(@, FALSE))]
       PROVE  msg' \in Messages(r, Y)
  <2>1. Packed(Append(b, FALSE)) \in Seq(BOOLEAN)
    <3>1. Append(b, FALSE) \in Seq(BOOLEAN)
      BY <1>4, AppendProperties
    <3>2. QED
      BY <3>1, PackedIs
  <2>2. msg' = [root |-> r, n |-> k, hashes |-> s, bits |-> Packed(Append(b, FALSE))]
    BY <1>5, <1>12
  <2>3. QED
    BY <1>4, <1>6, <2>1, <2>2
<1>13. ASSUME NEW i \in 1..Len(msg.bits), NEW n \in Counts,
              msg' = [msg EXCEPT !.hashes = Append(@, Last(@)), !.n = n, !.bits[i] = TRUE]
       PROVE  msg' \in Messages(r, Y)
  <2>1. Append(s, Last(s)) \in Seq(Y)
    BY <1>3, <1>4, AppendProperties
  <2>2. [b EXCEPT ![i] = TRUE] \in Seq(BOOLEAN)
    BY <1>2, <1>4, ExceptSeq
  <2>3. msg' = [root |-> r, n |-> n, hashes |-> Append(s, Last(s)), bits |-> [b EXCEPT ![i] = TRUE]]
    BY <1>5, <1>13
  <2>4. n \in Nat
    BY FilteredAssumption
  <2>5. QED
    BY <1>6, <2>1, <2>2, <2>3, <2>4
<1>14. QED
  BY <1>7, <1>8, <1>9, <1>10, <1>11, <1>12, <1>13 DEF Corrupt

\* The inductive invariant: without a block there is no message; with one, the
\* message has the block's root, is the node's where nothing happened to it, and
\* what was extracted was extracted from it.
FilteredInv ==
  /\ block = 0 => intact /\ out = Nothing
  /\ block # 0 => /\ block \in 1..MaxTx
                  /\ \E X : msg \in Messages(ComputeMerkleRoot(Txids(block)), X)
                  /\ intact => msg = MerkleBlock(filter, block)
                  /\ out = Nothing \/ out = ExtractMatches(msg)

\* Every step keeps it: a served block's message is the node's, Corrupt keeps the
\* root and clears intact, and nothing else changes a message.
LEMMA FilteredStep == FilteredInv /\ [FilteredNext]_filteredVars => FilteredInv'
<1> SUFFICES ASSUME FilteredInv, [FilteredNext]_filteredVars
             PROVE  FilteredInv'
  OBVIOUS
<1>1. ASSUME NEW A \in SUBSET Addr, RebuildFilter(A)
      PROVE  FilteredInv'
  BY <1>1 DEF RebuildFilter, FilteredInv
<1>2. ASSUME NEW n \in 1..MaxTx, Serve(n)
      PROVE  FilteredInv'
  <2>1. block = 0 /\ block' = n /\ filter' = filter /\ intact' = intact /\ out' = out
        /\ msg' = MerkleBlock(filter, n)
    BY <1>2 DEF Serve
  <2>2. intact /\ out = Nothing
    BY <2>1 DEF FilteredInv
  <2>3. msg' \in Messages(ComputeMerkleRoot(Txids(block')), Hashes(n))
    BY <2>1, HonestMessage
  <2>4. QED
    BY <2>1, <2>2, <2>3 DEF FilteredInv
<1>3. ASSUME Corrupt
      PROVE  FilteredInv'
  <2>1. block # 0 /\ block' = block /\ ~out.got /\ out' = out /\ ~intact'
    BY <1>3 DEF Corrupt
  <2>2. out = Nothing
    BY <2>1 DEF FilteredInv, ExtractMatches, Accepted, Rejected
  <2>3. PICK X : msg \in Messages(ComputeMerkleRoot(Txids(block)), X)
    BY <2>1 DEF FilteredInv
  <2>4. PICK Y : msg' \in Messages(ComputeMerkleRoot(Txids(block)), Y)
    BY <1>3, <2>3, CorruptMessage
  <2>5. QED
    BY <2>1, <2>2, <2>4 DEF FilteredInv
<1>4. ASSUME Receive
      PROVE  FilteredInv'
  BY <1>4 DEF Receive, FilteredInv
<1>5. ASSUME Done
      PROVE  FilteredInv'
  BY <1>5 DEF Done, FilteredInv
<1>6. ASSUME UNCHANGED filteredVars
      PROVE  FilteredInv'
  BY <1>6 DEF filteredVars, FilteredInv
<1>7. QED
  BY <1>1, <1>2, <1>3, <1>4, <1>5, <1>6 DEF FilteredNext

\* Every reachable state has it.
LEMMA FilteredInvariant == FilteredSpec => []FilteredInv
<1>1. FilteredInit => FilteredInv
  BY DEF FilteredInit, FilteredInv
<1>2. QED
  BY <1>1, FilteredStep, PTL DEF FilteredSpec

\* For blocks of any size, filters of any bits and messages damaged in any of
\* these ways: what an accepted merkleblock gives is in the block's tree, nothing
\* twice, and for the block's count of transactions they are transactions of the
\* block in order (CLightPartialMerkleTree::ExtractMatches).
THEOREM ProofsShowTheBlock == FilteredSpec => []MatchesAreOfBlock
<1>1. FilteredInv => MatchesAreOfBlock
  <2>1. SUFFICES ASSUME FilteredInv, out.ok PROVE OfBlock(block, msg.n, out.match)
    BY DEF MatchesAreOfBlock, OfBlock
  <2>2. block # 0 /\ out = ExtractMatches(msg)
    BY <2>1 DEF FilteredInv, Nothing
  <2>3. block \in 1..MaxTx
    BY <2>1, <2>2 DEF FilteredInv
  <2>4. PICK X : msg \in Messages(ComputeMerkleRoot(Txids(block)), X)
    BY <2>1, <2>2 DEF FilteredInv
  <2>5. /\ msg.n \in Nat /\ msg.hashes \in Seq(X) /\ msg.bits \in Seq(BOOLEAN)
        /\ msg.root = ComputeMerkleRoot(Txids(block)) /\ ExtractMatches(msg).ok
    BY <2>1, <2>2, <2>4 DEF Messages
  <2>6. QED
    BY <2>2, <2>3, <2>5, AcceptedOfBlock
<1>2. QED
  BY <1>1, FilteredInvariant, PTL

\* For blocks of any size and filters of any bits: a merkleblock as the node made
\* it, with one byte of flags, is accepted and gives exactly the transactions the
\* node flagged, in the order of the block.
THEOREM ShortProofsAreAccepted == FilteredSpec => []HonestByteAccepted
<1>1. FilteredInv => HonestByteAccepted
  <2>1. SUFFICES ASSUME FilteredInv, out.got, intact, Len(msg.bits) <= Byte
                 PROVE  out = Accepted(RelevantTxids(block))
    BY DEF HonestByteAccepted
  <2>2. block \in 1..MaxTx /\ msg = MerkleBlock(filter, block) /\ out = ExtractMatches(msg)
    BY <2>1 DEF FilteredInv, Nothing
  <2>3. QED
    BY <2>1, <2>2, HonestOutcome
<1>2. QED
  BY <1>1, FilteredInvariant, PTL

\* A merkleblock as the node made it, with flags of more than one byte, is
\* rejected: the last test of ExtractMatches divides the number of bytes by eight.
LongProofRejected ==
  out.got /\ intact /\ Byte > 1 /\ Len(msg.bits) > Byte => out = Rejected

\* It is so for every such message, not only in the state a run finds.
THEOREM LongProofsAreRejected == FilteredSpec => []LongProofRejected
<1>1. FilteredInv => LongProofRejected
  <2>1. SUFFICES ASSUME FilteredInv, out.got, intact, Byte > 1, Len(msg.bits) > Byte
                 PROVE  out = Rejected
    BY DEF LongProofRejected
  <2>2. block \in 1..MaxTx /\ msg = MerkleBlock(filter, block) /\ out = ExtractMatches(msg)
    BY <2>1 DEF FilteredInv, Nothing
  <2>3. QED
    BY <2>1, <2>2, HonestOutcome
<1>2. QED
  BY <1>1, FilteredInvariant, PTL

=============================================================================
