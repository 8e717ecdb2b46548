----------------------------- MODULE ArithUint -----------------------------
(***************************************************************************)
(* arith_uint256 (src/src/light/light_arith_uint256.cpp): an unsigned      *)
(* integer of Limbs words, least significant first, and the loops that     *)
(* compute on it word by word.  A word is four bytes, as in the code, and  *)
(* a byte has ByteBits bits: the code's 8 words of 4 bytes of 8 bits.      *)
(***************************************************************************)
EXTENDS Powers

CONSTANTS ByteBits, Limbs

ASSUME ArithUintAssumption == ByteBits \in Nat \ {0} /\ Limbs \in Nat \ {0}

WordBits == 4 * ByteBits
WordBase == Pow2[WordBits]
Size == WordBits * Limbs
Modulus == Pow2[Size]

Limb == 0..(Limbs - 1)
Uint == [Limb -> 0..(WordBase - 1)]

Zero == [i \in Limb |-> 0]

\* arith_uint256(v) for a v of one word.
Small(v) == [Zero EXCEPT ![0] = v]

\* << and >> of a uint32_t.
WordShl(w, k) == (w * Pow2[k]) % WordBase
WordShr(w, k) == w \div Pow2[k]

At(a, i) == IF i \in Limb THEN a[i] ELSE 0

----------------------------------------------------------------------------
(* Comparisons and bytes.                                                  *)

IsZero(a) == \A i \in Limb : a[i] = 0

Less(a, b) ==
  \E i \in Limb : a[i] < b[i] /\ \A j \in Limb : j > i => a[j] = b[j]

FromUint256(bytes) ==
  [i \in Limb |->
     bytes[4 * i] + WordShl(bytes[4 * i + 1], ByteBits)
       + WordShl(bytes[4 * i + 2], 2 * ByteBits)
       + WordShl(bytes[4 * i + 3], 3 * ByteBits)]

ToUint256(a) ==
  [k \in 0..(4 * Limbs - 1) |->
     WordShr(a[k \div 4], (k % 4) * ByteBits) % Pow2[ByteBits]]

----------------------------------------------------------------------------
(* Shifts.  The two halves of a word do not overlap, so that | is +.       *)

Shl(a, n) ==
  LET words == n \div WordBits
      bits == n % WordBits
  IN  [i \in Limb |->
         WordShl(At(a, i - words), bits)
           + IF bits = 0 THEN 0 ELSE WordShr(At(a, i - words - 1), WordBits - bits)]

Shr(a, n) ==
  LET words == n \div WordBits
      bits == n % WordBits
  IN  [i \in Limb |->
         WordShr(At(a, i + words), bits)
           + IF bits = 0 THEN 0 ELSE WordShl(At(a, i + words + 1), WordBits - bits)]

----------------------------------------------------------------------------
(* Sums, products, differences, quotients.                                 *)

\* The loop of *=, += and -=: what is above a word is carried into the next
\* one.  ASERT's factor is a uint32_t, so that the 64 bits of the code's
\* accumulator are enough, and the borrow of -= is a carry of -1.
Carried(d) ==
  LET carry[i \in 0..Limbs] ==
        IF i = 0 THEN 0 ELSE (d[i - 1] + carry[i - 1]) \div WordBase
  IN  [i \in Limb |-> (d[i] + carry[i]) % WordBase]

Mul(a, f) == Carried([i \in Limb |-> a[i] * f])

Add(a, b) == Carried([i \in Limb |-> a[i] + b[i]])

Sub(a, b) == Carried([i \in Limb |-> a[i] - b[i]])

Complement(a) == [i \in Limb |-> WordBase - 1 - a[i]]

Bit(a, k) == WordShr(a[k \div WordBits], k % WordBits) % 2

SetBit(a, k) == [a EXCEPT ![k \div WordBits] = @ + Pow2[k % WordBits]]

\* Long division, after the n highest bits; a division by 0 leaves a alone.
Div(a, d) ==
  LET long[n \in 0..Size] ==
        IF n = 0 THEN [rem |-> Zero, quotient |-> Zero]
        ELSE LET k == Size - n
                 before == long[n - 1]
                 rem == [Shl(before.rem, 1) EXCEPT ![0] = @ + Bit(a, k)]
             IN  IF Less(rem, d)
                   THEN [before EXCEPT !.rem = rem]
                   ELSE [rem |-> Sub(rem, d),
                         quotient |-> SetBit(before.quotient, k)]
  IN  IF IsZero(d) THEN a ELSE long[Size].quotient

----------------------------------------------------------------------------
(* nBits: a size in bytes and the three highest bytes, the highest bit of  *)
(* which is a sign and must stay 0.                                        *)

SignBit == Pow2[3 * ByteBits - 1]

Compact == [size : 0..(4 * Limbs + 1), word : 0..(SignBit - 1)]

SetCompact(c) ==
  IF c.size <= 3
    THEN Small(WordShr(c.word, ByteBits * (3 - c.size)))
    ELSE Shl(Small(c.word), ByteBits * (c.size - 3))

\* The word is shifted as if its highest byte were to end up lowest but two;
\* it ends up highest but the leading zeros.
GetCompact(a) ==
  IF IsZero(a) THEN [size |-> 0, word |-> 0]
  ELSE LET top == CHOOSE i \in Limb : a[i] # 0 /\ \A j \in Limb : j > i => a[j] = 0
           high == CHOOSE k \in 0..(WordBits - 1) :
                     WordShr(a[top], k) = 1
           lead == (WordBits - 1 - high) \div ByteBits
           word == WordShr(a[top], lead * ByteBits)
           carry == WordShr(word, 3 * ByteBits - 1) % 2 = 1
       IN  [size |-> 4 * (top + 1) - lead + (IF carry THEN 1 ELSE 0),
            word |-> WordShr(word, IF carry THEN ByteBits ELSE 0) % SignBit]

=============================================================================
