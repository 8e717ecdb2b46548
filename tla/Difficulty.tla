----------------------------- MODULE Difficulty -----------------------------
(***************************************************************************)
(* The arithmetic of targets: arith_uint256 as a register that operations  *)
(* are applied to, ASERT (src/src/light/light_asert.cpp) and the work of a *)
(* header (light_chainstore.cpp AddWork) among them, beside the integer    *)
(* the register stands for.                                                *)
(*                                                                         *)
(* The radix of 2^16 of ASERT is 2^RadixBits, and its cubic is the         *)
(* constant Factor, of which the code needs no more than its range: from   *)
(* the radix to less than twice the radix.                                 *)
(***************************************************************************)
EXTENDS ArithUint

CONSTANTS
  Start, Shifts, Factors, Operands, Compacts,  \* the inputs, bounds of the model
  RadixBits, Factor,
  Spacing, HalfLife, PowLimit,         \* LightASERTParams
  AnchorHeight, AnchorBits, AnchorTime,
  Heights, Times                       \* of the blocks ASERT is asked about

Radix == Pow2[RadixBits]

VARIABLES
  reg,   \* an arith_uint256
  val    \* the integer it should be

arithVars == <<reg, val>>

----------------------------------------------------------------------------
(* light_asert.cpp                                                         *)

\* Division of C++, toward zero.
Quotient(a, b) == IF a >= 0 THEN a \div b ELSE -((-a) \div b)

Exponent(t, h) ==
  Quotient((t - AnchorTime - Spacing * (h - AnchorHeight + 1)) * Radix, HalfLife)

Clamp(a, limit) ==
  IF IsZero(a) THEN Small(1) ELSE IF Less(limit, a) THEN limit ELSE a

\* Mutant: what the shift pushes out at the top is not missed.
CalculateASERTWraps(ref, limit, e) ==
  LET shifts == e \div Radix - RadixBits
      next == Mul(ref, Factor[e % Radix])
  IN  Clamp(IF shifts <= 0 THEN Shr(next, -shifts) ELSE Shl(next, shifts), limit)

CalculateASERT(ref, limit, e) ==
  LET shifts == e \div Radix - RadixBits
      next == Mul(ref, Factor[e % Radix])
  IN  Clamp(IF shifts <= 0 THEN Shr(next, -shifts)
            ELSE IF Shr(Shl(next, shifts), shifts) # next THEN limit
            ELSE Shl(next, shifts), limit)

----------------------------------------------------------------------------
(* light_chainstore.cpp                                                    *)

BlockProof(a) == Add(Div(Complement(a), Add(a, Small(1))), Small(1))

----------------------------------------------------------------------------
(* The register.                                                           *)

Becomes(r, v) == reg' = r /\ val' = v % Modulus

BytesOf(v) ==
  [k \in 0..(4 * Limbs - 1) |-> (v \div Pow2[k * ByteBits]) % Pow2[ByteBits]]

ValueOfCompact(c) ==
  IF c.size <= 3 THEN c.word \div Pow2[ByteBits * (3 - c.size)]
  ELSE c.word * Pow2[ByteBits * (c.size - 3)]

\* The operands are words, bits and heights as the code's types have them.
ASSUME OperandsAssumption ==
  /\ Start \subseteq Nat /\ Shifts \subseteq Nat
  /\ Factors \subseteq 0..(WordBase - 1) /\ Operands \subseteq 0..(WordBase - 1)
  /\ Compacts \subseteq Compact /\ AnchorBits \in Compact /\ PowLimit \in Compact
  /\ RadixBits \in Nat /\ Factor \in [0..(Radix - 1) -> 0..(WordBase - 1)]
  /\ Spacing \in Nat /\ HalfLife \in Nat \ {0}
  /\ AnchorHeight \in Nat /\ AnchorTime \in Nat
  /\ Heights \subseteq Nat /\ Times \subseteq Nat

\* powLimit is a target, and the anchor's target leaves room for the factor: in
\* the code the anchor is below 2^192 and the factor has 17 bits.
ASSUME TargetsAssumption ==
  /\ ValueOfCompact(PowLimit) \in 1..(Modulus - 1)
  /\ \A f \in 0..(Radix - 1) : ValueOfCompact(AnchorBits) * Factor[f] < Modulus

ArithInit == reg = Zero /\ val = 0

Load(v) == Becomes(FromUint256(BytesOf(v)), v)

LoadCompact(c) == Becomes(SetCompact(c), ValueOfCompact(c))

Reload == Becomes(FromUint256(ToUint256(reg)), val)

ShiftLeft(n) == Becomes(Shl(reg, n), val * Pow2[n])
ShiftRight(n) == Becomes(Shr(reg, n), val \div Pow2[n])
Times1(f) == Becomes(Mul(reg, f), val * f)
Plus(v) == Becomes(Add(reg, Small(v)), val + v)
Minus(v) == Becomes(Sub(reg, Small(v)), val - v)
Over(v) == Becomes(Div(reg, Small(v)), IF v = 0 THEN val ELSE val \div v)

Proof == Becomes(BlockProof(reg), Modulus \div (val + 1))

\* The least and the greatest target, and between them
\* ref * Factor / Radix * 2^shifts, rounded down.
AsertValue(e) ==
  LET ref == ValueOfCompact(AnchorBits)
      limit == ValueOfCompact(PowLimit)
      shifts == e \div Radix - RadixBits
      next == IF shifts <= 0 THEN (ref * Factor[e % Radix]) \div Pow2[-shifts]
              ELSE ref * Factor[e % Radix] * Pow2[shifts]
  IN  IF next = 0 THEN 1 ELSE IF next > limit THEN limit ELSE next

\* GetNextASERTBits for a block at time t; below the anchor it returns the
\* nBits it is given.
Retarget(t, h) ==
  /\ h >= AnchorHeight
  /\ LET e == Exponent(t, h) IN
     Becomes(CalculateASERT(SetCompact(AnchorBits), SetCompact(PowLimit), e),
             AsertValue(e))

ArithNext ==
  \/ \E v \in Start : Load(v)
  \/ \E c \in Compacts : LoadCompact(c)
  \/ Reload
  \/ \E n \in Shifts : ShiftLeft(n) \/ ShiftRight(n)
  \/ \E f \in Factors : Times1(f)
  \/ \E v \in Operands : Plus(v) \/ Minus(v) \/ Over(v)
  \/ Proof
  \/ \E t \in Times, h \in Heights : Retarget(t, h)

ArithSpec == ArithInit /\ [][ArithNext]_arithVars

----------------------------------------------------------------------------
(* Properties.                                                             *)

NumberOf(a) ==
  LET up[i \in 0..Limbs] == IF i = 0 THEN 0 ELSE up[i - 1] + a[i - 1] * Pow2[WordBits * (i - 1)]
  IN  up[Limbs]

\* After any sequence of operations the words stand for the integer that exact
\* arithmetic modulo 2^Size gives: no carry, borrow, crossing bit or long
\* division step goes wrong, work is 2^256 / (target + 1), and ASERT is the
\* exact product between its two limits, at the overflow of its shift too.
ArithAgrees == NumberOf(reg) = val

\* The compact form of an integer in upstream's arith_uint256: the size in
\* bytes, the three highest bytes, one byte less when the sign bit would be
\* taken.
CompactOf(v) ==
  LET bytes == CHOOSE s \in 0..(4 * Limbs) :
                 v < Pow2[s * ByteBits] /\ (s = 0 \/ v >= Pow2[(s - 1) * ByteBits])
      word == IF bytes <= 3 THEN v * Pow2[ByteBits * (3 - bytes)]
              ELSE v \div Pow2[ByteBits * (bytes - 3)]
  IN  IF word >= SignBit THEN [size |-> bytes + 1, word |-> word \div Pow2[ByteBits]]
      ELSE [size |-> bytes, word |-> word]

\* GetCompact gives the nBits that upstream's gives: light_arith_uint256.h says
\* that the class agrees with upstream's, and light_asert.h that
\* GetNextASERTBits, which returns it, gives the nBits of the next block.
CompactAgrees == GetCompact(reg) = CompactOf(val)

=============================================================================
