------------------------------- MODULE Powers -------------------------------
(***************************************************************************)
(* Powers of 2, which << and >> of C++ multiply and divide by, as a        *)
(* recursive function: the provers do not know ^.                          *)
(***************************************************************************)
EXTENDS Integers

\* 2^n
Pow2[n \in Nat] == IF n = 0 THEN 1 ELSE 2 * Pow2[n - 1]

=============================================================================
