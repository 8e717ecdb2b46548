---------------------------- MODULE MCDifficulty ----------------------------
(***************************************************************************)
(* Targets of 16 bits: two words of four bytes of two bits.                *)
(***************************************************************************)
EXTENDS Difficulty, TLC

MCFactor == (0 :> 4) @@ (1 :> 5) @@ (2 :> 6) @@ (3 :> 7)
MCPowLimit == [size |-> 7, word |-> 15]
MCAnchorBits == [size |-> 6, word |-> 20]

\* The nBits of the anchor.
MCCompacts == {MCAnchorBits}

=============================================================================
