---------------------------- MODULE MCHeaderSync ----------------------------
(***************************************************************************)
(* A tree of fifteen blocks.  The branch 0 to 5 has the checkpoint 3; 6 to *)
(* 8 fork below it.  Above it 9 and 10, of which 9 fails the checks of a   *)
(* header alone, 11 to 13, a longer branch that keeps all rules, and on 4  *)
(* a block with wrong nBits (14) and one too old (15).  Batches of two, so *)
(* that an answer may be full, short or empty.                             *)
(***************************************************************************)
EXTENDS HeaderSync

MCBranches ==
  {<<0, 1>>, <<0, 1, 2, 3, 4, 5>>, <<0, 1, 6, 7, 8>>, <<0, 1, 2, 3, 9, 10>>,
   <<0, 1, 2, 3, 11, 12, 13>>, <<0, 1, 2, 3, 4, 14>>, <<0, 1, 2, 3, 4, 15>>}

MCPrev ==
  [h \in Header |-> CASE h = 0 -> -1 [] h = 6 -> 1 [] h \in {9, 11} -> 3
                      [] h \in {14, 15} -> 4 [] OTHER -> h - 1]

\* 5 is older than 4 and younger than the median of the three before it, 15 is
\* not younger than that.
MCTime == <<1, 2, 3, 6, 4, 2, 3, 4, 4, 5, 4, 5, 6, 7, 3>> @@ (0 :> 0)

MCWork == [h \in Header |-> 2 ^ h]

=============================================================================
