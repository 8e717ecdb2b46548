-------------------------- MODULE MCClientThreads --------------------------
(***************************************************************************)
(* Two addresses, one of which a reload may miss, and three nodes, so that *)
(* the next one in the list is another one after every promotion.          *)
(***************************************************************************)
EXTENDS ClientThreads

CONSTANTS a1, a2
=============================================================================
