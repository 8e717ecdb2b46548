-------------------------- MODULE MCFilteredBlock --------------------------
(***************************************************************************)
(* Filters in which no element is found by accident, or every transaction  *)
(* id is: FalsePositives says which.                                       *)
(***************************************************************************)
EXTENDS FilteredBlock, TLC

CONSTANT FalsePositives

MCPaidTo == [t \in 1..MaxTx |-> t]

MCBitsOf ==
  [e \in ({"scriptPubKey", "hash160"} \X Addr) \cup ({"txid"} \X (1..MaxTx)) |->
     {CASE e[1] = "hash160" -> e[2] + MaxTx
        [] e[1] = "txid" /\ ~FalsePositives -> e[2] + 2 * MaxTx
        [] OTHER -> e[2]}]

=============================================================================
