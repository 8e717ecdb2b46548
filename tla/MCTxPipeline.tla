---------------------------- MODULE MCTxPipeline ----------------------------
(***************************************************************************)
(* The worker and the standby pump on two connections and one backfill     *)
(* thread, over one transaction, a block that contains it and one that     *)
(* does not.  The backfill asks for the other block and may be sent either *)
(* kind of message about the one of the transaction.                       *)
(***************************************************************************)
EXTENDS TxPipeline, TLC

CONSTANTS t1, its, other

MCMatches == (its :> <<t1>>) @@ (other :> <<>>)

MCOffers == [x \in Thread |-> {its}]

=============================================================================
