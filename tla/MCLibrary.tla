----------------------------- MODULE MCLibrary -----------------------------
(***************************************************************************)
(* The parts that no other module composes, side by side: the header phase *)
(* of the demo, on the tree of MCHeaderSync; CLightPeer, CLightConnMan,    *)
(* CLightSync, the arithmetic of targets and filtered blocks, classes of   *)
(* src/src/light that share no state; and the backfill of the demo, whose  *)
(* surroundings are inputs.  part says which of them a behaviour is of;    *)
(* the others stay in their initial state.                                 *)
(***************************************************************************)
EXTENDS MCHeaderSync, LightPeer, LightConnMan, LightSync, Difficulty, FilteredBlock

CONSTANTS
  Thread, NoThread, MaxBlocks, MaxReads

VARIABLES
  part,
  running, bf, mu, click, kinds, bfChain, bfHeld

backfillVars == <<running, bf, mu, click, kinds, bfChain, bfHeld>>

\* Targets of 12 bits; 2^(frac/4) times 4.
MCFactor == (0 :> 4) @@ (1 :> 5) @@ (2 :> 6) @@ (3 :> 7)
MCPowLimit == [size |-> 8, word |-> 3]
MCAnchorBits == [size |-> 7, word |-> 3]
MCCompacts == [size : 0..13, word : {1, 3}]

\* A transaction's id falls on the filter bit of an address's script, so that
\* the node flags any set of transactions, by false positives.
MCPaidTo == [t \in 1..MaxTx |-> t]
MCBitsOf ==
  [e \in ({"scriptPubKey", "hash160"} \X Addr) \cup ({"txid"} \X (1..MaxTx)) |->
     {IF e[1] = "hash160" THEN e[2] + 10 ELSE e[2]}]

\* No chain yet, a whole one, and one resumed from the saved tip.
MCChains == {<<>>, (0 :> 10) @@ (1 :> 11) @@ (2 :> 12), (2 :> 22)}

Back == INSTANCE Backfill WITH Chains <- MCChains, gchain <- bfChain, held <- bfHeld

LibraryInit ==
  /\ part \in {"headers", "peer", "conns", "sync", "arith", "filtered", "backfill"}
  /\ Init /\ PeerInit /\ ConnsInit /\ SyncInit /\ ArithInit /\ FilteredInit /\ Back!Init
  /\ part # "headers" => net = <<0, 1>>

LibraryNext ==
  \/ part = "headers" /\ Next
       /\ UNCHANGED <<part, allPeerVars, connsVars, syncVars, arithVars, filteredVars,
                      backfillVars>>
  \/ part = "peer" /\ PeerNext
       /\ UNCHANGED <<part, vars, connsVars, syncVars, arithVars, filteredVars, backfillVars>>
  \/ part = "conns" /\ ConnsNext
       /\ UNCHANGED <<part, vars, allPeerVars, syncVars, arithVars, filteredVars, backfillVars>>
  \/ part = "sync" /\ SyncNext
       /\ UNCHANGED <<part, vars, allPeerVars, connsVars, arithVars, filteredVars, backfillVars>>
  \/ part = "arith" /\ ArithNext
       /\ UNCHANGED <<part, vars, allPeerVars, connsVars, syncVars, filteredVars, backfillVars>>
  \/ part = "filtered" /\ FilteredNext
       /\ UNCHANGED <<part, vars, allPeerVars, connsVars, syncVars, arithVars, backfillVars>>
  \/ part = "backfill" /\ Back!Next
       /\ UNCHANGED <<part, vars, allPeerVars, connsVars, syncVars, arithVars, filteredVars>>

LibrarySpec ==
  /\ LibraryInit
  /\ [][LibraryNext]_<<part, vars, allPeerVars, connsVars, syncVars, arithVars, filteredVars,
                       backfillVars>>
  /\ Fairness /\ Back!Fairness

\* Backfill: the flag is cleared again, unless a thread may have locked itself
\* or a node keeps one in a call for good.
ButtonComesBack ==
  \/ \E w \in Thread : <>[](w \in bfHeld)
  \/ running ~> (~running \/ "other" \in kinds)

=============================================================================
