------------------------------ MODULE MCTables ------------------------------
(***************************************************************************)
(* The passive objects side by side, each under a client that calls it in  *)
(* any order: CPendingTxMap, CLightWatchStore with crashes and power       *)
(* failures between two calls, and the C interface.  They share no         *)
(* variable; part says which of them a behaviour is of, and the others     *)
(* stay in an initial state.                                               *)
(***************************************************************************)
EXTENDS PendingTx, WatchStore, LightSdk, TLC

VARIABLE part

tablesVars == <<part, pendingVars, storeVars, sdkVars>>

TablesInit ==
  /\ part \in {"pending", "store", "sdk"}
  /\ PendingInit /\ StoreInit /\ SdkInit
  /\ part # "sdk" => stored = {}

TablesNext ==
  \/ part = "pending" /\ PendingNext /\ UNCHANGED <<part, storeVars, sdkVars>>
  \/ part = "store" /\ StoreNext /\ UNCHANGED <<part, pendingVars, sdkVars>>
  \/ part = "sdk" /\ SdkNext /\ UNCHANGED <<part, pendingVars, storeVars>>

TablesSpec == TablesInit /\ [][TablesNext]_tablesVars

\* The interface has at most one transaction in its store, and a watched address
\* only while it has none: neither has a part in what the pool and the monitor do.
FewStored == Cardinality(stored) <= 1 /\ (watch # <<>> => stored = {})

\* Transactions and nodes are only compared.  SdkTxid and StoreTxid are the two halves
\* of Txid, so that one small group serves all three.
TablesSymmetry == Permutations(SdkTxid) \cup Permutations(StoreTxid) \cup Permutations(Node)

=============================================================================
