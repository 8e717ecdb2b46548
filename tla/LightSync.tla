----------------------------- MODULE LightSync -----------------------------
(***************************************************************************)
(* CLightSync (src/src/light/light_sync.cpp): the header synchroniser of   *)
(* the SDK, one getheaders and one batch per pair of calls.                *)
(*                                                                         *)
(* The application is external: it passes the height after the store's     *)
(* tip, since ProcessHeaders returns -1 both when it kept nothing and when *)
(* it kept the first headers of a batch.  So is the node, which answers    *)
(* with what follows the locator on its branch, with what follows the      *)
(* genesis block when it does not know the locator, or with anything else. *)
(***************************************************************************)
EXTENDS HeaderChain

VARIABLES
  store,      \* the CLightChainStore
  answer,     \* headers on their way to us
  asked       \* a getheaders has gone out that was not answered yet

syncVars == <<store, answer, asked>>

NoAnswer == <<>>

SyncInit == store = EmptyChain /\ answer = NoAnswer /\ asked = FALSE

Locator == IF store.tip >= 0 THEN store.at[store.tip] ELSE CpHash

Answer(b) ==
  After(b, IF Contains(b, Locator) THEN CHOOSE k \in DOMAIN b : b[k] = Locator ELSE 1)

\* The answer of a node on some branch, or any two headers.
SendGetHeaders ==
  /\ ~asked
  /\ asked' = TRUE
  /\ answer' \in {Answer(b) : b \in Branches} \cup {<<h, k>> : h, k \in Header}
  /\ UNCHANGED store

\* Mutant: the work of a header is counted before it is checked.
ProcessHeaderEagerly(acc, h) ==
  LET n == acc.next IN
  IF acc.ok /\ ValidateHeader(acc.store, h, n) /\ (Historical(n) \/ h \in Expected)
    THEN [acc EXCEPT !.store = AddWork(AddHeader(@, h, n), h), !.next = n + 1]
    ELSE [acc EXCEPT !.ok = FALSE, !.store = AddWork(@, h)]

\* One header of the loop: heights count on from start_height, and above the
\* checkpoint nBits has to be the expected one.
ProcessHeader(acc, h) ==
  LET n == acc.next IN
  IF acc.ok /\ ValidateHeader(acc.store, h, n) /\ (Historical(n) \/ h \in Expected)
    THEN [acc EXCEPT !.store = AddWork(AddHeader(@, h, n), h), !.next = n + 1]
    ELSE [acc EXCEPT !.ok = FALSE]

\* After the first i headers of an answer.
ProcessAll(c, start, hs) ==
  LET after[i \in 0..Len(hs)] ==
        IF i = 0 THEN [store |-> c, ok |-> TRUE, next |-> start]
        ELSE ProcessHeader(after[i - 1], hs[i])
  IN  after[Len(hs)]

\* Everything but headers is read and dropped.  A failed read or a batch that
\* does not parse keeps nothing, a refused header the ones before it.
ProcessHeaders(start) ==
  /\ asked
  /\ asked' = FALSE /\ answer' = NoAnswer
  /\ \/ UNCHANGED store
     \/ store' = ProcessAll(store, start, answer).store

SyncNext == SendGetHeaders \/ ProcessHeaders(store.tip + 1)

SyncSpec == SyncInit /\ [][SyncNext]_syncVars

----------------------------------------------------------------------------
(* Properties.                                                             *)

\* The work of the heights up to the tip.
WorkOf(c) ==
  LET below[n \in 0..(c.tip + 1)] ==
        IF n = 0 THEN 0 ELSE below[n - 1] + Work[c.at[n - 1]]
  IN  below[c.tip + 1]

\* Whatever the node answers and whichever call fails half way, the store
\* holds the heights 0 to the tip without a gap, each header the child of the
\* one below, above the checkpoint with a hash under its target and the expected
\* nBits; and the work of the chain, which the checkpoint is compared with,
\* counts each of them once.
StoreIsOneLine ==
  /\ Kept(store) = 0..store.tip
  /\ \A n \in Kept(store) : n > 0 => Prev[store.at[n]] = store.at[n - 1]
  /\ \A n \in Kept(store) : n > CpHeight => store.at[n] \in Good \cap Expected
  /\ store.work = WorkOf(store)

=============================================================================
