------------------------------ MODULE Backfill ------------------------------
(***************************************************************************)
(* The backfill of the demo (src/demo/demo_win32.cpp): the button of the   *)
(* window and the detached threads that run BackfillWorker.                *)
(*                                                                         *)
(* A thread reads g_chain, which RunSyncCore replaces meanwhile by any of  *)
(* the chains HeaderSync is about: Chains, functions from heights to       *)
(* blocks.  g_state.mu is held inside single steps, but for a thread that  *)
(* locks it twice, which waits for itself (or, as C++ leaves that case     *)
(* undefined, ends the program).  The connection is LightPeer's: a receive *)
(* timeout and a lost connection both close it, but its handshake reads on *)
(* for as long as other messages come and its sends have no timeout.       *)
(***************************************************************************)
EXTENDS Integers, FiniteSets

CONSTANTS
  Thread,      \* backfill threads, a bound on the clicks under way
  NoThread,
  Chains,      \* contents of g_chain
  MaxBlocks,   \* n, the number in the window
  MaxReads     \* messages read for one block, 20 in the code

VARIABLES
  running,   \* g_backfill_running
  bf,        \* thread -> [pc, tip, i, reads]
  mu,        \* the thread that holds g_state.mu, NoThread for none
  click,     \* the window is between the click and its log line
  kinds,     \* the kinds of watched addresses: "p2pkh" and "other"
  gchain,    \* g_chain
  held       \* the threads whose node keeps them in a call

vars == <<running, bf, mu, click, kinds, gchain, held>>

NotRunning == [pc |-> "none", tip |-> -1, i |-> 0, reads |-> 0]

TipHeight == IF gchain = <<>> THEN -1 ELSE CHOOSE n \in DOMAIN gchain : \A k \in DOMAIN gchain : k <= n

Init ==
  /\ running = FALSE /\ bf = [w \in Thread |-> NotRunning]
  /\ mu = NoThread /\ click = FALSE /\ kinds = {} /\ gchain = <<>>
  /\ held = {}

\* AppendLog takes g_state.mu.
CanLog == mu = NoThread

----------------------------------------------------------------------------
(* The window.                                                             *)

\* The flag is tested here and set by the thread.
ClickBackfill(w) ==
  /\ ~click
  /\ ~running /\ TipHeight >= 0
  /\ bf[w].pc = "none"
  /\ bf' = [bf EXCEPT ![w].pc = "created"]
  /\ click' = TRUE
  /\ UNCHANGED <<running, mu, kinds, gchain, held>>

LogClick ==
  /\ click /\ CanLog
  /\ click' = FALSE
  /\ UNCHANGED <<running, bf, mu, kinds, gchain, held>>

\* Add and Delete; no address is looked at before it is added.
EditWatch(K) ==
  /\ ~click /\ CanLog
  /\ kinds' = K
  /\ UNCHANGED <<running, bf, mu, click, gchain, held>>

\* RunSyncCore.
ChainMoves(c) ==
  /\ gchain' = c
  /\ UNCHANGED <<running, bf, mu, click, kinds, held>>

----------------------------------------------------------------------------
(* BackfillWorker.                                                         *)

At(w, pc) == bf[w].pc = pc
Goto(w, pc) == bf' = [bf EXCEPT ![w].pc = pc]

Return(w) ==
  /\ CanLog
  /\ running' = FALSE
  /\ bf' = [bf EXCEPT ![w] = NotRunning]
  /\ UNCHANGED mu

SetRunning(w) ==
  /\ At(w, "created")
  /\ running' = TRUE
  /\ Goto(w, "connect")
  /\ UNCHANGED mu

Connect(w) ==
  /\ At(w, "connect") /\ CanLog
  /\ \/ Goto(w, "watch") /\ UNCHANGED <<running, mu>>
     \/ Return(w)

\* The list is read with g_state.mu held.  An address that is not P2PKH is
\* logged there, which takes the lock once more: the thread waits for itself.
ReadWatch(w) ==
  /\ At(w, "watch") /\ CanLog
  /\ IF "other" \in kinds
       THEN Goto(w, "stuck") /\ mu' = w /\ UNCHANGED running
     ELSE IF kinds = {} THEN Return(w)
     ELSE /\ bf' = [bf EXCEPT ![w] = [@ EXCEPT !.pc = "scan", !.tip = TipHeight, !.i = 0]]
          /\ UNCHANGED <<running, mu>>

Finish(w) == Goto(w, "finish") /\ UNCHANGED <<running, mu>>

\* The head of the loop: a height g_chain does not have is passed over, the
\* block of one it has is asked for.
NextBlock(w) ==
  LET t == bf[w]
      h == t.tip - t.i
  IN  /\ At(w, "scan")
      /\ IF t.i = MaxBlocks \/ h < 0 THEN Finish(w)
         ELSE IF h \notin DOMAIN gchain
           THEN bf' = [bf EXCEPT ![w].i = @ + 1] /\ UNCHANGED <<running, mu>>
         ELSE \/ bf' = [bf EXCEPT ![w].pc = "read", ![w].reads = 0] /\ UNCHANGED <<running, mu>>
              \/ Finish(w)   \* getdata cannot be sent

\* Mutant: the return from a lost connection leaves the flag.
ReadBlockKeeps(w) ==
  /\ At(w, "read") /\ CanLog
  /\ \/ bf' = [bf EXCEPT ![w].pc = "scan", ![w].i = @ + 1] /\ UNCHANGED <<running, mu>>
     \/ bf' = [bf EXCEPT ![w] = NotRunning] /\ UNCHANGED <<running, mu>>

\* A block or a merkleblock is matched and committed, anything else read over,
\* up to MaxReads messages; without an answer the thread returns at once.
ReadBlock(w) ==
  /\ At(w, "read")
  /\ \/ CanLog /\ bf' = [bf EXCEPT ![w].pc = "scan", ![w].i = @ + 1] /\ UNCHANGED <<running, mu>>
     \/ /\ bf[w].reads + 1 < MaxReads
        /\ bf' = [bf EXCEPT ![w].reads = @ + 1]
        /\ UNCHANGED <<running, mu>>
     \/ bf[w].reads + 1 = MaxReads /\ Finish(w)
     \/ Return(w)

Leave(w) == At(w, "finish") /\ Return(w)

ThreadStep(w) ==
  /\ w \notin held
  /\ SetRunning(w) \/ Connect(w) \/ ReadWatch(w) \/ NextBlock(w) \/ ReadBlock(w) \/ Leave(w)
  /\ UNCHANGED <<click, kinds, gchain, held>>

\* The handshake, a getdata or a pong that does not come back, or does so late.
CallBlocks(w) ==
  /\ w \notin held /\ bf[w].pc \in {"connect", "scan", "read"}
  /\ held' = held \cup {w}
  /\ UNCHANGED <<running, bf, mu, click, kinds, gchain>>

CallReturns(w) ==
  /\ w \in held
  /\ held' = held \ {w}
  /\ UNCHANGED <<running, bf, mu, click, kinds, gchain>>

Next ==
  \/ \E w \in Thread : ClickBackfill(w)
  \/ LogClick
  \/ \E K \in SUBSET {"p2pkh", "other"} : EditWatch(K)
  \/ \E c \in Chains : ChainMoves(c)
  \/ \E w \in Thread : ThreadStep(w) \/ CallBlocks(w) \/ CallReturns(w)

\* Threads run and reads come back, as the socket has a receive timeout.  Strong,
\* as a step has a bounded number of calls: a thread that is let out of them does
\* get to its end.  No node is assumed to let a thread out of one.
Fairness == \A w \in Thread : SF_vars(ThreadStep(w))

Spec == Init /\ [][Next]_vars /\ Fairness

----------------------------------------------------------------------------
(* Properties.                                                             *)

\* However a backfill ends, and also when two run because the second click came
\* before the first thread had set the flag, the flag is cleared again and the
\* button works.  Two exceptions: an address that is not P2PKH is watched, then
\* the thread may hold g_state.mu for good; and a node that never lets a thread
\* out of a call, for which the flag then stays set.
ButtonComesBack ==
  \/ \E w \in Thread : <>[](w \in held)
  \/ running ~> (~running \/ "other" \in kinds)

=============================================================================
