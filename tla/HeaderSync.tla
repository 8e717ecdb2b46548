----------------------------- MODULE HeaderSync -----------------------------
(***************************************************************************)
(* The header phase of RunSyncCore (src/demo/demo_win32.cpp): one getheaders *)
(* at a time with the tip as its only locator, the file the tip is resumed *)
(* from, and the checkpoint flag the window shows.                         *)
(*                                                                         *)
(* chain is the local of RunSyncCore, gchain the copy g_chain that the     *)
(* standby pump and the backfill thread read.  The node is external: it    *)
(* answers as a full node does, with up to BatchMax headers of one branch  *)
(* of the block tree, those after the locator if that is on the branch and *)
(* those after the genesis block if not.  It may be of another branch at   *)
(* any time, one with headers no rule allows included, send other messages *)
(* instead, put a transaction count where none may be, or keep the client  *)
(* in a send.                                                              *)
(***************************************************************************)
EXTENDS HeaderChain

CONSTANTS
  NoHeader,     \* the null hash, and no file
  MaxBatches,   \* kMaxBatches, 1024 in the code
  MaxAttempts,  \* messages read for one answer, 60 in the code
  MaxReorg      \* kMaxReorgDepth (light_peer.h:30), 144 in the code

ASSUME HeaderSyncAssumption ==
  /\ NoHeader \notin Header
  /\ MaxBatches \in Nat \ {0} /\ MaxAttempts \in Nat \ {0}
  /\ MaxReorg \in Nat

VARIABLES
  phase,     \* "idle", or where RunSyncCore is: "ask", "read", "steady", "save"
  chain,     \* chain
  locator,   \* locator
  failed,    \* err_out is not empty
  reached,   \* reached
  batch,     \* batch
  attempt,   \* attempt
  gchain,    \* g_chain
  anchored,  \* g_state.checkpoint_ok
  file,      \* demo_sync_state.bin: [hdr, height]
  net,       \* the branch of the node at the other end
  held       \* the node keeps the client in a call

runVars == <<chain, locator, failed, reached, batch, attempt>>
vars == <<phase, runVars, gchain, anchored, file, net, held>>

NoFile == [hdr |-> NoHeader, height |-> -1]

Init ==
  /\ phase = "idle"
  /\ chain = EmptyChain /\ locator = NoHeader
  /\ failed = FALSE /\ reached = FALSE /\ batch = 0 /\ attempt = 0
  /\ gchain = EmptyChain /\ anchored = FALSE
  /\ file = NoFile
  /\ net \in Branches /\ held = FALSE

----------------------------------------------------------------------------
(* The node, external.                                                     *)

Below(h, k) == \E b \in Branches : \E i, j \in DOMAIN b : i <= j /\ b[i] = h /\ b[j] = k

\* ProcessGetHeadersMessage of the full node: what follows the locator on its
\* branch; else what follows the genesis block, or nothing if it knows the
\* locator as a block above its tip.
Answers(loc, b) ==
  IF Contains(b, loc) THEN {After(b, CHOOSE k \in DOMAIN b : b[k] = loc)}
  ELSE {After(b, 1)} \cup (IF Below(Last(b), loc) THEN {<<>>} ELSE {})

NetMoves ==
  /\ net' \in Branches
  /\ UNCHANGED <<phase, runVars, gchain, anchored, file>>

----------------------------------------------------------------------------
(* RunSyncCore.                                                            *)

Resumed == AddWork(AddHeader(EmptyChain, file.hdr, file.height), file.hdr)

\* Mutant: resumes one height too high.
StartSyncShifted(connect) ==
  LET c == AddWork(AddHeader(EmptyChain, file.hdr, file.height + 1), file.hdr) IN
  /\ phase = "idle"
  /\ phase' = "ask"
  /\ failed' = FALSE /\ batch' = 0 /\ attempt' = 0
  /\ chain' = IF file = NoFile THEN EmptyChain ELSE c
  /\ locator' = file.hdr
  /\ reached' = (file # NoFile /\ file.height >= CpHeight)
  /\ anchored' = (reached' \/ (anchored /\ ~connect))
  /\ gchain' = IF file = NoFile THEN gchain ELSE c
  /\ UNCHANGED <<file, net>>

\* Connect clears the flag and starts the worker; the worker calls RunSyncCore
\* again whenever it has a connection.  LoadSyncState puts the saved tip into
\* the empty chain, and a tip at the checkpoint or above counts as anchored.
StartSync(connect) ==
  /\ phase = "idle"
  /\ phase' = "ask"
  /\ failed' = FALSE /\ batch' = 0 /\ attempt' = 0
  /\ chain' = IF file = NoFile THEN EmptyChain ELSE Resumed
  /\ locator' = file.hdr
  /\ reached' = (file # NoFile /\ file.height >= CpHeight)
  /\ anchored' = (reached' \/ (anchored /\ ~connect))
  /\ gchain' = IF file = NoFile THEN gchain ELSE Resumed
  /\ UNCHANGED <<file, net>>

\* Where the batch loop leaves to: the steady state unless err_out is set.
LoopEnds == phase' = IF failed THEN "save" ELSE "steady"

\* Mutant: the batches are not counted.
MakeGetHeadersUncounted ==
  /\ phase = "ask"
  /\ phase' = "read"
  /\ attempt' = 0
  /\ UNCHANGED <<chain, locator, failed, reached, batch, gchain, anchored, file, net>>

MakeGetHeaders ==
  /\ phase = "ask"
  /\ IF batch = MaxBatches
       THEN LoopEnds /\ UNCHANGED <<batch, attempt>>
       ELSE phase' = "read" /\ batch' = batch + 1 /\ attempt' = 0
  /\ UNCHANGED <<chain, locator, failed, reached, gchain, anchored, file, net>>

\* A message that is not headers.  After MaxAttempts of them the loop ends
\* and err_out is as it was.
ReadOther ==
  /\ phase = "read"
  /\ attempt' = attempt + 1
  /\ IF attempt' = MaxAttempts THEN LoopEnds ELSE UNCHANGED phase
  /\ UNCHANGED <<chain, locator, failed, reached, batch, gchain, anchored, file, net>>

\* The loop over the headers of one answer, up to the first that is refused.
Accept(acc, h) ==
  LET n == acc.chain.tip + 1 IN
  IF acc.ok /\ ValidateHeader(acc.chain, h, n)
    THEN [acc EXCEPT !.chain = AddWork(AddHeader(@, h, n), h)]
    ELSE [acc EXCEPT !.ok = FALSE]

\* After the first k headers of the answer.
AcceptAll(c, hs, k) ==
  LET after[i \in 0..Len(hs)] ==
        IF i = 0 THEN [chain |-> c, ok |-> TRUE] ELSE Accept(after[i - 1], hs[i])
  IN  after[k]

\* The first k headers carry no transaction count, as is checked before each is
\* validated: the ones before a refused one stay.  A short answer ends the loop,
\* an empty one too; one that leaves the chain empty is not asked for its length.
\* The checkpoint is looked at after every answer.
ReadHeaders(hs, k) ==
  /\ phase = "read"
  /\ \E r \in {AcceptAll(chain, hs, k)} :
       /\ chain' = r.chain
       /\ failed' = (failed \/ ~r.ok \/ k < Len(hs))
       /\ locator' = IF r.chain.tip >= 0 /\ hs # <<>> THEN r.chain.at[r.chain.tip] ELSE locator
       /\ reached' = (reached \/ (chain.tip < CpHeight /\ CpHeight <= r.chain.tip))
       /\ anchored' = (anchored \/ ((reached' \/ r.chain.tip >= CpHeight)
                                     /\ CheckCheckpoint(r.chain)))
       /\ gchain' = r.chain
       /\ phase' = IF Len(hs) = BatchMax \/ (hs # <<>> /\ r.chain.tip = -1) THEN "ask"
                   ELSE IF failed' THEN "save" ELSE "steady"
  /\ UNCHANGED <<batch, attempt, file, net>>

\* Disconnect pressed, connection lost, an answer that does not parse: the
\* steady state is left or not entered.
StopsEarly ==
  /\ phase \in {"ask", "read", "steady"}
  /\ phase' = "save"
  /\ UNCHANGED <<runVars, gchain, anchored, file, net>>

Tip(c) == [hdr |-> c.at[c.tip], height |-> c.tip]

\* SaveSyncState: nobody looks at its result.  The file may not open, and once
\* open is empty until the write succeeds.
Save ==
  /\ phase = "save"
  /\ phase' = "idle"
  /\ gchain' = chain
  /\ IF chain.tip >= 0 THEN file' \in {file, NoFile, Tip(chain)} ELSE UNCHANGED file
  /\ UNCHANGED <<runVars, anchored, net>>

\* The Reset button, whatever the worker is doing.
Reset ==
  /\ file' = NoFile
  /\ anchored' = FALSE
  /\ UNCHANGED <<phase, runVars, gchain, net>>

\* The process dies.  ofstream empties the file before it writes: what a
\* crash inside SaveSyncState leaves does not load.
Crash ==
  /\ phase' = "idle"
  /\ chain' = EmptyChain /\ locator' = NoHeader
  /\ failed' = FALSE /\ reached' = FALSE /\ batch' = 0 /\ attempt' = 0
  /\ gchain' = EmptyChain /\ anchored' = FALSE
  /\ file' \in {file} \cup (IF phase = "save" /\ chain.tip >= 0 THEN {NoFile} ELSE {})
  /\ UNCHANGED net

HeaderStep ==
  \/ MakeGetHeaders
  \/ ReadOther
  \/ \E hs \in Answers(locator, net) : \E k \in 0..Len(hs) : ReadHeaders(hs, k)

SyncStep ==
  \/ \E connect \in BOOLEAN : StartSync(connect)
  \/ HeaderStep
  \/ StopsEarly
  \/ Save

\* A getheaders or the answer to a ping that does not come back: a send has no
\* timeout.
CallBlocks ==
  /\ ~held /\ ((phase = "ask" /\ batch < MaxBatches) \/ phase = "read")
  /\ held' = TRUE
  /\ UNCHANGED <<phase, runVars, gchain, anchored, file, net>>

CallReturns ==
  /\ held
  /\ held' = FALSE
  /\ UNCHANGED <<phase, runVars, gchain, anchored, file, net>>

Next ==
  \/ ((~held /\ SyncStep) \/ Reset \/ NetMoves) /\ UNCHANGED held
  \/ Crash /\ held' = FALSE
  \/ CallBlocks \/ CallReturns

\* Reads come back, as the socket has a receive timeout.  Strong, as a step has a
\* bounded number of calls: a client let out of them does get to its end.  The
\* node is not assumed to let it out of one.
Fairness == SF_vars(HeaderStep /\ ~held /\ UNCHANGED held)

Spec == Init /\ [][Next]_vars /\ Fairness

----------------------------------------------------------------------------
(* Properties.                                                             *)

\* d blocks above the genesis block in the tree.
StandsAt(h, d) == \E b \in Branches : d + 1 \in DOMAIN b /\ b[d + 1] = h

IsChain(c) ==
  /\ Kept(c) \subseteq Nat
  /\ \A n \in Kept(c) : c.at[n] \in Header
  /\ DOMAIN c.height \subseteq Header
  /\ c.tip \in Nat \cup {-1} /\ c.work \in Nat

\* Type correctness of the client's data.
TypeOK ==
  /\ phase \in {"idle", "ask", "read", "steady", "save"}
  /\ IsChain(chain) /\ IsChain(gchain)
  /\ locator \in Header \cup {NoHeader}
  /\ failed \in BOOLEAN /\ reached \in BOOLEAN /\ anchored \in BOOLEAN
  /\ batch \in 0..MaxBatches /\ attempt \in 0..MaxAttempts
  /\ file = NoFile \/ file \in [hdr : Header, height : Nat]
  /\ net \in Branches /\ held \in BOOLEAN

Sound(c) ==
  /\ Kept(c) = {} <=> c.tip = -1
  /\ Kept(c) # {} => c.tip \in Kept(c)
  /\ \A n \in Kept(c) : n < c.tip => n + 1 \in Kept(c) /\ Prev[c.at[n + 1]] = c.at[n]
  /\ \A n \in Kept(c) : c.height[c.at[n]] = n
  /\ \A h \in DOMAIN c.height : c.height[h] \in Kept(c) /\ c.at[c.height[h]] = h

\* The kept headers are one unbroken line of parents and children with one
\* height each, found alike by height and by hash, in the running sync and in
\* the copy other threads read, after refused batches, reorganisations of the
\* node, resumes and resets.
ChainIsSound == Sound(chain) /\ Sound(gchain)

\* What the client calls the height of a block is the same number in every
\* session: one less than the block's distance from the genesis block, which
\* no answer ever contains.
HeightsAgree ==
  /\ \A c \in {chain, gchain} : \A n \in Kept(c) : StandsAt(c.at[n], n + 1)
  /\ file # NoFile => StandsAt(file.hdr, file.height + 1)

\* The headers above the checkpoint in c that have what ValidateHeader asks of
\* them, and nothing more: the target a hash is compared with is the one the
\* header names itself, and the median is that of the session's own headers.
Validated(c) ==
  \A n \in Kept(c) : n > CpHeight =>
    /\ c.at[n] \in Good
    /\ n - 1 \in Kept(c) => Time[c.at[n]] > MedianTimePast(c, n - 1)

\* No header above the checkpoint that fails ValidateHeader is kept, nor written
\* to the file from which the next session starts: not behind a refused one,
\* not by an answer for another branch, not when a session starts at the
\* checkpoint.  That nBits is the expected one is not part of it, see below.
NewSegmentChecked ==
  /\ Validated(chain) /\ Validated(gchain)
  /\ file.height > CpHeight => file.hdr \in Good

\* "nBits == GetNextWorkRequired(prev, block)" (light-node-design.md:244), for
\* every block above the checkpoint (line 249).  Does not hold: RunSyncCore never
\* compares nBits with what the difficulty rules give.
NewSegmentFullyChecked ==
  \A c \in {chain, gchain} : \A n \in Kept(c) : n > CpHeight => c.at[n] \in Expected

\* The tip the client resumes from only moves to descendants of it, until
\* Reset or a torn write removes the file.  That is what the code does, for
\* want of any way back: see ShallowReorgFollowed.
SavedTipOnlyExtends ==
  [][file # NoFile /\ file' # NoFile => Below(file.hdr, file'.hdr)]_vars

\* The branch b keeps all rules, contains the checkpoint, and leaves the chain c
\* there or above it, at most MaxReorg below the tip, to become longer than c.
ShallowFork(c, b) ==
  /\ Contains(b, CpHash)
  /\ \A i \in DOMAIN b : i - 2 > CpHeight => b[i] \in Good \cap Expected
  /\ \E n \in Kept(c) : n >= CpHeight /\ c.tip - n \in 1..MaxReorg /\ Contains(b, c.at[n])
  /\ Len(b) - 2 > c.tip /\ ~Contains(b, c.at[c.tip])

\* "<= 144: accept and reorganise" (light-node-design.md:229), "a shallow
\* reorganisation: update to the new chain" (line 322): an answer from such a
\* branch is not an error.  Does not hold: getheaders names the tip alone, so the
\* node starts over at its genesis block, and the chain never gives a header up.
ShallowReorgFollowed ==
  [][phase = "read" /\ ShallowFork(chain, net) /\ ~failed
       /\ (\E hs \in Answers(locator, net) : ReadHeaders(hs, Len(hs))) => ~failed']_vars

\* The header phase ends, also with a node that sends the same refused batch
\* or unrelated messages over and over.  The exception is a node that never lets
\* the client out of a call.
HeaderPhaseEnds ==
  \/ <>[]held
  \/ phase \in {"ask", "read"} ~> phase \in {"steady", "save", "idle"}

\* "[ANCHORED]" and "checkpoint previously anchored" (demo_win32.cpp:643,1075):
\* the flag means that the chain in use contains the checkpoint.  Does not
\* hold: a chain that failed the checkpoint is saved, and resuming sets the flag.
AnchoredMeansVerified ==
  anchored /\ phase = "steady" =>
    \A n \in Kept(chain) : n >= CpHeight => Below(CpHash, chain.at[n])

=============================================================================
