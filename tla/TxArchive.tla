----------------------------- MODULE TxArchive -----------------------------
(***************************************************************************)
(* What the watch store promises to those who read it, without saying how  *)
(* it is kept: a set of links <<address, txid>> and one record for each    *)
(* linked txid.  view is what readers see now, kept what a restart would   *)
(* show them.                                                              *)
(*                                                                         *)
(* Among the records given for a txid, readers keep the first until they   *)
(* are made to forget.  Nothing more is promised of kept: the first commit *)
(* of a txid that readers do not see replaces the record kept for it, if   *)
(* there is one.  "INSERT OR IGNORE" (light_watchstore.h:47) would have    *)
(* kept it.                                                                *)
(***************************************************************************)
CONSTANTS Addr, StoreTxid, Record, NoRecord

VARIABLES view, kept

archiveVars == <<view, kept>>

Content == [rec : [StoreTxid -> Record \cup {NoRecord}], link : SUBSET (Addr \X StoreTxid)]

Nothing == [rec |-> [t \in StoreTxid |-> NoRecord], link |-> {}]

\* A link never dangles.
Sound(c) == \A l \in c.link : c.rec[l[2]] # NoRecord

ArchiveInit == view = Nothing /\ kept \in Content /\ Sound(kept)

\* A record that readers see stays; one they do not see is shown.
Shown(c, a, t, r) ==
  [rec  |-> IF c.rec[t] = NoRecord THEN [c.rec EXCEPT ![t] = r] ELSE c.rec,
   link |-> c.link \cup {<<a, t>>}]

\* A commit shows up in view, and in kept unless the store has no file.  kept
\* then holds for t what readers see: its own record where they saw it already,
\* the new one where they saw none, also over an earlier one (WatchStore, FirstRecordWins).
Archive(a, t, r) ==
  /\ view' = Shown(view, a, t, r)
  /\ \/ UNCHANGED kept
     \/ kept' = [rec  |-> [kept.rec EXCEPT ![t] = view'.rec[t]],
                 link |-> kept.link \cup {<<a, t>>}]

\* Readers see nothing any more; what is kept stays.
Forget == view' = Nothing /\ UNCHANGED kept

\* Readers see what was kept, all of it.
Reload == view' = kept /\ UNCHANGED kept

\* A power failure: readers see nothing and the latest commits may be gone.
Lose ==
  /\ view' = Nothing
  /\ kept' \in Content
  /\ Sound(kept')
  /\ kept'.link \subseteq kept.link

ArchiveNext ==
  \/ \E a \in Addr, t \in StoreTxid, r \in Record : Archive(a, t, r)
  \/ Forget
  \/ Reload
  \/ Lose

ArchiveSpec == ArchiveInit /\ [][ArchiveNext]_archiveVars

=============================================================================
