--------------------------- MODULE LightSdkProofs ---------------------------
(***************************************************************************)
(* Proofs about LightSdk for any transactions, nodes and limits: the pool, *)
(* the monitor and the connection each keep an invariant of their own      *)
(* through every call, and the pool's shows why a submission that came     *)
(* twice is written once.                                                  *)
(***************************************************************************)
EXTENDS LightSdk, SequenceTheorems, TLAPS

PoolOK == queue \in Seq(SdkTxid) /\ PoolIsSound

IInv == PoolOK /\ ConnectedAsTold /\ OpenSendIsWatched

----------------------------------------------------------------------------
(* Lemmas about the pool's queue.                                          *)

\* A full pool has an element to drop; what remains is duplicate-free, and
\* was in the pool behind the first.
LEMMA PoolTail ==
  ASSUME NEW s \in Seq(SdkTxid), s # <<>>, IsInjective(s)
  PROVE  /\ Tail(s) \in Seq(SdkTxid) /\ Len(Tail(s)) = Len(s) - 1
         /\ IsInjective(Tail(s))
         /\ \A t : Contains(s, t) /\ t # Head(s) => Contains(Tail(s), t)
<1> DEFINE r == Tail(s)
<1>1. /\ r \in Seq(SdkTxid) /\ Len(r) = Len(s) - 1 /\ Head(s) = s[1]
      /\ \A i \in 1..Len(r) : r[i] = s[i + 1]
  BY HeadTailProperties
<1>2. DOMAIN r = 1..Len(r) /\ DOMAIN s = 1..Len(s) /\ Len(s) \in Nat
  BY <1>1, LenProperties
<1> HIDE DEF r
<1>3. \A i \in DOMAIN r : i + 1 \in DOMAIN s /\ i \in Int /\ r[i] = s[i + 1]
  BY <1>1, <1>2
<1>4. IsInjective(r)
  BY <1>2, <1>3 DEF IsInjective
<1>5. ASSUME NEW t, Contains(s, t), t # Head(s)
      PROVE  Contains(r, t)
  <2>1. PICK i \in 1..Len(s) : s[i] = t
    BY <1>5 DEF Contains
  <2>2. i # 1
    BY <1>1, <1>5, <2>1
  <2>3. i - 1 \in 1..Len(r) /\ r[i - 1] = s[(i - 1) + 1] /\ (i - 1) + 1 = i
    BY <1>1, <1>2, <2>2
  <2>4. QED
    BY <2>1, <2>3 DEF Contains
<1>6. QED
  BY <1>1, <1>4, <1>5 DEF r

LEMMA PoolAppend ==
  ASSUME NEW s \in Seq(SdkTxid), NEW t \in SdkTxid, IsInjective(s), ~Contains(s, t)
  PROVE  /\ Append(s, t) \in Seq(SdkTxid) /\ Len(Append(s, t)) = Len(s) + 1
         /\ IsInjective(Append(s, t))
<1> DEFINE r == Append(s, t)
<1>1. /\ r \in Seq(SdkTxid) /\ Len(r) = Len(s) + 1
      /\ \A i \in 1..Len(s) : r[i] = s[i]
      /\ r[Len(s) + 1] = t
  BY AppendProperties
<1>2. DOMAIN r = 1..(Len(s) + 1) /\ DOMAIN s = 1..Len(s) /\ Len(s) \in Nat
  BY <1>1, LenProperties
<1> HIDE DEF r
<1>3. \A i \in 1..Len(s) : s[i] # t
  BY DEF Contains
<1>4. IsInjective(r)
  BY <1>1, <1>2, <1>3 DEF IsInjective
<1>5. QED
  BY <1>1, <1>4 DEF r

\* Making room: duplicate-free still, and one place free for a txid that was
\* not relayed.
LEMMA RoomFacts ==
  ASSUME PoolOK, NEW t \in SdkTxid
  PROVE  /\ Room(t) \in Seq(SdkTxid) /\ IsInjective(Room(t)) /\ Len(Room(t)) <= MaxPool
         /\ t \notin relayed => Len(Room(t)) < MaxPool
<1>1. queue \in Seq(SdkTxid) /\ IsInjective(queue) /\ Len(queue) <= MaxPool /\ Len(queue) \in Nat
      /\ MaxPool \in Nat \ {0}
  BY SdkAssumption, LenProperties DEF PoolOK, PoolIsSound
<1>2. CASE t \notin relayed /\ Len(queue) >= MaxPool
  <2>1. queue # <<>>
    BY <1>1, <1>2, EmptySeq
  <2>2. Room(t) = Tail(queue)
    BY <1>2 DEF Room
  <2>3. Tail(queue) \in Seq(SdkTxid) /\ Len(Tail(queue)) = Len(queue) - 1 /\ IsInjective(Tail(queue))
    BY <1>1, <2>1, PoolTail
  <2>4. QED
    BY <1>1, <2>2, <2>3
<1>3. CASE ~(t \notin relayed /\ Len(queue) >= MaxPool)
  <2>1. Room(t) = queue
    BY <1>3 DEF Room
  <2>2. QED
    BY <1>1, <1>3, <2>1
<1>4. QED
  BY <1>2, <1>3

----------------------------------------------------------------------------
(* The steps, invariant by invariant.                                      *)

LEMMA SendPool ==
  ASSUME PoolOK, NEW t \in SdkTxid, Enqueue(t)
  PROVE  PoolOK'
<1>1. /\ Room(t) \in Seq(SdkTxid) /\ IsInjective(Room(t)) /\ Len(Room(t)) <= MaxPool
      /\ t \notin relayed => Len(Room(t)) < MaxPool
  BY RoomFacts
<1>2. Len(Room(t)) \in Nat /\ MaxPool \in Nat
  BY <1>1, LenProperties, SdkAssumption
<1>3. CASE IsNew(t)
  <2>1. t \notin relayed /\ ~Contains(Room(t), t) /\ queue' = Append(Room(t), t)
    BY <1>3 DEF IsNew, Enqueue
  <2>2. /\ queue' \in Seq(SdkTxid) /\ Len(queue') = Len(Room(t)) + 1
        /\ IsInjective(queue')
    BY <1>1, <2>1, PoolAppend
  <2>3. QED
    BY <1>1, <1>2, <2>1, <2>2 DEF PoolOK, PoolIsSound
<1>4. CASE ~IsNew(t)
  BY <1>1, <1>4 DEF Enqueue, PoolOK, PoolIsSound
<1>5. QED
  BY <1>3, <1>4

LEMMA NextPool == ASSUME PoolOK, [SdkNext]_sdkVars PROVE PoolOK'
<1>1. CASE \E t \in SdkTxid, taken \in BOOLEAN : SendRawTx(t, taken)
  BY <1>1, SendPool DEF SendRawTx
<1>2. CASE PopNext
  <2>1. queue # <<>> /\ queue' = Tail(queue)
    BY <1>2 DEF PopNext
  <2>2. queue \in Seq(SdkTxid) /\ IsInjective(queue) /\ Len(queue) \in Nat /\ Len(queue) <= MaxPool
    BY LenProperties DEF PoolOK, PoolIsSound
  <2>3. Tail(queue) \in Seq(SdkTxid) /\ Len(Tail(queue)) = Len(queue) - 1 /\ IsInjective(Tail(queue))
    BY <2>1, <2>2, PoolTail
  <2>4. Len(Tail(queue)) <= MaxPool
    BY <2>2, <2>3, SdkAssumption
  <2>5. QED
    BY <2>1, <2>3, <2>4 DEF PoolOK, PoolIsSound
<1>3. CASE ~(\E t \in SdkTxid, taken \in BOOLEAN : SendRawTx(t, taken)) /\ ~PopNext
  <2>1. queue' = queue
    BY <1>3 DEF SdkNext, sdkVars, poolVars, Start, Stop, SwitchPeer, NodeDies, MarkRelayed,
       RecordRejected, Expire, WatchAdd, WatchRemove, ForceResetChain, Commit
  <2>2. QED
    BY <2>1 DEF PoolOK, PoolIsSound
<1>4. QED
  BY <1>1, <1>2, <1>3

LEMMA NextConnected == ASSUME ConnectedAsTold, [SdkNext]_sdkVars PROVE ConnectedAsTold'
<1> USE DEF ConnectedAsTold
<1>1. CASE Start
  BY <1>1 DEF Start
<1>2. CASE Stop
  BY <1>2 DEF Stop
<1>3. CASE \E n \in Node : SwitchPeer(n)
  BY <1>3 DEF SwitchPeer
<1>4. CASE \E t \in SdkTxid, taken \in BOOLEAN : SendRawTx(t, taken)
  BY <1>4 DEF SendRawTx, Write
<1>5. CASE /\ ~Start /\ ~Stop
           /\ ~(\E n \in Node : SwitchPeer(n)) /\ ~(\E t \in SdkTxid, taken \in BOOLEAN : SendRawTx(t, taken))
  <2>1. UNCHANGED <<running, peer, conn, told>>
    BY <1>5 DEF SdkNext, sdkVars, linkVars, NodeDies, PopNext, MarkRelayed,
       RecordRejected, Expire, WatchAdd, WatchRemove, ForceResetChain, Commit
  <2>2. QED
    BY <2>1
<1>6. QED
  BY <1>1, <1>2, <1>3, <1>4, <1>5

LEMMA NextWatched == ASSUME OpenSendIsWatched, [SdkNext]_sdkVars PROVE OpenSendIsWatched'
<1> USE DEF OpenSendIsWatched
<1>1. CASE \E t \in SdkTxid, taken \in BOOLEAN : SendRawTx(t, taken)
  BY <1>1 DEF SendRawTx, RecordSent, monitorVars, sends
<1>2. CASE \E t \in SdkTxid : RecordRejected(t)
  BY <1>2 DEF RecordRejected
<1>3. CASE \E t \in SdkTxid : Expire(t)
  BY <1>3 DEF Expire
<1>4. CASE /\ ~(\E t \in SdkTxid, taken \in BOOLEAN : SendRawTx(t, taken))
           /\ ~(\E t \in SdkTxid : RecordRejected(t))
           /\ ~(\E t \in SdkTxid : Expire(t))
  <2>1. UNCHANGED <<sent, rejected, unanswered>>
    BY <1>4 DEF SdkNext, sdkVars, monitorVars, sends, Start, Stop, SwitchPeer, NodeDies, PopNext,
       MarkRelayed, WatchAdd, WatchRemove, ForceResetChain, Commit
  <2>2. QED
    BY <2>1
<1>5. QED
  BY <1>1, <1>2, <1>3, <1>4

\* Only send_raw_tx answers a send with "ok", for its own txid.
LEMMA OkIsNew ==
  ASSUME SdkNext, NEW t \in SdkTxid,
         result' = [call |-> "send", txid |-> t, code |-> "ok"]
  PROVE  IsNew(t)
<1> DEFINE Ok(u) == [call |-> "send", txid |-> u, code |-> "ok"]
<1>1. result' = Ok(t)
  OBVIOUS
<1>2. result'.code = "ok" /\ result'.txid = t
  BY <1>1
<1>3. PICK u \in SdkTxid, taken \in BOOLEAN : SendRawTx(u, taken)
  BY <1>2 DEF SdkNext, Nothing, Start, Stop, SwitchPeer, NodeDies, PopNext,
     MarkRelayed, RecordRejected, Expire, WatchAdd, WatchRemove, ForceResetChain, Commit
<1>4. CASE IsNew(u) /\ running
  <2>1. result' = Ok(u)
    BY <1>3, <1>4 DEF SendRawTx
  <2>2. u = t
    BY <1>2, <2>1
  <2>3. QED
    BY <1>4, <2>2
<1>5. CASE ~(IsNew(u) /\ running)
  <2>1. result' = [call |-> "send", txid |-> u, code |-> "none"]
    BY <1>3, <1>5 DEF SendRawTx
  <2>2. QED
    BY <1>2, <2>1
<1>6. QED
  BY <1>4, <1>5

LEMMA InitIInv == SdkInit => IInv
<1>1. <<>> \in Seq(SdkTxid) /\ Len(<<>>) = 0 /\ IsInjective(<<>>)
  BY DEF IsInjective
<1>2. QED
  BY <1>1, SdkAssumption
     DEF SdkInit, IInv, PoolOK, PoolIsSound, ConnectedAsTold, OpenSendIsWatched

LEMMA InvariantIInv == SdkSpec => []IInv
<1>1. IInv /\ [SdkNext]_sdkVars => IInv'
  BY NextPool, NextConnected, NextWatched DEF IInv
<1>2. QED
  BY <1>1, InitIInv, PTL DEF SdkSpec

----------------------------------------------------------------------------
(* The theorems.                                                           *)

\* CLightTxPool holds no txid twice and at most MAX_PENDING.
THEOREM PoolStaysSound == SdkSpec => []PoolIsSound
<1>1. IInv => PoolIsSound
  BY DEF IInv, PoolOK
<1>2. QED
  BY <1>1, InvariantIInv, PTL

\* An unanswered socket is to the node on_peer_state last reported.
THEOREM ApplicationWasTold == SdkSpec => []ConnectedAsTold
<1>1. IInv => ConnectedAsTold
  BY DEF IInv
<1>2. QED
  BY <1>1, InvariantIInv, PTL

\* CLightSendMonitor watches every transaction that a socket took, that was
\* reported sent and that has had no answer, unless the peer rejected it once.
THEOREM SendsAreWatched == SdkSpec => []OpenSendIsWatched
<1>1. IInv => OpenSendIsWatched
  BY DEF IInv
<1>2. QED
  BY <1>1, InvariantIInv, PTL

\* A transaction in the pool is written again only as it is pushed out of a full
\* pool by its own second submission, whatever the limit.
THEOREM WrittenOncePerStay == SdkSpec => SentOncePerStay
<1> DEFINE Once == \A t \in SdkTxid :
                     (result' = [call |-> "send", txid |-> t, code |-> "ok"] /\ Contains(queue, t))
                       => Len(queue) = MaxPool /\ Head(queue) = t
<1>1. ASSUME IInv, [SdkNext]_sdkVars PROVE [Once]_sdkVars
  <2> SUFFICES ASSUME SdkNext, NEW t \in SdkTxid,
                      result' = [call |-> "send", txid |-> t, code |-> "ok"],
                      Contains(queue, t)
               PROVE  Len(queue) = MaxPool /\ Head(queue) = t
    BY <1>1
  <2>1. t \notin relayed /\ ~Contains(Room(t), t)
    BY OkIsNew DEF IsNew
  <2>2. Room(t) = Tail(queue) /\ Len(queue) >= MaxPool
    BY <2>1 DEF Room
  <2>3. queue \in Seq(SdkTxid) /\ IsInjective(queue) /\ Len(queue) <= MaxPool /\ Len(queue) \in Nat
    BY <1>1, LenProperties DEF IInv, PoolOK, PoolIsSound
  <2>4. queue # <<>>
    BY <2>3 DEF Contains
  <2>5. Head(queue) = t
    BY <2>1, <2>2, <2>3, <2>4, PoolTail
  <2>6. QED
    BY <2>2, <2>3, <2>5, SdkAssumption
<1>2. QED
  BY <1>1, InvariantIInv, PTL DEF SdkSpec, SentOncePerStay

=============================================================================
