-------------------------- MODULE PendingTxProofs --------------------------
(***************************************************************************)
(* Proofs about CPendingTxMap for any set of txids, any limit, timeout and *)
(* retry bound: the table stays bounded, its eviction queue stays a        *)
(* duplicate-free part of it, and Expire keeps to its retry budget.        *)
(***************************************************************************)
EXTENDS PendingTx, SequenceTheorems, FiniteSetTheorems, TLAPS

\* The inductive invariant.  MapBounded needs FifoTracksLive (what eviction
\* takes from the front of the queue is an entry), the retry budget needs
\* DueIsLive (Expire still finds the entries it scanned).
IInv ==
  /\ PendingTypeOK
  /\ MapBounded
  /\ FifoTracksLive
  /\ DueIsLive
  /\ RetryBudget

TableType == [map : [Txid -> Entry \cup {NoEntry}], fifo : Seq(Txid), broken : BOOLEAN]

\* What FifoTracksLive says of a table in the hands of a private helper.
QueueOK(p) == ToSet(p.fifo) \subseteq Keys(p.map) /\ IsInjective(p.fifo)

----------------------------------------------------------------------------
(* Lemmas about the helpers.                                               *)

\* Taking an element out of a queue without duplicates: the rest stays, in a
\* queue without duplicates.
LEMMA RemoveFirstOnce ==
  ASSUME NEW S, NEW s \in Seq(S), NEW e, IsInjective(s)
  PROVE  /\ RemoveFirst(s, e) \in Seq(S)
         /\ IsInjective(RemoveFirst(s, e))
         /\ ToSet(RemoveFirst(s, e)) = ToSet(s) \ {e}
<1>1. CASE ~ \E i \in 1..Len(s) : s[i] = e
  BY <1>1 DEF RemoveFirst, ToSet
<1>2. CASE \E i \in 1..Len(s) : s[i] = e
  <2>1. PICK k \in 1..Len(s) : s[k] = e
    BY <1>2
  <2>2. {i \in 1..Len(s) : s[i] = e} = {k}
    BY <2>1 DEF IsInjective
  <2>3. SelectInSeq(s, LAMBDA v : v = e) = k
    BY <2>2 DEF SelectInSeq, Min
  <2> DEFINE a == SubSeq(s, 1, k - 1)
             b == SubSeq(s, k + 1, Len(s))
             r == a \o b
  <2>4. RemoveFirst(s, e) = r
    BY <1>2, <2>3 DEF RemoveFirst, RemoveAt
  <2>5. /\ a \in Seq(S) /\ Len(a) = k - 1
        /\ \A i \in 1..(k - 1) : a[i] = s[i]
    BY <2>1, SubSeqProperties, ElementOfSeq
  <2>6. /\ b \in Seq(S) /\ Len(b) = Len(s) - k
        /\ \A i \in 1..(Len(s) - k) : b[i] = s[k + i]
    BY <2>1, SubSeqProperties, ElementOfSeq
  <2>7. /\ r \in Seq(S) /\ Len(r) = Len(s) - 1
        /\ \A i \in 1..(Len(s) - 1) : r[i] = IF i < k THEN s[i] ELSE s[i + 1]
    <3> HIDE DEF a, b
    <3>1. r \in Seq(S) /\ Len(r) = Len(a) + Len(b)
      BY <2>5, <2>6, ConcatProperties
    <3>2. \A i \in 1..(Len(a) + Len(b)) :
            r[i] = IF i <= Len(a) THEN a[i] ELSE b[i - Len(a)]
      BY <2>5, <2>6, ConcatProperties
    <3>3. Len(s) \in Nat
      BY LenProperties
    <3> HIDE DEF r
    <3>4. Len(r) = Len(s) - 1
      BY <3>1, <3>3, <2>5, <2>6
    <3>5. ASSUME NEW i \in 1..(Len(s) - 1)
          PROVE  r[i] = IF i < k THEN s[i] ELSE s[i + 1]
      <4>1. i \in 1..(Len(a) + Len(b)) /\ (i <= Len(a) <=> i < k)
        BY <3>3, <2>5, <2>6
      <4>2. CASE i < k
        BY <4>1, <4>2, <3>2, <3>3, <2>5
      <4>3. CASE ~(i < k)
        <5>1. r[i] = b[i - Len(a)] /\ i - Len(a) = i - k + 1
          BY <4>1, <4>3, <3>2, <3>3, <2>5
        <5>2. i - k + 1 \in 1..(Len(s) - k) /\ k + (i - k + 1) = i + 1
          BY <4>3, <3>3
        <5> QED
          BY <4>3, <5>1, <5>2, <2>6
      <4> QED
        BY <4>2, <4>3
    <3> QED
      BY <3>1, <3>4, <3>5
  <2> HIDE DEF r
  <2>8. DOMAIN r = 1..(Len(s) - 1) /\ DOMAIN s = 1..Len(s) /\ Len(s) \in Nat
    BY <2>7, LenProperties
  <2> DEFINE j(i) == IF i < k THEN i ELSE i + 1
  <2>8a. ASSUME NEW i \in 1..(Len(s) - 1)
         PROVE  r[i] = s[j(i)] /\ j(i) \in 1..Len(s) /\ j(i) # k
    BY <2>7, <2>8
  <2>8b. ASSUME NEW i \in 1..(Len(s) - 1), NEW l \in 1..(Len(s) - 1), r[i] = r[l]
         PROVE  i = l
    <3>1. s[j(i)] = s[j(l)] /\ j(i) \in DOMAIN s /\ j(l) \in DOMAIN s
      BY <2>8, <2>8a, <2>8b
    <3>2. j(i) = j(l)
      BY <3>1 DEF IsInjective
    <3> QED
      BY <3>2, <2>8
  <2>9. IsInjective(r)
    BY <2>8, <2>8b DEF IsInjective
  <2>10. ToSet(r) \subseteq ToSet(s) \ {e}
    <3>1. ASSUME NEW i \in 1..(Len(s) - 1)
          PROVE  r[i] \in ToSet(s) /\ r[i] # e
      <4>1. s[j(i)] # s[k]
        BY <2>1, <2>8, <2>8a DEF IsInjective
      <4> QED
        BY <2>1, <2>8, <2>8a, <4>1 DEF ToSet
    <3> QED
      BY <2>8, <3>1 DEF ToSet
  <2>11. ASSUME NEW x \in ToSet(s) \ {e} PROVE x \in ToSet(r)
    <3>1. PICK i \in 1..Len(s) : x = s[i]
      BY <2>8 DEF ToSet
    <3>2. i # k
      BY <3>1, <2>1
    <3>3. CASE i < k
      <4>1. i \in DOMAIN r /\ r[i] = x
        BY <3>1, <3>3, <2>1, <2>7, <2>8
      <4> QED
        BY <4>1 DEF ToSet
    <3>4. CASE i > k
      <4>1. i - 1 \in DOMAIN r /\ r[i - 1] = x
        BY <3>1, <3>4, <2>1, <2>7, <2>8
      <4> QED
        BY <4>1 DEF ToSet
    <3> QED
      BY <3>2, <3>3, <3>4, <2>1
  <2> QED
    BY <2>4, <2>7, <2>9, <2>10, <2>11
<1> QED
  BY <1>1, <1>2

\* Erase takes one txid out of the map and out of the queue.
LEMMA EraseTable ==
  ASSUME NEW p \in TableType, QueueOK(p), NEW t \in Txid
  PROVE  /\ Erase(p, t) \in TableType
         /\ QueueOK(Erase(p, t))
         /\ Erase(p, t).map = [p.map EXCEPT ![t] = NoEntry]
         /\ Keys(Erase(p, t).map) = Keys(p.map) \ {t}
         /\ Erase(p, t).broken = p.broken
<1> DEFINE q == Erase(p, t)
<1>1. /\ q.map = [p.map EXCEPT ![t] = NoEntry]
      /\ q.fifo = RemoveFirst(p.fifo, t)
      /\ q.broken = p.broken
      /\ q = [map |-> q.map, fifo |-> q.fifo, broken |-> q.broken]
  <2> DEFINE m == [p.map EXCEPT ![t] = NoEntry]
             f == RemoveFirst(p.fifo, t)
  <2>1. q = [p EXCEPT !.map = m, !.fifo = f]
    BY DEF Erase
  <2>2. p = [map |-> p.map, fifo |-> p.fifo, broken |-> p.broken]
    BY DEF TableType
  <2> HIDE DEF m, f, q
  <2>3. q = [map |-> m, fifo |-> f, broken |-> p.broken]
    BY <2>1, <2>2
  <2> QED
    BY <2>3 DEF m, f
<1>2. /\ RemoveFirst(p.fifo, t) \in Seq(Txid)
      /\ IsInjective(RemoveFirst(p.fifo, t))
      /\ ToSet(RemoveFirst(p.fifo, t)) = ToSet(p.fifo) \ {t}
  BY RemoveFirstOnce DEF TableType, QueueOK
<1>3. Keys(q.map) = Keys(p.map) \ {t}
  BY <1>1 DEF Keys, TableType
<1>4. q \in TableType
  BY <1>1, <1>2 DEF TableType
<1>5. QueueOK(q)
  BY <1>1, <1>2, <1>3 DEF QueueOK
<1> QED
  BY <1>1, <1>3, <1>4, <1>5

\* The keys of a map are finitely many.
LEMMA KeysFinite ==
  ASSUME NEW m
  PROVE  IsFiniteSet(Keys(m)) /\ Cardinality(Keys(m)) \in Nat
<1>1. Keys(m) \in SUBSET Txid
  BY DEF Keys
<1> QED
  BY <1>1, PendingTxAssumption, FS_Subset, FS_CardinalityType

\* Queueing a new key at the end.
LEMMA AppendNew ==
  ASSUME NEW S, NEW s \in Seq(S), NEW e \in S, IsInjective(s), e \notin ToSet(s)
  PROVE  /\ Append(s, e) \in Seq(S)
         /\ Append(s, e) # <<>>
         /\ IsInjective(Append(s, e))
         /\ ToSet(Append(s, e)) = ToSet(s) \cup {e}
<1> DEFINE r == Append(s, e)
<1>1. /\ r \in Seq(S) /\ r # <<>> /\ Len(r) = Len(s) + 1
      /\ \A i \in 1..Len(s) : r[i] = s[i]
      /\ r[Len(s) + 1] = e
  BY AppendProperties
<1>2. DOMAIN r = 1..(Len(s) + 1) /\ DOMAIN s = 1..Len(s) /\ Len(s) \in Nat
  BY <1>1, LenProperties
<1> HIDE DEF r
<1>3. IsInjective(r)
  BY <1>1, <1>2 DEF IsInjective, ToSet
<1>4. ToSet(r) = ToSet(s) \cup {e}
  <2>1. ToSet(r) \subseteq ToSet(s) \cup {e}
    BY <1>1, <1>2 DEF ToSet
  <2>2. ToSet(s) \subseteq ToSet(r)
    BY <1>1, <1>2 DEF ToSet
  <2>3. e \in ToSet(r)
    BY <1>1, <1>2 DEF ToSet
  <2> QED
    BY <2>1, <2>2, <2>3
<1> QED
  BY <1>1, <1>3, <1>4 DEF r

\* Popping the front.
LEMMA TailQueue ==
  ASSUME NEW S, NEW s \in Seq(S), s # <<>>, IsInjective(s)
  PROVE  /\ Tail(s) \in Seq(S)
         /\ IsInjective(Tail(s))
         /\ ToSet(Tail(s)) \subseteq ToSet(s)
<1> DEFINE r == Tail(s)
<1>1. /\ r \in Seq(S) /\ Len(r) = Len(s) - 1
      /\ \A i \in 1..Len(r) : r[i] = s[i + 1]
  BY HeadTailProperties
<1>2. DOMAIN r = 1..Len(r) /\ DOMAIN s = 1..Len(s) /\ Len(s) \in Nat
  BY <1>1, LenProperties
<1> HIDE DEF r
<1>3. \A i \in DOMAIN r : i + 1 \in DOMAIN s /\ i \in Int /\ r[i] = s[i + 1]
  BY <1>1, <1>2
<1>4. IsInjective(r)
  BY <1>2, <1>3 DEF IsInjective
<1>5. ToSet(r) \subseteq ToSet(s)
  BY <1>3 DEF ToSet
<1> QED
  BY <1>1, <1>4, <1>5 DEF r

\* One eviction is enough after one insertion, and the entries that stay are
\* unchanged.
LEMMA EvictTable ==
  ASSUME NEW p \in TableType, QueueOK(p), p.fifo # <<>>,
         Cardinality(Keys(p.map)) <= MaxPending + 1
  PROVE  /\ EnforceFifo(p) \in TableType
         /\ QueueOK(EnforceFifo(p))
         /\ Cardinality(Keys(EnforceFifo(p).map)) <= MaxPending
         /\ \A u \in Txid : EnforceFifo(p).map[u] \in {NoEntry, p.map[u]}
<1>0. Cardinality(Keys(p.map)) \in Nat /\ MaxPending \in Nat
  BY KeysFinite, PendingTxAssumption
<1>1. CASE Cardinality(Keys(p.map)) <= MaxPending
  BY <1>1 DEF EnforceFifo
<1>2. CASE ~(Cardinality(Keys(p.map)) <= MaxPending)
  <2> DEFINE h == Head(p.fifo)
             q == Erase(p, h)
             r == EnforceFifo(p)
  <2>1. h \in Txid /\ h \in Keys(p.map)
    <3>1. h \in Txid /\ h = p.fifo[1] /\ 1 \in DOMAIN p.fifo
      BY HeadTailProperties, LenProperties, EmptySeq DEF TableType
    <3> QED
      BY <3>1 DEF QueueOK, ToSet
  <2>2. /\ q \in TableType /\ QueueOK(q)
        /\ q.map = [p.map EXCEPT ![h] = NoEntry]
        /\ Keys(q.map) = Keys(p.map) \ {h}
    BY <2>1, EraseTable
  <2>3. Cardinality(Keys(q.map)) <= MaxPending
    <3>1. Cardinality(Keys(q.map)) = Cardinality(Keys(p.map)) - 1
      BY <2>1, <2>2, KeysFinite, FS_RemoveElement
    <3> QED
      BY <3>1, <1>0
  <2> HIDE DEF q
  <2>4. /\ r.map = q.map /\ r \in TableType
        /\ r.fifo = IF q.fifo = <<>> THEN q.fifo ELSE Tail(q.fifo)
    <3>1. r = IF q.fifo = <<>> THEN [q EXCEPT !.broken = TRUE]
                               ELSE [q EXCEPT !.fifo = Tail(@)]
      BY <1>2 DEF EnforceFifo, q
    <3>2. q.fifo # <<>> => Tail(q.fifo) \in Seq(Txid)
      BY <2>2, HeadTailProperties DEF TableType
    <3> QED
      BY <3>1, <3>2, <2>2 DEF TableType
  <2>5. QueueOK(r)
    <3>1. CASE q.fifo = <<>>
      BY <3>1, <2>2, <2>4 DEF QueueOK
    <3>2. CASE q.fifo # <<>>
      <4>1. IsInjective(Tail(q.fifo)) /\ ToSet(Tail(q.fifo)) \subseteq ToSet(q.fifo)
        BY <3>2, <2>2, TailQueue DEF QueueOK, TableType
      <4> QED
        BY <4>1, <3>2, <2>2, <2>4 DEF QueueOK
    <3> QED
      BY <3>1, <3>2
  <2>6. \A u \in Txid : r.map[u] \in {NoEntry, p.map[u]}
    BY <2>2, <2>4 DEF TableType
  <2> QED
    BY <2>2, <2>3, <2>4, <2>5, <2>6
<1> QED
  BY <1>1, <1>2

\* Inserting a key that is not there keeps the table within its limit; what it
\* then holds is the new entry and entries it held before.
LEMMA InsertTable ==
  ASSUME NEW p \in TableType, QueueOK(p), Cardinality(Keys(p.map)) <= MaxPending,
         NEW t \in Txid, p.map[t] = NoEntry, NEW e \in Entry
  PROVE  /\ Insert(p, t, e) \in TableType
         /\ QueueOK(Insert(p, t, e))
         /\ Cardinality(Keys(Insert(p, t, e).map)) <= MaxPending
         /\ \A u \in Txid :
              Insert(p, t, e).map[u] \in {NoEntry, IF u = t THEN e ELSE p.map[u]}
<1> DEFINE q == [p EXCEPT !.map = [@ EXCEPT ![t] = e], !.fifo = Append(@, t)]
<1>1. /\ q.map = [p.map EXCEPT ![t] = e]
      /\ q.fifo = Append(p.fifo, t)
      /\ q = [map |-> q.map, fifo |-> q.fifo, broken |-> p.broken]
  <2> DEFINE m == [p.map EXCEPT ![t] = e]
             f == Append(p.fifo, t)
  <2>1. q = [p EXCEPT !.map = m, !.fifo = f]
    OBVIOUS
  <2>2. p = [map |-> p.map, fifo |-> p.fifo, broken |-> p.broken]
    BY DEF TableType
  <2> HIDE DEF m, f, q
  <2>3. q = [map |-> m, fifo |-> f, broken |-> p.broken]
    BY <2>1, <2>2
  <2> QED
    BY <2>3 DEF m, f
<1>2. t \notin Keys(p.map) /\ t \notin ToSet(p.fifo)
  BY DEF Keys, QueueOK
<1>3. /\ q.fifo \in Seq(Txid) /\ q.fifo # <<>>
      /\ IsInjective(q.fifo) /\ ToSet(q.fifo) = ToSet(p.fifo) \cup {t}
  BY <1>1, <1>2, AppendNew DEF TableType, QueueOK
<1> HIDE DEF q
<1>4. Keys(q.map) = Keys(p.map) \cup {t}
  BY <1>1, NoEntryAssumption DEF Keys, TableType
<1>5. q \in TableType /\ QueueOK(q)
  <2>1. q.map \in [Txid -> Entry \cup {NoEntry}] /\ p.broken \in BOOLEAN
    BY <1>1 DEF TableType
  <2>2. q \in TableType
    BY <1>1, <1>3, <2>1 DEF TableType
  <2>3. QueueOK(q)
    BY <1>3, <1>4 DEF QueueOK
  <2> QED
    BY <2>2, <2>3
<1>6. Cardinality(Keys(q.map)) <= MaxPending + 1
  <2>1. Cardinality(Keys(q.map)) = Cardinality(Keys(p.map)) + 1
    BY <1>2, <1>4, KeysFinite, FS_AddElement
  <2> QED
    BY <2>1, KeysFinite, PendingTxAssumption
<1>7. Insert(p, t, e) = EnforceFifo(q)
  BY DEF Insert, q
<1>8. \A u \in Txid : q.map[u] = IF u = t THEN e ELSE p.map[u]
  BY <1>1 DEF TableType
<1> QED
  BY <1>3, <1>5, <1>6, <1>7, <1>8, EvictTable

----------------------------------------------------------------------------
(* The invariant.                                                          *)

\* The empty table satisfies the invariant.
LEMMA InitIInv == PendingInit => IInv
<1> SUFFICES ASSUME PendingInit PROVE IInv
  OBVIOUS
<1>1. PendingTypeOK
  BY EmptySeq DEF PendingInit, PendingTypeOK
<1>2. Live = {}
  BY DEF PendingInit, Live, Keys
<1>3. MapBounded /\ RetryBudget
  BY <1>2, FS_EmptySet, PendingTxAssumption DEF MapBounded, RetryBudget
<1>4. FifoTracksLive /\ DueIsLive
  BY DEF PendingInit, FifoTracksLive, DueIsLive, ToSet, IsInjective
<1> QED
  BY <1>1, <1>3, <1>4 DEF IInv

\* A table in hand between two calls.
LEMMA TableOK ==
  ASSUME PendingTypeOK, FifoTracksLive
  PROVE  Table \in TableType /\ QueueOK(Table)
         /\ Table.map = map /\ Table.fifo = fifo /\ Table.broken = broken
BY DEF PendingTypeOK, FifoTracksLive, Live, Table, TableType, QueueOK

\* A step that erases t, with nothing else waiting for t in Expire.
LEMMA EraseStep ==
  ASSUME IInv, NEW t \in Txid, Becomes(Erase(Table, t)), UNCHANGED asked,
         due' = due \/ due' = due \ {t}, t \notin due'
  PROVE  IInv' /\ Live' = Live \ {t} /\ broken' = broken
<1> USE DEF IInv
<1> DEFINE q == Erase(Table, t)
<1>1. /\ q \in TableType /\ QueueOK(q)
      /\ map' = [map EXCEPT ![t] = NoEntry]
      /\ Live' = Live \ {t}
      /\ broken' = broken /\ fifo' = q.fifo /\ map' = q.map
  BY TableOK, EraseTable DEF Becomes, Live
<1>2. PendingTypeOK'
  BY <1>1 DEF PendingTypeOK, TableType
<1>3. MapBounded'
  <2>1. Live \ {t} \in SUBSET Live
    OBVIOUS
  <2>2. Cardinality(Live') <= Cardinality(Live)
    BY <1>1, <2>1, KeysFinite, FS_Subset DEF Live
  <2> QED
    BY <2>2, KeysFinite, PendingTxAssumption DEF MapBounded, Live
<1>4. FifoTracksLive'
  BY <1>1 DEF FifoTracksLive, QueueOK, Live
<1>5. \A u \in Txid : u # t => map'[u] = map[u]
  BY <1>1 DEF PendingTypeOK
<1>6. DueIsLive'
  BY <1>5, <1>2 DEF DueIsLive, Expired, PendingTypeOK
<1>7. RetryBudget'
  BY <1>1, <1>5 DEF RetryBudget, Live, Keys
<1> QED
  BY <1>1, <1>2, <1>3, <1>4, <1>6, <1>7

\* A call that inserts an entry for t.
LEMMA InsertStep ==
  ASSUME IInv, Callable, NEW t \in Txid, map[t] = NoEntry,
         NEW e \in Entry, e.retry = 0,
         Becomes(Insert(Table, t, e)), asked' = [asked EXCEPT ![t] = 0], due' = due
  PROVE  IInv'
<1> USE DEF IInv
<1> DEFINE q == Insert(Table, t, e)
<1>1. /\ q \in TableType /\ QueueOK(q)
      /\ Cardinality(Keys(map')) <= MaxPending
      /\ \A u \in Txid : map'[u] \in {NoEntry, IF u = t THEN e ELSE map[u]}
      /\ map' = q.map /\ fifo' = q.fifo /\ broken' = q.broken
  BY TableOK, InsertTable DEF Becomes, MapBounded, Live
<1>2. PendingTypeOK'
  BY <1>1 DEF PendingTypeOK, TableType
<1>3. MapBounded' /\ FifoTracksLive'
  BY <1>1 DEF MapBounded, FifoTracksLive, QueueOK, Live
<1>4. DueIsLive'
  BY DEF DueIsLive, Callable
<1>5. RetryBudget'
  <2> SUFFICES ASSUME NEW u \in Txid, map'[u] # NoEntry
               PROVE  map'[u].retry = asked'[u] /\ asked'[u] < MaxRetry
    BY DEF RetryBudget, Live, Keys
  <2>1. CASE u = t
    BY <1>1, <2>1, PendingTxAssumption DEF PendingTypeOK
  <2>2. CASE u # t
    <3>1. map'[u] = map[u] /\ asked'[u] = asked[u]
      BY <1>1, <2>2 DEF PendingTypeOK
    <3> QED
      BY <3>1 DEF RetryBudget, Live, Keys
  <2> QED
    BY <2>1, <2>2
<1> QED
  BY <1>2, <1>3, <1>4, <1>5

\* A step that changes entries where they are: it adds none, removes none and
\* leaves the queue alone.
LEMMA UpdateStep ==
  ASSUME IInv, PendingTypeOK', UNCHANGED <<fifo, broken>>,
         \A u \in Txid : map'[u] = NoEntry <=> map[u] = NoEntry
  PROVE  MapBounded' /\ FifoTracksLive' /\ Live' = Live
<1>1. Live' = Live
  BY DEF Live, Keys
<1> QED
  BY <1>1 DEF IInv, MapBounded, FifoTracksLive

\* AddTx keeps the invariant.
LEMMA AddTxIInv == ASSUME IInv, NEW t \in Txid, AddTx(t) PROVE IInv'
<1> USE DEF IInv
<1>1. CASE map[t] # NoEntry
  <2>1. /\ map' = [map EXCEPT ![t].tx = TRUE]
        /\ UNCHANGED <<fifo, broken, asked, due>>
    BY <1>1 DEF AddTx
  <2>2. map[t] \in Entry
    BY <1>1 DEF PendingTypeOK
  <2>3. [map[t] EXCEPT !.tx = TRUE] \in Entry
        /\ [map[t] EXCEPT !.tx = TRUE].retry = map[t].retry
    BY <2>2 DEF Entry
  <2>4. \A u \in Txid : map'[u] = IF u = t THEN [map[t] EXCEPT !.tx = TRUE] ELSE map[u]
    BY <2>1 DEF PendingTypeOK
  <2>5. PendingTypeOK'
    BY <2>1, <2>3 DEF PendingTypeOK
  <2>6. MapBounded' /\ FifoTracksLive' /\ Live' = Live
    BY <2>1, <2>3, <2>4, <2>5, <1>1, NoEntryAssumption, UpdateStep
  <2>7. DueIsLive'
    BY <2>1 DEF DueIsLive, AddTx, Callable
  <2>8. RetryBudget'
    BY <2>1, <2>3, <2>4, <2>6 DEF RetryBudget, Live, Keys
  <2> QED
    BY <2>5, <2>6, <2>7, <2>8
<1>2. CASE map[t] = NoEntry
  <2>1. Fresh(TRUE, NoBlock) \in Entry /\ Fresh(TRUE, NoBlock).retry = 0
    BY PendingTxAssumption DEF Fresh, Entry
  <2> QED
    BY <1>2, <2>1, InsertStep DEF AddTx
<1> QED
  BY <1>1, <1>2

\* AddMerkle keeps the invariant.
LEMMA AddMerkleIInv ==
  ASSUME IInv, NEW t \in Txid, NEW b \in Block, AddMerkle(t, b) PROVE IInv'
<1> USE DEF IInv
<1>1. CASE map[t] # NoEntry
  <2> DEFINE e == [map[t] EXCEPT !.merkle = TRUE, !.block = b]
  <2>1. UNCHANGED <<fifo, broken, asked, due>>
    BY <1>1 DEF AddMerkle
  <2>2. map' = [map EXCEPT ![t].merkle = TRUE, ![t].block = b]
    BY <1>1 DEF AddMerkle
  <2>3. map[t] \in Entry
    BY <1>1 DEF PendingTypeOK
  <2>4. e \in Entry /\ e.retry = map[t].retry
    BY <2>3 DEF Entry
  <2>5. map' = [map EXCEPT ![t] = e]
    BY <2>2, <2>3 DEF PendingTypeOK
  <2> HIDE DEF e
  <2>6. \A u \in Txid : map'[u] = IF u = t THEN e ELSE map[u]
    BY <2>5 DEF PendingTypeOK
  <2>7. PendingTypeOK'
    BY <2>1, <2>4, <2>5 DEF PendingTypeOK
  <2>8. MapBounded' /\ FifoTracksLive' /\ Live' = Live
    BY <2>1, <2>4, <2>6, <2>7, <1>1, NoEntryAssumption, UpdateStep
  <2>9. DueIsLive'
    BY <2>1 DEF DueIsLive, AddMerkle, Callable
  <2>10. RetryBudget'
    BY <2>1, <2>4, <2>6, <2>8 DEF RetryBudget, Live, Keys
  <2> QED
    BY <2>7, <2>8, <2>9, <2>10
<1>2. CASE map[t] = NoEntry
  <2>1. Fresh(FALSE, b) \in Entry /\ Fresh(FALSE, b).retry = 0
    BY PendingTxAssumption DEF Fresh, Entry
  <2> QED
    BY <1>2, <2>1, InsertStep DEF AddMerkle
<1> QED
  BY <1>1, <1>2

\* A stuttering step keeps the invariant.
LEMMA UnchangedIInv == ASSUME IInv, UNCHANGED pendingVars PROVE IInv'
BY DEF IInv, pendingVars, PendingTypeOK, MapBounded, FifoTracksLive, DueIsLive,
       RetryBudget, Live, Keys, Expired, Paired

\* TryPair keeps the invariant.
LEMMA TryPairIInv == ASSUME IInv, NEW t \in Txid, TryPair(t) PROVE IInv'
<1>1. CASE CanPair(t)
  BY <1>1, EraseStep DEF TryPair, Callable
<1>2. CASE ~CanPair(t)
  BY <1>2, UnchangedIInv DEF TryPair, pendingVars
<1> QED
  BY <1>1, <1>2

\* Remove keeps the invariant.
LEMMA RemoveTxIInv == ASSUME IInv, NEW t \in Txid, RemoveTx(t) PROVE IInv'
BY EraseStep DEF RemoveTx, Callable

\* The first loop of Expire keeps the invariant.
LEMMA ExpireScanIInv == ASSUME IInv, ExpireScan PROVE IInv'
<1> USE DEF IInv
<1>1. UNCHANGED <<map, fifo, broken, asked>> /\ due' = {t \in Txid : Expired(t)}
  BY DEF ExpireScan
<1>2. PendingTypeOK' /\ MapBounded' /\ FifoTracksLive' /\ RetryBudget'
  BY <1>1 DEF PendingTypeOK, MapBounded, FifoTracksLive, RetryBudget, Live, Keys
<1>3. DueIsLive'
  BY <1>1 DEF DueIsLive, Expired, Paired
<1> QED
  BY <1>2, <1>3

\* The second loop of Expire keeps the invariant.
LEMMA ExpireVisitIInv == ASSUME IInv, NEW t \in Txid, ExpireVisit(t) PROVE IInv'
<1> USE DEF IInv
<1>0. due' = due \ {t}
  BY DEF ExpireVisit
<1>1. CASE map[t].retry + 1 >= MaxRetry
  BY <1>0, <1>1, EraseStep DEF ExpireVisit
<1>2. CASE ~(map[t].retry + 1 >= MaxRetry)
  <2> DEFINE e == [map[t] EXCEPT !.retry = @ + 1]
  <2>1. /\ map' = [map EXCEPT ![t].retry = @ + 1]
        /\ asked' = [asked EXCEPT ![t] = @ + 1]
        /\ UNCHANGED <<fifo, broken>>
    BY <1>2 DEF ExpireVisit
  <2>2. t \in due /\ map[t] # NoEntry /\ map[t] \in Entry /\ t \in Live
    BY DEF ExpireVisit, DueIsLive, Expired, PendingTypeOK, Live, Keys
  <2>3. e \in Entry /\ e.retry = map[t].retry + 1 /\ e.retry < MaxRetry
    BY <1>2, <2>2, PendingTxAssumption DEF Entry
  <2>4. e.age = map[t].age /\ e.tx = map[t].tx /\ e.merkle = map[t].merkle
    BY <2>2 DEF Entry
  <2>5. map' = [map EXCEPT ![t] = e]
    BY <2>1
  <2> HIDE DEF e
  <2>6. \A u \in Txid : /\ map'[u] = IF u = t THEN e ELSE map[u]
                        /\ asked'[u] = IF u = t THEN asked[t] + 1 ELSE asked[u]
    BY <2>1, <2>5 DEF PendingTypeOK
  <2>7. PendingTypeOK'
    <3>1. map' \in [Txid -> Entry \cup {NoEntry}]
      BY <2>3, <2>5 DEF PendingTypeOK
    <3>2. asked' \in [Txid -> Nat]
      BY <2>1 DEF PendingTypeOK
    <3> QED
      BY <1>0, <2>1, <3>1, <3>2 DEF PendingTypeOK
  <2>8. MapBounded' /\ FifoTracksLive' /\ Live' = Live
    BY <2>1, <2>2, <2>3, <2>6, <2>7, NoEntryAssumption, UpdateStep
  <2>9. DueIsLive'
    BY <1>0, <2>6 DEF DueIsLive, Expired, Paired, PendingTypeOK
  <2>10. RetryBudget'
    BY <2>2, <2>3, <2>6, <2>8 DEF RetryBudget, Live, Keys
  <2> QED
    BY <2>7, <2>8, <2>9, <2>10
<1> QED
  BY <1>1, <1>2

\* The clock keeps the invariant.
LEMMA TickIInv == ASSUME IInv, Tick PROVE IInv'
<1> USE DEF IInv
<1>1. UNCHANGED <<fifo, broken, due, asked>> /\ due = {}
  BY DEF Tick, Callable
<1>2. ASSUME NEW u \in Txid
      PROVE  /\ map'[u] \in Entry \cup {NoEntry}
             /\ map'[u] = NoEntry <=> map[u] = NoEntry
             /\ map[u] # NoEntry => map'[u].retry = map[u].retry
  <2>1. map'[u] = IF map[u] = NoEntry \/ map[u].age = PairTimeout
                    THEN map[u] ELSE [map[u] EXCEPT !.age = @ + 1]
    BY DEF Tick
  <2>2. CASE map[u] = NoEntry \/ map[u].age = PairTimeout
    BY <2>1, <2>2 DEF PendingTypeOK
  <2>3. CASE ~(map[u] = NoEntry \/ map[u].age = PairTimeout)
    <3>1. map[u] \in Entry
      BY <2>3 DEF PendingTypeOK
    <3>2. [map[u] EXCEPT !.age = @ + 1] \in Entry
          /\ [map[u] EXCEPT !.age = @ + 1].retry = map[u].retry
      BY <2>3, <3>1, PendingTxAssumption DEF Entry
    <3> QED
      BY <2>1, <2>3, <3>2, NoEntryAssumption
  <2> QED
    BY <2>2, <2>3
<1>3. PendingTypeOK'
  <2>1. map' \in [Txid -> Entry \cup {NoEntry}]
    BY <1>2 DEF Tick
  <2> QED
    BY <1>1, <2>1 DEF PendingTypeOK
<1>4. MapBounded' /\ FifoTracksLive' /\ Live' = Live
  BY <1>1, <1>2, <1>3, UpdateStep
<1>5. DueIsLive'
  BY <1>1 DEF DueIsLive
<1>6. RetryBudget'
  BY <1>1, <1>2, <1>4 DEF RetryBudget, Live, Keys
<1> QED
  BY <1>3, <1>4, <1>5, <1>6

\* Every step of the table keeps the invariant.
LEMMA NextIInv == IInv /\ [PendingNext]_pendingVars => IInv'
<1> SUFFICES ASSUME IInv, [PendingNext]_pendingVars PROVE IInv'
  OBVIOUS
<1>1. ASSUME NEW t \in Txid, AddTx(t) PROVE IInv'
  BY <1>1, AddTxIInv
<1>2. ASSUME NEW t \in Txid, TryPair(t) PROVE IInv'
  BY <1>2, TryPairIInv
<1>3. ASSUME NEW t \in Txid, RemoveTx(t) PROVE IInv'
  BY <1>3, RemoveTxIInv
<1>4. ASSUME NEW t \in Txid, ExpireVisit(t) PROVE IInv'
  BY <1>4, ExpireVisitIInv
<1>5. ASSUME NEW t \in Txid, NEW b \in Block, AddMerkle(t, b) PROVE IInv'
  BY <1>5, AddMerkleIInv
<1>6. CASE ExpireScan
  BY <1>6, ExpireScanIInv
<1>7. CASE Tick
  BY <1>7, TickIInv
<1>8. CASE UNCHANGED pendingVars
  BY <1>8, UnchangedIInv
<1> QED
  BY <1>1, <1>2, <1>3, <1>4, <1>5, <1>6, <1>7, <1>8 DEF PendingNext

\* The invariant holds in every reachable state.
THEOREM Invariant == PendingSpec => []IInv
BY InitIInv, NextIInv, PTL DEF PendingSpec

----------------------------------------------------------------------------
(* The results.                                                            *)

\* Every variable of CPendingTxMap keeps its type.
THEOREM TypeCorrect == PendingSpec => []PendingTypeOK
<1>1. IInv => PendingTypeOK
  BY DEF IInv
<1> QED
  BY <1>1, Invariant, PTL

\* EnforceFifo (light_pendingtx.cpp:15-20) bounds the table for every limit,
\* although it takes a second slot off the queue for each entry it erases.
THEOREM TableBounded == PendingSpec => []MapBounded
<1>1. IInv => MapBounded
  BY DEF IInv
<1> QED
  BY <1>1, Invariant, PTL

\* Erase and EnforceFifo never leave a slot of a former life in the queue.
THEOREM QueueTracksTable == PendingSpec => []FifoTracksLive
<1>1. IInv => FifoTracksLive
  BY DEF IInv
<1> QED
  BY <1>1, Invariant, PTL

\* Expire (light_pendingtx.cpp:79-98) orders at most MaxRetry - 1 requests in
\* one life of an entry.
THEOREM ExpireBudget == PendingSpec => []RetryBudget
<1>1. IInv => RetryBudget
  BY DEF IInv
<1> QED
  BY <1>1, Invariant, PTL

GiveUpStep ==
  \A t \in Txid :
    (t \in due /\ t \notin due' /\ t \in Live /\ t \notin Live')
      => asked[t] = MaxRetry - 1 /\ ~Paired(map[t])

\* Expire gives up an entry only when its requests are used up, and only one
\* that still lacks a half.
THEOREM ExpireGivesUpLast == PendingSpec => GiveUpAfterRetries
<1>1. IInv /\ [PendingNext]_pendingVars => [GiveUpStep]_pendingVars
  <2> SUFFICES ASSUME IInv, PendingNext,
                      NEW t \in Txid, t \in due, t \notin due', t \in Live, t \notin Live'
               PROVE  asked[t] = MaxRetry - 1 /\ ~Paired(map[t])
    BY DEF GiveUpStep
  <2>1. ExpireVisit(t)
    BY DEF PendingNext, AddTx, AddMerkle, TryPair, RemoveTx, ExpireVisit, ExpireScan, Tick,
           Callable
  <2>2. ~Paired(map[t]) /\ map[t] \in Entry
    BY DEF IInv, DueIsLive, Expired, PendingTypeOK
  <2>3. map[t].retry + 1 >= MaxRetry
    <3> SUFFICES ASSUME ~(map[t].retry + 1 >= MaxRetry) PROVE t \in Live'
      OBVIOUS
    <3>1. map' = [map EXCEPT ![t].retry = @ + 1]
      BY <2>1 DEF ExpireVisit
    <3>2. map'[t] = [map[t] EXCEPT !.retry = @ + 1]
      BY <3>1 DEF IInv, PendingTypeOK
    <3>3. map'[t] \in Entry
      BY <3>2, <2>2 DEF Entry
    <3> QED
      BY <3>3, NoEntryAssumption DEF Live, Keys
  <2>4. map[t].retry = asked[t] /\ asked[t] < MaxRetry /\ asked[t] \in Nat
    BY DEF IInv, RetryBudget, PendingTypeOK
  <2> QED
    BY <2>2, <2>3, <2>4, PendingTxAssumption
<1> QED
  BY <1>1, Invariant, PTL DEF PendingSpec, GiveUpAfterRetries, GiveUpStep

=============================================================================
