--------------------------- MODULE FilteredBlock ---------------------------
(***************************************************************************)
(* What a watched address goes through to be found in a block: the Bloom   *)
(* filter of RebuildFilter (src/demo/demo_win32.cpp, light_filter.cpp),    *)
(* the full node that tests a block's transactions against it, and the     *)
(* client that extracts the matches from the merkleblock message           *)
(* (light_merkle.cpp).                                                     *)
(*                                                                         *)
(* Hashes do not collide: the hash of a pair is the pair, a transaction's  *)
(* is a sequence of one.  The hash functions of the filter are the         *)
(* constant BitsOf, which may collide.  The node is external, and so is    *)
(* what happens to a message on the way.                                   *)
(***************************************************************************)
EXTENDS Powers, SequencesExt

CONSTANTS
  Addr, PaidTo,     \* watched addresses; the address a transaction pays to
  MaxTx,            \* a block has transactions 1..n for an n up to MaxTx
  BitsOf,           \* of these elements, the bits of the filter they set
  MaxElements,      \* kMaxFilterElements
  Byte,             \* bits in a byte, 8
  CountBase,        \* 2^32, the range of nTransactions
  Counts            \* the nTransactions a bad message may have

\* No block has so many transactions that the width of its tree overflows.
ASSUME FilteredAssumption ==
  /\ MaxTx \in Nat /\ Counts \subseteq Nat
  /\ Byte \in Nat \ {0}
  /\ CountBase \in Nat \ {0} /\ 3 * MaxTx <= CountBase

\* What can be put into the filter or looked up in it.
ScriptPubKey(a) == <<"scriptPubKey", a>>   \* 25 bytes, the key hash among them
KeyHash(a) == <<"hash160", a>>             \* 20 bytes
TxId(t) == <<"txid", t>>

VARIABLES
  loaded,   \* the addresses the filter last sent was made of
  filter,   \* that filter, as the node has it
  block,    \* the number of transactions of the block asked for, 0 for none
  msg,      \* the merkleblock message
  intact,   \* whether msg is as the node sent it
  out       \* what ExtractMatches returned of it

filteredVars == <<loaded, filter, block, msg, intact, out>>

----------------------------------------------------------------------------
(* light_filter.cpp and RebuildFilter.                                     *)

Create == [bits |-> {}, count |-> 0]

IsFull(f) == f.count >= MaxElements

Insert(f, e) ==
  IF IsFull(f) THEN f ELSE [bits |-> f.bits \cup BitsOf[e], count |-> f.count + 1]

FilterContains(f, e) == BitsOf[e] \subseteq f.bits

FilterOf(A) == FoldSet(LAMBDA a, f : Insert(f, ScriptPubKey(a)), Create, A)

----------------------------------------------------------------------------
(* light_merkle.cpp                                                        *)

HashPair(l, r) == <<l, r>>

CeilDiv(a, b) == (a + b - 1) \div b

TreeWidth(n, h) == ((n + Pow2[h] - 1) % CountBase) \div Pow2[h]

Height(n) == CHOOSE h \in 0..n : TreeWidth(n, h) <= 1 /\ \A k \in 0..(h - 1) : TreeWidth(n, k) > 1

\* The hashes of neighbours; a last one without a neighbour is its own.
NextLevel(level) ==
  [i \in 1..CeilDiv(Len(level), 2) |->
     HashPair(level[2 * i - 1], level[IF 2 * i <= Len(level) THEN 2 * i ELSE 2 * i - 1])]

ComputeMerkleRoot(txids) ==
  LET level[h \in Nat] == IF h = 0 THEN txids ELSE NextLevel(level[h - 1])
      top == CHOOSE h \in 0..Len(txids) :
               Len(level[h]) <= 1 /\ \A k \in 0..(h - 1) : Len(level[k]) > 1
  IN  level[top][1]

\* A node of the tree and how many bits and hashes are used before it.
Cursor == [pos : Nat, bits : Nat, hashes : Nat]

\* What the traversal of a node gives: the bits and hashes used after it, fBad,
\* the matches under it, and its hash.
Exhausted(b, k) == [bits |-> b, hashes |-> k, bad |-> TRUE, match |-> <<>>, hash |-> <<>>]

\* A leaf or no parent of a match: its hash is in the message.
Leaf(m, h, b, k, parent) ==
  IF k >= Len(m.hashes) THEN Exhausted(b, k)
  ELSE LET hash == m.hashes[k + 1] IN
       [bits |-> b, hashes |-> k + 1, bad |-> FALSE,
        match |-> IF h = 0 /\ parent THEN <<hash>> ELSE <<>>, hash |-> hash]

\* Mutant: equal halves are not noticed.
JoinAny(left, right) ==
  [bits |-> right.bits, hashes |-> right.hashes, bad |-> left.bad \/ right.bad,
   match |-> left.match \o right.match, hash |-> HashPair(left.hash, right.hash)]

Join(left, right) ==
  [bits |-> right.bits, hashes |-> right.hashes,
   bad |-> left.bad \/ right.bad \/ right.hash = left.hash,
   match |-> left.match \o right.match, hash |-> HashPair(left.hash, right.hash)]

Traverse(m) ==
  LET visit[h \in Nat] ==
        [at \in Cursor |->
           IF at.bits >= Len(m.bits) THEN Exhausted(at.bits, at.hashes)
           ELSE LET parent == m.bits[at.bits + 1] IN
             IF h = 0 \/ ~parent THEN Leaf(m, h, at.bits + 1, at.hashes, parent)
             ELSE LET left == visit[h - 1][[pos |-> 2 * at.pos, bits |-> at.bits + 1,
                                            hashes |-> at.hashes]]
                  IN  IF 2 * at.pos + 1 < TreeWidth(m.n, h - 1)
                        THEN Join(left, visit[h - 1][[pos |-> 2 * at.pos + 1,
                                                      bits |-> left.bits,
                                                      hashes |-> left.hashes]])
                        ELSE [left EXCEPT !.hash = HashPair(@, @)]]
  IN  visit[Height(m.n)][[pos |-> 0, bits |-> 0, hashes |-> 0]]

Nothing == [got |-> FALSE, ok |-> FALSE, match |-> <<>>]
Rejected == [got |-> TRUE, ok |-> FALSE, match |-> <<>>]
Accepted(match) == [got |-> TRUE, ok |-> TRUE, match |-> match]

\* Mutant: the flags are taken to fill their bytes.
ExtractUnpadded(m) ==
  LET c == Traverse(m) IN
  [ok |-> /\ m.n # 0 /\ m.hashes # <<>> /\ m.bits # <<>>
          /\ Len(m.bits) >= Len(m.hashes)
          /\ ~c.bad
          /\ c.bits = Len(m.bits)
          /\ c.hashes = Len(m.hashes),
   root |-> c.hash, match |-> c.match]

\* CLightPartialMerkleTree::ExtractMatches; vBits holds Len(bits) / Byte bytes,
\* and the last test divides their number by Byte once more.
Extract(m) ==
  LET c == Traverse(m)
      bytes == Len(m.bits) \div Byte
  IN  [ok |-> /\ m.n # 0 /\ m.hashes # <<>> /\ m.bits # <<>>
              /\ Len(m.bits) >= Len(m.hashes)
              /\ ~c.bad
              /\ CeilDiv(c.bits, Byte) = CeilDiv(bytes, Byte)
              /\ c.hashes = Len(m.hashes),
       root |-> c.hash, match |-> c.match]

\* LightMerkleBlock::ExtractMatches
ExtractMatches(m) ==
  LET e == Extract(m) IN
  IF e.ok /\ e.root = m.root THEN Accepted(e.match) ELSE Rejected

----------------------------------------------------------------------------
(* The full node: CBloomFilter::IsRelevantAndUpdate tests the id of a      *)
(* transaction and the data that its scripts push; CPartialMerkleTree      *)
(* stores a bit per node it visits and a hash where it goes no deeper.     *)

IsRelevant(f, t) == FilterContains(f, TxId(t)) \/ FilterContains(f, KeyHash(PaidTo[t]))

Txids(n) == [t \in 1..n |-> <<t>>]

Relevant(f, n) == {t \in 1..n : IsRelevant(f, t)}

CalcHash(n, h, pos) ==
  LET calc[k \in Nat] ==
        [p \in Nat |->
           IF k = 0 THEN <<p + 1>>
           ELSE HashPair(calc[k - 1][2 * p],
                         calc[k - 1][IF 2 * p + 1 < TreeWidth(n, k - 1)
                                       THEN 2 * p + 1 ELSE 2 * p])]
  IN  calc[h][pos]

TraverseAndBuild(n, F) ==
  LET build[h \in Nat] ==
        [pos \in Nat |->
           LET parent == \E t \in F : t > pos * Pow2[h] /\ t <= (pos + 1) * Pow2[h]
               left == build[h - 1][2 * pos]
               right == build[h - 1][2 * pos + 1]
           IN  IF h = 0 \/ ~parent
                 THEN [bits |-> <<parent>>, hashes |-> <<CalcHash(n, h, pos)>>]
               ELSE IF 2 * pos + 1 < TreeWidth(n, h - 1)
                 THEN [bits |-> <<TRUE>> \o (left.bits \o right.bits),
                       hashes |-> left.hashes \o right.hashes]
               ELSE [bits |-> <<TRUE>> \o left.bits, hashes |-> left.hashes]]
  IN  build[Height(n)][0]

\* Serialised, the bits fill whole bytes.
Packed(bits) ==
  bits \o [i \in 1..(CeilDiv(Len(bits), Byte) * Byte - Len(bits)) |-> FALSE]

MerkleBlock(f, n) ==
  LET tree == TraverseAndBuild(n, Relevant(f, n)) IN
  [root |-> ComputeMerkleRoot(Txids(n)), n |-> n,
   hashes |-> tree.hashes, bits |-> Packed(tree.bits)]

NoMsg == [root |-> <<>>, n |-> 0, hashes |-> <<>>, bits |-> <<>>]

----------------------------------------------------------------------------
FilteredInit ==
  /\ loaded = {} /\ filter = Create
  /\ block = 0 /\ msg = NoMsg /\ intact = TRUE /\ out = Nothing

\* An oversized filter is not sent.
RebuildFilter(A) ==
  /\ block = 0
  /\ A # {} /\ Cardinality(A) <= MaxElements
  /\ filter' = FilterOf(A) /\ loaded' = A
  /\ UNCHANGED <<block, msg, intact, out>>

\* getdata for a filtered block, and the node's answer.
Serve(n) ==
  /\ block = 0 /\ loaded # {}
  /\ block' = n
  /\ msg' = MerkleBlock(filter, n)
  /\ UNCHANGED <<loaded, filter, intact, out>>

\* One thing about the proof is wrong, or the tree claims a last leaf more.
Corrupt ==
  /\ block # 0 /\ intact /\ ~out.got
  /\ \/ \E n \in Counts : msg' = [msg EXCEPT !.n = n]
     \/ \E i \in 1..Len(msg.bits) : msg' = [msg EXCEPT !.bits[i] = ~@]
     \/ \E i \in 1..Len(msg.hashes) : msg' = [msg EXCEPT !.hashes[i] = <<0>>]
     \/ \E i \in 1..Len(msg.hashes) : msg' = [msg EXCEPT !.hashes = RemoveAt(@, i)]
     \/ msg' = [msg EXCEPT !.hashes = Append(@, <<0>>)]
     \/ msg' = [msg EXCEPT !.bits = Packed(Append(@, FALSE))]
     \/ \E i \in 1..Len(msg.bits), n \in Counts :   \* the last leaf twice
          msg' = [msg EXCEPT !.hashes = Append(@, Last(@)), !.n = n, !.bits[i] = TRUE]
  /\ intact' = FALSE
  /\ UNCHANGED <<loaded, filter, block, out>>

Receive ==
  /\ block # 0 /\ ~out.got
  /\ out' = ExtractMatches(msg)
  /\ UNCHANGED <<loaded, filter, block, msg, intact>>

\* The next block.
Done ==
  /\ block # 0
  /\ block' = 0 /\ msg' = NoMsg /\ intact' = TRUE /\ out' = Nothing
  /\ UNCHANGED <<loaded, filter>>

FilteredNext ==
  \/ \E A \in SUBSET Addr : RebuildFilter(A)
  \/ \E n \in 1..MaxTx : Serve(n)
  \/ Corrupt \/ Receive \/ Done

FilteredSpec == FilteredInit /\ [][FilteredNext]_filteredVars

----------------------------------------------------------------------------
(* Properties.                                                             *)

RelevantTxids(n) ==
  LET upTo[t \in Nat] == IF t = 0 THEN <<>>
                         ELSE IF t \in Relevant(filter, n) THEN Append(upTo[t - 1], <<t>>)
                         ELSE upTo[t - 1]
  IN  upTo[n]

\* The message the node made of a block is accepted, and gives exactly the
\* transactions the node flagged, in the order of the block: the two sides
\* agree on the tree of every size, on the padding and on who has a hash.
\* "Only the number of bytes used must agree with the bytes of vBits" says the
\* comment in ExtractMatches.
HonestProofAccepted == out.got /\ intact => out = Accepted(RelevantTxids(block))

\* The same of the proofs that take one byte of flags.
HonestByteAccepted ==
  out.got /\ intact /\ Len(msg.bits) <= Byte => out = Accepted(RelevantTxids(block))

NodesOfTree(n) ==
  UNION {{CalcHash(n, h, p) : p \in 0..(TreeWidth(n, h) - 1)} : h \in 0..Height(n)}

\* Whatever happened to a proof on the way, what an accepted one gives is in
\* the block's tree, and nothing twice; if its count of transactions is the
\* block's, they are transactions of the block, in order.
MatchesAreOfBlock ==
  out.ok =>
    /\ ToSet(out.match) \subseteq NodesOfTree(block)
    /\ IsInjective(out.match)
    /\ msg.n = block =>
         /\ ToSet(out.match) \subseteq ToSet(Txids(block))
         /\ \A i, j \in DOMAIN out.match : i < j => out.match[i][1] < out.match[j][1]

\* A payment to a watched address, in a block fetched through the filter made
\* of it, is among the matches: README.md promises that new transactions of the
\* address are received as MERKLEBLOCK and TX.
PaymentIsMatched ==
  out.got /\ intact =>
    \A t \in 1..block : PaidTo[t] \in loaded => <<t>> \in ToSet(out.match)

=============================================================================
