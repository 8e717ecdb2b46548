---------------------------- MODULE HeaderChain ----------------------------
(***************************************************************************)
(* CLightChainStore, ValidateHeader and CheckCheckpoint                    *)
(* (src/src/light/light_chainstore.cpp, light_validation.cpp) as operators *)
(* on a chain [at, height, tip, work]: m_by_height, m_by_hash,             *)
(* m_tip_height and m_chainwork.                                           *)
(*                                                                         *)
(* A header is its hash.  What the code computes from its bytes is given   *)
(* by constants: the parent, the timestamp, the work of its nBits, whether *)
(* it passes the checks that look at the header alone, and whether its     *)
(* nBits is what the rules say, which not every caller asks.  The block    *)
(* tree the nodes know is external: branches from one genesis block.       *)
(***************************************************************************)
EXTENDS Integers, FiniteSets, SequencesExt

CONSTANTS
  Header,    \* block headers
  Prev,      \* header -> hashPrevBlock
  Time,      \* header -> nTime
  Work,      \* header -> 2^256 / (target + 1)
  Good,      \* headers whose hash is at most the target their own nBits names,
             \* with nVersion >= 4 and a time not too far ahead
  Expected,  \* headers whose nBits is what GetNextASERTBits gives for the parent
  CpHeight, CpHash, CpWork,   \* GetBuiltinCheckpoint()
  Window,    \* timestamps in the median time past, 11 in the code
  Branches,  \* branches of the block tree, sequences from the genesis block
  BatchMax   \* headers in an answer, 2000 in the code

ASSUME HeaderChainAssumption ==
  /\ Time \in [Header -> Nat]
  /\ Work \in [Header -> Nat]
  /\ Good \subseteq Header
  /\ CpHash \in Header
  /\ CpHeight \in Nat /\ CpWork \in Nat
  /\ Window \in Nat \ {0}

\* A block names the one below it, and all branches start at one genesis block.
ASSUME TreeAssumption ==
  /\ Branches \subseteq Seq(Header)
  /\ \A b \in Branches : b # <<>> /\ IsInjective(b)
  /\ \A b, c \in Branches : b[1] = c[1]
  /\ \A b \in Branches : \A i \in DOMAIN b : i > 1 => Prev[b[i]] = b[i - 1]
  /\ BatchMax \in Nat \ {0}

\* What a node sends after the ith block of its branch.
After(b, i) == SubSeq(b, i + 1, Min({i + BatchMax, Len(b)}))

EmptyChain == [at |-> <<>>, height |-> <<>>, tip |-> -1, work |-> 0]

\* m[k] = v of a map.
Put(m, k, v) == [x \in DOMAIN m \cup {k} |-> IF x = k THEN v ELSE m[x]]

AddHeader(c, h, n) ==
  [at |-> Put(c.at, n, h), height |-> Put(c.height, h, n),
   tip |-> IF n > c.tip THEN n ELSE c.tip, work |-> c.work]

AddWork(c, h) == [c EXCEPT !.work = @ + Work[h]]

Kept(c) == DOMAIN c.at

\* The heights GetMedianTimePast looks at: the newest Window of them, down to
\* the first gap.
Recent(c, n) == {k \in Kept(c) : k <= n /\ n - k < Window /\ k..n \subseteq Kept(c)}

\* times[times.size() / 2] of the sorted times, T the time at each height.
Middle(T) ==
  LET half == Cardinality(DOMAIN T) \div 2
  IN  CHOOSE t \in {T[k] : k \in DOMAIN T} :
        /\ Cardinality({k \in DOMAIN T : T[k] < t}) <= half
        /\ Cardinality({k \in DOMAIN T : T[k] <= t}) > half

MedianTimePast(c, n) == Middle([k \in Recent(c, n) |-> Time[c.at[k]]])

Linked(c, h, n) == n > 0 => n - 1 \in Kept(c) /\ Prev[h] = c.at[n - 1]

\* Up to the checkpoint the link is all that is checked.
Historical(n) == n <= CpHeight

\* Mutant: the new segment starts a block late.
ValidateHeaderLate(c, h, n) ==
  /\ Linked(c, h, n)
  /\ n > CpHeight + 1 => h \in Good /\ Time[h] > MedianTimePast(c, n - 1)

\* Mutant: the parent is not looked at.
ValidateHeaderUnlinked(c, h, n) ==
  ~Historical(n) => h \in Good /\ Time[h] > MedianTimePast(c, n - 1)

ValidateHeader(c, h, n) ==
  /\ Linked(c, h, n)
  /\ ~Historical(n) => h \in Good /\ Time[h] > MedianTimePast(c, n - 1)

CheckCheckpoint(c) ==
  /\ c.work >= CpWork
  /\ CpHeight \in Kept(c)
  /\ c.at[CpHeight] = CpHash

=============================================================================
